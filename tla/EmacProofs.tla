----------------------------- MODULE EmacProofs -----------------------------
(***************************************************************************)
(* Theorems about the receive side of the Ethernet device for every ring   *)
(* size, mailbox size and set of lengths: first the ring by itself         *)
(* (EmacRx), then the ring that the phy thread sets up anew under the feet *)
(* of its two ends (Emac).                                                 *)
(***************************************************************************)
EXTENDS Emac, SequenceTheorems, TLAPS

LEMMA SuccType == \A i \in Slot : Succ(i) \in Slot
  BY RxConstants DEF Slot, Succ

LEMMA DescriptorSeq == \A d \in Descriptor : d.seq \in 0 .. MaxFrames
  <1>1. \A d \in Frame : d.seq \in 0 .. MaxFrames
    BY RxConstants DEF Frame
  <1>2. NoFrame.seq \in 0 .. MaxFrames
    BY RxConstants DEF NoFrame
  <1>3. QED
    BY <1>1, <1>2 DEF Descriptor

LEMMA LenMaskNat == LenMask \in Nat
  BY DEF LenMask

LEMMA DescriptorLen == \A d \in Descriptor : d.len \in 0 .. LenMask
  <1>1. \A d \in Frame : d.len \in 0 .. LenMask
    BY RxLengths DEF Frame
  <1>2. NoFrame.len \in 0 .. LenMask
    BY LenMaskNat DEF NoFrame
  <1>3. QED
    BY <1>1, <1>2 DEF Descriptor

LEMMA RecvType == TypeOK => Recv \in Holding
  <1> SUFFICES ASSUME TypeOK PROVE Recv \in Holding
    OBVIOUS
  <1>1. rxcur \in Slot /\ buf[rxcur] \in Descriptor
    BY DEF TypeOK
  <1>2. \A f \in Descriptor : f.len \in 0 .. LenMask
    BY DescriptorLen
  <1>3. [ptr |-> Null, len |-> -1] \in Holding
    BY LenMaskNat DEF Holding
  <1>4. \A f \in Descriptor : RecvPacket(f) \in Holding
    <2> TAKE f \in Descriptor
    <2>1. CASE f.len > RxSize
      BY <1>3, <2>1 DEF RecvPacket
    <2>2. CASE ~(f.len > RxSize) /\ f.len < MinLength
      BY <1>2, <2>2 DEF RecvPacket, Holding
    <2>3. CASE ~(f.len > RxSize) /\ ~(f.len < MinLength)
      BY <1>1, <1>2, <2>3 DEF RecvPacket, Holding
    <2>4. QED
      BY <2>1, <2>2, <2>3
  <1>5. QED
    BY <1>1, <1>3, <1>4 DEF Recv

LEMMA PbufType == TypeOK => Pbuf(held.ptr, held.len) \in Pbufs
  <1> SUFFICES ASSUME TypeOK PROVE Pbuf(held.ptr, held.len) \in Pbufs
    OBVIOUS
  <1>1. held.ptr \in Slot \cup {Null} /\ held.len \in -1 .. LenMask
    BY DEF TypeOK, Holding
  <1>2. held.ptr \in Slot => buf[held.ptr].seq \in 0 .. MaxFrames
    BY DescriptorSeq DEF TypeOK
  <1>3. CASE held.ptr = Null
    BY <1>1, <1>3, RxConstants DEF Pbuf, Pbufs
  <1>4. CASE held.ptr # Null
    BY <1>1, <1>2, <1>4 DEF Pbuf, Pbufs
  <1>5. QED
    BY <1>3, <1>4

LEMMA TypeStep == TypeOK /\ [Next]_vars => TypeOK'
  <1> SUFFICES ASSUME TypeOK, [Next]_vars PROVE TypeOK'
    OBVIOUS
  <1>1. CASE DmaReceive
    <2>1. PICK l \in Lengths :
            buf' = [buf EXCEPT ![dmacur] = [seq |-> wire + 1, len |-> l]]
      BY <1>1 DEF DmaReceive
    <2>2. wire' \in 0 .. MaxFrames
      BY <1>1, RxConstants DEF DmaReceive, TypeOK
    <2>3. [seq |-> wire + 1, len |-> l] \in Descriptor
      BY <1>1, <2>2 DEF DmaReceive, Descriptor, Frame, TypeOK
    <2>4. buf' \in [Slot -> Descriptor]
      BY <2>1, <2>3 DEF TypeOK
    <2>5. dmacur' \in Slot
      BY <1>1, SuccType DEF DmaReceive, TypeOK
    <2>6. QED
      BY <1>1, <2>2, <2>4, <2>5 DEF DmaReceive, TypeOK, Bit
  <1>2. CASE IsrReady
    BY <1>2, RxConstants DEF IsrReady, TypeOK
  <1>3. CASE IsrAck
    BY <1>3 DEF IsrAck, TypeOK, Bit
  <1>4. CASE ErxWake
    BY <1>4, RxConstants DEF ErxWake, TypeOK
  <1>5. CASE ErxRecv
    BY <1>5, RecvType DEF ErxRecv, TypeOK
  <1>6. CASE ErxCopyFree
    <2>1. rcvd' \in Seq(Pbufs)
      BY <1>6, PbufType DEF ErxCopyFree, TypeOK
    <2>2. rxcur' \in Slot
      BY <1>6, SuccType DEF ErxCopyFree, TypeOK
    <2>3. QED
      BY <1>6, <2>1, <2>2 DEF ErxCopyFree, TypeOK, Bit
  <1>7. CASE ErxAllocFail
    BY <1>7 DEF ErxAllocFail, TypeOK
  <1>8. CASE UNCHANGED vars
    BY <1>8 DEF vars, TypeOK
  <1>9. QED
    BY <1>1, <1>2, <1>3, <1>4, <1>5, <1>6, <1>7, <1>8 DEF Next, Erx

\* TypeOK: every variable keeps its type in every reachable state.
THEOREM TypeCorrect == Spec => []TypeOK
  <1>1. Init => TypeOK
    BY RxConstants DEF Init, TypeOK, Slot, Descriptor, Holding, NoFrame, Null, Bit
  <1>2. QED
    BY <1>1, TypeStep, PTL DEF Spec

-----------------------------------------------------------------------------
(* The ring as a queue: what At and Fill do when a cursor moves.           *)

LEMMA AtType ==
  ASSUME TypeOK, NEW k \in 0 .. N - 1
  PROVE  At(k) \in Slot
  BY RxConstants DEF TypeOK, At, Slot

LEMMA AtInjective ==
  ASSUME TypeOK, NEW j \in 0 .. N - 1, NEW k \in 0 .. N - 1, At(j) = At(k)
  PROVE  j = k
  BY RxConstants DEF TypeOK, At, Slot

LEMMA AtOnto ==
  ASSUME TypeOK, NEW i \in Slot
  PROVE  \E k \in 0 .. N - 1 : At(k) = i
  <1>1. CASE i >= rxcur
    <2>1. i - rxcur \in 0 .. N - 1 /\ At(i - rxcur) = i
      BY <1>1, RxConstants DEF TypeOK, At, Slot
    <2>2. QED
      BY <2>1
  <1>2. CASE i < rxcur
    <2>1. i - rxcur + N \in 0 .. N - 1 /\ At(i - rxcur + N) = i
      BY <1>2, RxConstants DEF TypeOK, At, Slot
    <2>2. QED
      BY <2>1
  <1>3. QED
    BY <1>1, <1>2, RxConstants DEF TypeOK, Slot

LEMMA FillType == TypeOK => Fill \in 0 .. N
  BY RxConstants DEF TypeOK, Fill, Slot

\* A descriptor of the DMA's at dmacur means there is room in the ring.
LEMMA RoomAtDmacur ==
  ASSUME TypeOK, RingOwnership, own[dmacur] = 1
  PROVE  Fill < N /\ At(Fill) = dmacur
  <1>1. CASE dmacur = rxcur
    BY <1>1, RxConstants DEF TypeOK, Fill, At, Slot
  <1>2. CASE dmacur # rxcur
    BY <1>2, RxConstants DEF TypeOK, Fill, At, Slot
  <1>3. QED
    BY <1>1, <1>2

\* A descriptor of the CPU's at rxcur means there is a frame in the ring.
LEMMA FrameAtRxcur ==
  ASSUME TypeOK, RingOwnership, own[rxcur] = 0
  PROVE  Fill > 0
  <1>1. At(0) = rxcur /\ 0 \in 0 .. N - 1
    BY RxConstants DEF TypeOK, At, Slot
  <1>2. QED
    BY <1>1, FillType DEF RingOwnership

LEMMA DmaFill ==
  ASSUME TypeOK, RingOwnership, DmaReceive
  PROVE  /\ Fill < N /\ At(Fill) = dmacur
         /\ Fill' = Fill + 1
         /\ \A k \in 0 .. N : At(k)' = At(k)
  <1>1. Fill < N /\ At(Fill) = dmacur
    BY RoomAtDmacur DEF DmaReceive
  <1>2. \A k \in 0 .. N : At(k)' = At(k)
    BY DEF DmaReceive, At
  <1>3. own[dmacur] = 1 /\ own'[dmacur] = 0 /\ rxcur' = rxcur /\ dmacur' = Succ(dmacur)
    BY DEF DmaReceive, TypeOK
  <1>4. Fill' = Fill + 1
    <2>1. CASE dmacur = rxcur
      BY <1>3, <2>1, RxConstants DEF TypeOK, Fill, Succ, Slot
    <2>2. CASE dmacur # rxcur
      <3>1. CASE Succ(dmacur) = rxcur
        <4>1. own'[rxcur] = 0
          <5>1. Fill > 0 /\ At(0) = rxcur
            BY <2>2, RxConstants DEF TypeOK, Fill, At, Slot
          <5>2. own[rxcur] = 0
            BY <5>1, FillType, RxConstants DEF RingOwnership, TypeOK, Bit
          <5>3. QED
            BY <2>2, <5>2 DEF DmaReceive, TypeOK
        <4>2. QED
          BY <1>3, <2>2, <3>1, <4>1, RxConstants DEF TypeOK, Fill, Succ, Slot
      <3>2. CASE Succ(dmacur) # rxcur
        BY <1>3, <2>2, <3>2, RxConstants DEF TypeOK, Fill, Succ, Slot
      <3>3. QED
        BY <3>1, <3>2
    <2>3. QED
      BY <2>1, <2>2
  <1>5. QED
    BY <1>1, <1>2, <1>4

LEMMA FreeFill ==
  ASSUME TypeOK, RingOwnership, own[rxcur] = 0, ErxCopyFree
  PROVE  /\ Fill > 0
         /\ Fill' = Fill - 1
         /\ \A k \in 0 .. N - 2 : At(k)' = At(k + 1)
         /\ At(N - 1)' = rxcur
  <1>1. Fill > 0
    BY FrameAtRxcur
  <1>2. rxcur' = Succ(rxcur) /\ dmacur' = dmacur /\ own'[rxcur] = 1
    BY DEF ErxCopyFree, TypeOK
  <1>3. \A k \in 0 .. N - 2 : At(k)' = At(k + 1)
    BY <1>2, RxConstants DEF TypeOK, At, Succ, Slot
  <1>4. At(N - 1)' = rxcur
    BY <1>2, RxConstants DEF TypeOK, At, Succ, Slot
  <1>5. Fill' = Fill - 1
    <2>1. CASE rxcur = dmacur
      BY <1>2, <2>1, RxConstants DEF TypeOK, Fill, Succ, Slot
    <2>2. CASE rxcur # dmacur
      <3>1. CASE Succ(rxcur) = dmacur
        <4>1. own'[dmacur] = 1
          <5>1. Fill \in 0 .. N - 1 /\ At(Fill) = dmacur
            BY <2>2, RxConstants DEF TypeOK, Fill, At, Slot
          <5>2. own[dmacur] = 1
            BY <5>1 DEF RingOwnership
          <5>3. QED
            BY <2>2, <5>2 DEF ErxCopyFree, TypeOK
        <4>2. QED
          BY <1>2, <2>2, <3>1, <4>1, RxConstants DEF TypeOK, Fill, Succ, Slot
      <3>2. CASE Succ(rxcur) # dmacur
        BY <1>2, <2>2, <3>2, RxConstants DEF TypeOK, Fill, Succ, Slot
      <3>3. QED
        BY <3>1, <3>2
    <2>3. QED
      BY <2>1, <2>2
  <1>6. QED
    BY <1>1, <1>3, <1>4, <1>5

-----------------------------------------------------------------------------
(* Ownership of the descriptors.                                           *)

RingInv == TypeOK /\ RingOwnership /\ HeldIsHead

LEMMA RingInit == Init => RingOwnership /\ HeldIsHead
  BY RxConstants DEF Init, RingOwnership, HeldIsHead, Fill, At, Slot

LEMMA OwnershipDma ==
  ASSUME TypeOK, RingOwnership, DmaReceive
  PROVE  RingOwnership'
  <1>1. Fill < N /\ At(Fill) = dmacur /\ Fill' = Fill + 1
    BY DmaFill
  <1>2. \A k \in 0 .. N - 1 : At(k)' = At(k)
    BY DEF DmaReceive, At
  <1>3. Fill \in 0 .. N - 1
    BY <1>1, FillType, RxConstants
  <1>4. own' = [own EXCEPT ![dmacur] = 0]
    BY DEF DmaReceive
  <1>5. ASSUME NEW k \in 0 .. N - 1
        PROVE  own'[At(k)] = 1 <=> k >= Fill + 1
    <2>1. CASE k = Fill
      BY <1>1, <1>3, <1>4, <2>1, AtType DEF TypeOK
    <2>2. CASE k # Fill
      <3>1. At(k) # dmacur
        BY <1>1, <1>3, <2>2, AtInjective
      <3>2. own'[At(k)] = own[At(k)]
        BY <1>4, <3>1, AtType DEF TypeOK
      <3>3. QED
        BY <1>3, <2>2, <3>2 DEF RingOwnership
    <2>3. QED
      BY <2>1, <2>2
  <1>6. QED
    BY <1>1, <1>2, <1>5 DEF RingOwnership

LEMMA OwnershipFree ==
  ASSUME TypeOK, RingOwnership, own[rxcur] = 0, ErxCopyFree
  PROVE  RingOwnership'
  <1>1. /\ Fill > 0 /\ Fill' = Fill - 1
        /\ \A k \in 0 .. N - 2 : At(k)' = At(k + 1)
        /\ At(N - 1)' = rxcur
    BY FreeFill
  <1>2. own' = [own EXCEPT ![rxcur] = 1] /\ rxcur \in Slot /\ At(0) = rxcur
    BY RxConstants DEF ErxCopyFree, TypeOK, At, Slot
  <1>3. Fill \in 1 .. N
    BY <1>1, FillType, RxConstants
  <1>4. ASSUME NEW k \in 0 .. N - 1
        PROVE  own'[At(k)'] = 1 <=> k >= Fill - 1
    <2>1. CASE k = N - 1
      BY <1>1, <1>2, <1>3, <2>1, RxConstants DEF TypeOK
    <2>2. CASE k # N - 1
      <3>1. k + 1 \in 0 .. N - 1 /\ k \in 0 .. N - 2 /\ 0 \in 0 .. N - 1 /\ k + 1 # 0
        BY <2>2, RxConstants
      <3>2. At(k + 1) # rxcur
        BY <1>2, <3>1, AtInjective
      <3>3. own'[At(k + 1)] = own[At(k + 1)]
        BY <1>2, <3>1, <3>2, AtType DEF TypeOK
      <3>4. own[At(k + 1)] = 1 <=> k + 1 >= Fill
        BY <3>1 DEF RingOwnership
      <3>5. QED
        BY <1>1, <1>3, <3>1, <3>3, <3>4
    <2>3. QED
      BY <2>1, <2>2
  <1>5. QED
    BY <1>1, <1>4 DEF RingOwnership

LEMMA RingStep == RingInv /\ [Next]_vars => RingOwnership' /\ HeldIsHead'
  <1> SUFFICES ASSUME RingInv, [Next]_vars PROVE RingOwnership' /\ HeldIsHead'
    OBVIOUS
  <1> USE DEF RingInv
  <1>1. CASE DmaReceive
    <2>1. RingOwnership'
      BY <1>1, OwnershipDma
    <2>2. erx = "alloc" => rxcur # dmacur
      BY <1>1 DEF HeldIsHead, DmaReceive
    <2>3. HeldIsHead'
      BY <1>1, <2>2 DEF HeldIsHead, DmaReceive, TypeOK
    <2>4. QED
      BY <2>1, <2>3
  <1>2. CASE ErxCopyFree
    <2>1. own[rxcur] = 0
      BY <1>2 DEF ErxCopyFree, HeldIsHead
    <2>2. RingOwnership'
      BY <1>2, <2>1, OwnershipFree
    <2>3. HeldIsHead'
      BY <1>2 DEF ErxCopyFree, HeldIsHead
    <2>4. QED
      BY <2>2, <2>3
  <1>3. CASE ErxRecv
    <2>1. RingOwnership'
      BY <1>3 DEF ErxRecv, RingOwnership, Fill, At
    <2>2. HeldIsHead'
      <3>1. CASE own[rxcur] = 1
        BY <1>3, <3>1 DEF ErxRecv, HeldIsHead, Recv
      <3>2. CASE own[rxcur] # 1
        <4>1. own[rxcur] = 0
          BY <3>2 DEF TypeOK, Bit
        <4>2. Recv = RecvPacket(buf[rxcur])
          BY <3>2 DEF Recv
        <4>3. CASE buf[rxcur].len > RxSize
          BY <1>3, <4>2, <4>3 DEF ErxRecv, HeldIsHead, RecvPacket
        <4>4. CASE ~(buf[rxcur].len > RxSize)
          BY <1>3, <4>1, <4>2, <4>4 DEF ErxRecv, HeldIsHead, RecvPacket
        <4>5. QED
          BY <4>3, <4>4
      <3>3. QED
        BY <3>1, <3>2
    <2>3. QED
      BY <2>1, <2>2
  <1>4. CASE IsrReady \/ IsrAck \/ ErxWake \/ ErxAllocFail \/ UNCHANGED vars
    <2>1. UNCHANGED <<own, buf, dmacur, rxcur, held>> /\ (erx' = "alloc" => erx = "alloc")
      BY <1>4 DEF IsrReady, IsrAck, ErxWake, ErxAllocFail, vars
    <2>2. RingOwnership'
      BY <2>1 DEF RingOwnership, Fill, At
    <2>3. HeldIsHead'
      BY <2>1 DEF HeldIsHead
    <2>4. QED
      BY <2>2, <2>3
  <1>5. QED
    BY <1>1, <1>2, <1>3, <1>4 DEF Next, Erx

\* RingOwnership: the DMA and the CPU split the ring at the two cursors in
\* every reachable state, whatever pbuf_alloc and the lengths do.
THEOREM RingSafe == Spec => []RingOwnership
  <1>1. Init => RingOwnership /\ HeldIsHead
    BY RingInit
  <1>2. TypeOK /\ (RingOwnership /\ HeldIsHead) /\ [Next]_vars
          => (RingOwnership /\ HeldIsHead)'
    BY RingStep DEF RingInv
  <1>3. QED
    BY <1>1, <1>2, TypeCorrect, PTL DEF Spec

\* HeldIsHead: the buffer _emac_rx is copying from is never the DMA's.
THEOREM CopySafe == Spec => []HeldIsHead
  <1>1. Init => RingOwnership /\ HeldIsHead
    BY RingInit
  <1>2. TypeOK /\ (RingOwnership /\ HeldIsHead) /\ [Next]_vars
          => (RingOwnership /\ HeldIsHead)'
    BY RingStep DEF RingInv
  <1>3. QED
    BY <1>1, <1>2, TypeCorrect, PTL DEF Spec

-----------------------------------------------------------------------------
(* First in, first out.                                                    *)

\* FramesInOrder in the form the steps need: Pending expanded.
InOrder ==
  /\ wire = Len(rcvd) + Fill
  /\ \A k \in 1 .. Fill : buf[At(k - 1)].seq = Len(rcvd) + k
  /\ \A k \in 1 .. Len(rcvd) :
       /\ rcvd[k].len < MinLength => rcvd[k].seq = 0
       /\ ~(rcvd[k].len < MinLength) => rcvd[k].seq = k

LEMMA InOrderSame == InOrder <=> FramesInOrder
  <1>1. \A k \in 1 .. Fill : Pending[k] = buf[At(k - 1)]
    BY DEF Pending
  <1>2. (\A k \in 1 .. Fill : buf[At(k - 1)].seq = Len(rcvd) + k)
          <=> (\A k \in 1 .. Fill : Pending[k].seq = Len(rcvd) + k)
    BY <1>1
  <1>3. (\A k \in 1 .. Len(rcvd) :
            /\ rcvd[k].len < MinLength => rcvd[k].seq = 0
            /\ ~(rcvd[k].len < MinLength) => rcvd[k].seq = k)
         <=> (\A k \in 1 .. Len(rcvd) :
                IF rcvd[k].len < MinLength THEN rcvd[k].seq = 0 ELSE rcvd[k].seq = k)
    OBVIOUS
  <1>4. QED
    BY <1>2, <1>3 DEF InOrder, FramesInOrder

LEMMA InOrderInit == Init => InOrder
  <1> SUFFICES ASSUME Init PROVE InOrder
    OBVIOUS
  <1>1. Fill = 0
    BY RxConstants DEF Init, Fill, Slot
  <1>2. Len(rcvd) = 0 /\ wire = 0
    BY DEF Init
  <1>3. QED
    BY <1>1, <1>2 DEF InOrder

LEMMA InOrderDma ==
  ASSUME RingInv, InOrder, DmaReceive
  PROVE  InOrder'
  <1> USE DEF RingInv
  <1>1. /\ Fill < N /\ At(Fill) = dmacur /\ Fill' = Fill + 1
        /\ \A k \in 0 .. N : At(k)' = At(k)
    BY DmaFill
  <1>2. Fill \in 0 .. N - 1 /\ Len(rcvd) \in Nat /\ wire \in Nat
    BY <1>1, FillType, RxConstants DEF TypeOK
  <1>3. PICK l \in Lengths :
          buf' = [buf EXCEPT ![dmacur] = [seq |-> wire + 1, len |-> l]]
    BY DEF DmaReceive
  <1>4. wire' = wire + 1 /\ rcvd' = rcvd
    BY DEF DmaReceive
  <1>5. ASSUME NEW k \in 1 .. Fill + 1
        PROVE  buf'[At(k - 1)'].seq = Len(rcvd) + k
    <2>1. k - 1 \in 0 .. N - 1 /\ At(k - 1)' = At(k - 1)
      BY <1>1, <1>2, RxConstants
    <2>2. CASE k = Fill + 1
      <3>1. k - 1 = Fill
        BY <1>2, <2>2
      <3>2. buf'[dmacur].seq = wire + 1
        BY <1>3 DEF TypeOK
      <3>3. QED
        BY <1>1, <1>2, <2>1, <2>2, <3>1, <3>2 DEF InOrder
    <2>3. CASE k # Fill + 1
      <3>1. At(k - 1) # dmacur
        BY <1>1, <1>2, <2>1, <2>3, AtInjective
      <3>2. buf'[At(k - 1)] = buf[At(k - 1)]
        BY <1>3, <2>1, <3>1, AtType DEF TypeOK
      <3>3. k \in 1 .. Fill
        BY <1>2, <2>3
      <3>4. QED
        BY <2>1, <3>2, <3>3 DEF InOrder
    <2>4. QED
      BY <2>2, <2>3
  <1>6. wire' = Len(rcvd') + Fill'
    BY <1>1, <1>2, <1>4 DEF InOrder
  <1>7. QED
    BY <1>1, <1>4, <1>5, <1>6 DEF InOrder

LEMMA InOrderFree ==
  ASSUME RingInv, InOrder, ErxCopyFree
  PROVE  InOrder'
  <1> USE DEF RingInv
  <1> DEFINE pbuf == Pbuf(held.ptr, held.len)
  <1>1. /\ own[rxcur] = 0
        /\ held.len = buf[rxcur].len
        /\ held.ptr = IF held.len < MinLength THEN Null ELSE rxcur
    BY DEF ErxCopyFree, HeldIsHead
  <1>2. /\ Fill > 0 /\ Fill' = Fill - 1
        /\ \A k \in 0 .. N - 2 : At(k)' = At(k + 1)
    BY <1>1, FreeFill
  <1>3. Fill \in 1 .. N /\ At(0) = rxcur
    BY <1>2, FillType, RxConstants DEF TypeOK, At, Slot
  <1>4. rcvd \in Seq(Pbufs) /\ rcvd' = Append(rcvd, pbuf) /\ buf' = buf /\ wire' = wire
    BY DEF ErxCopyFree, TypeOK
  <1>5. Len(rcvd') = Len(rcvd) + 1 /\ Len(rcvd) \in Nat
    BY <1>4
  <1>6. wire' = Len(rcvd') + Fill'
    BY <1>2, <1>3, <1>4, <1>5 DEF InOrder
  <1>7. ASSUME NEW k \in 1 .. Fill - 1
        PROVE  buf'[At(k - 1)'].seq = Len(rcvd') + k
    <2>1. k - 1 \in 0 .. N - 2 /\ k + 1 \in 1 .. Fill
      BY <1>3, RxConstants
    <2>2. At(k - 1)' = At(k)
      BY <1>2, <2>1, RxConstants
    <2>3. buf[At((k + 1) - 1)].seq = Len(rcvd) + (k + 1)
      BY <2>1 DEF InOrder
    <2>4. (k + 1) - 1 = k
      BY <2>1
    <2>5. QED
      BY <1>4, <1>5, <2>2, <2>3, <2>4
  <1>8. pbuf.len = held.len /\ (held.len < MinLength => pbuf.seq = 0)
    BY <1>1 DEF Pbuf
  <1>9. ~(held.len < MinLength) => pbuf.seq = Len(rcvd) + 1
    <2>1. buf[At(1 - 1)].seq = Len(rcvd) + 1
      BY <1>3 DEF InOrder
    <2>2. buf[rxcur].seq = Len(rcvd) + 1
      BY <1>3, <2>1
    <2>3. rxcur # Null
      BY RxConstants DEF TypeOK, Slot, Null
    <2>4. QED
      BY <1>1, <2>2, <2>3 DEF Pbuf
  <1> HIDE DEF pbuf
  <1>10. ASSUME NEW k \in 1 .. Len(rcvd')
         PROVE  /\ rcvd'[k].len < MinLength => rcvd'[k].seq = 0
                /\ ~(rcvd'[k].len < MinLength) => rcvd'[k].seq = k
    <2>1. CASE k = Len(rcvd) + 1
      <3>1. rcvd'[k] = pbuf
        BY <1>4, <2>1
      <3>2. QED
        BY <1>8, <1>9, <2>1, <3>1
    <2>2. CASE k # Len(rcvd) + 1
      <3>1. k \in 1 .. Len(rcvd) /\ rcvd'[k] = rcvd[k]
        BY <1>4, <1>5, <2>2
      <3>2. QED
        BY <3>1 DEF InOrder
    <2>3. QED
      BY <2>1, <2>2
  <1>11. QED
    BY <1>2, <1>6, <1>7, <1>10 DEF InOrder

LEMMA InOrderStep == RingInv /\ InOrder /\ [Next]_vars => InOrder'
  <1> SUFFICES ASSUME RingInv, InOrder, [Next]_vars PROVE InOrder'
    OBVIOUS
  <1>1. CASE DmaReceive
    BY <1>1, InOrderDma
  <1>2. CASE ErxCopyFree
    BY <1>2, InOrderFree
  <1>3. CASE IsrReady \/ IsrAck \/ ErxWake \/ ErxRecv \/ ErxAllocFail \/ UNCHANGED vars
    <2>1. UNCHANGED <<own, buf, dmacur, rxcur, wire, rcvd>>
      BY <1>3 DEF IsrReady, IsrAck, ErxWake, ErxRecv, ErxAllocFail, vars
    <2>2. QED
      BY <2>1 DEF InOrder, Fill, At
  <1>4. QED
    BY <1>1, <1>2, <1>3 DEF Next, Erx

\* FramesInOrder: reception neither loses, repeats nor reorders a frame the
\* MAC accepted, for every ring size and whatever allocations fail.
THEOREM InOrderDelivery == Spec => []FramesInOrder
  <1>1. Init => InOrder
    BY InOrderInit
  <1>2. TypeOK /\ RingOwnership /\ HeldIsHead /\ InOrder /\ [Next]_vars => InOrder'
    BY InOrderStep DEF RingInv
  <1>3. InOrder => FramesInOrder
    BY InOrderSame
  <1>4. QED
    BY <1>1, <1>2, <1>3, TypeCorrect, RingSafe, CopySafe, PTL DEF Spec

-----------------------------------------------------------------------------
(* Wake-ups.                                                               *)

\* What NoLostWakeup needs besides itself: the handler has posted before it
\* acknowledges, and only frames recv accepts get as far as pbuf_alloc, where
\* held still describes them.
WakeInv ==
  /\ isr = "ack" => mbox > 0
  /\ erx = "alloc" => ~Refused(buf[rxcur]) /\ Taken
  /\ NoLostWakeup

LEMMA WakeInit == Init => WakeInv
  BY RxConstants DEF Init, WakeInv, NoLostWakeup, Fill, Slot

LEMMA HeadStays ==
  ASSUME RingInv, DmaReceive, own[rxcur] = 0
  PROVE  buf'[rxcur'] = buf[rxcur]
  <1>1. rxcur # dmacur /\ rxcur' = rxcur
    BY DEF DmaReceive
  <1>2. QED
    BY <1>1 DEF DmaReceive, RingInv, TypeOK

LEMMA WakeStep == RingInv /\ WakeInv /\ [Next]_vars => WakeInv'
  <1> SUFFICES ASSUME RingInv, WakeInv, [Next]_vars PROVE WakeInv'
    OBVIOUS
  <1>1. CASE DmaReceive
    <2>1. rxp' = 1 /\ UNCHANGED <<isr, mbox, erx, rxcur, held>>
      BY <1>1 DEF DmaReceive
    <2>2. erx = "alloc" => buf'[rxcur'] = buf[rxcur]
      BY <1>1, HeadStays DEF RingInv, HeldIsHead
    <2>3. QED
      BY <2>1, <2>2 DEF WakeInv, NoLostWakeup, Refused, Taken, RecvPacket
  <1>2. CASE IsrReady
    <2>1. mbox' > 0 /\ rxp' = 1 /\ UNCHANGED <<erx, rxcur, buf, held>>
      BY <1>2, RxConstants DEF IsrReady, RingInv, TypeOK
    <2>2. QED
      BY <2>1 DEF WakeInv, NoLostWakeup, Refused, Taken, RecvPacket
  <1>3. CASE IsrAck
    <2>1. mbox' = mbox /\ mbox > 0 /\ mbox \in Nat /\ isr' = "idle" /\ UNCHANGED <<erx, rxcur, buf, held>>
      BY <1>3 DEF IsrAck, WakeInv, RingInv, TypeOK
    <2>2. QED
      BY <2>1 DEF WakeInv, NoLostWakeup, Refused, Taken, RecvPacket
  <1>4. CASE ErxWake
    BY <1>4 DEF ErxWake, WakeInv, NoLostWakeup
  <1>5. CASE ErxRecv
    <2>1. isr' = "idle" /\ UNCHANGED <<buf, rxcur, own, dmacur>>
      BY <1>5 DEF ErxRecv
    <2>2. Fill' = Fill
      BY <2>1 DEF Fill
    <2>3. CASE own[rxcur] = 1
      <3>1. At(0) = rxcur /\ 0 \in 0 .. N - 1
        BY RxConstants DEF At, RingInv, TypeOK, Slot
      <3>2. ~(Fill > 0)
        BY <2>3, <3>1, FillType DEF RingInv, RingOwnership
      <3>3. erx' = "wait"
        BY <1>5, <2>3 DEF ErxRecv, Recv
      <3>4. QED
        BY <2>1, <2>2, <3>2, <3>3 DEF WakeInv, NoLostWakeup
    <2>4. CASE own[rxcur] # 1
      <3>1. Recv = RecvPacket(buf[rxcur])
        BY <2>4 DEF Recv
      <3>2. buf[rxcur].len \in 0 .. LenMask
        <4>1. buf[rxcur] \in Descriptor
          BY DEF RingInv, TypeOK
        <4>2. QED
          BY <4>1, DescriptorLen
      <3>3. CASE buf[rxcur].len > RxSize
        <4>1. erx' = "wait"
          BY <1>5, <3>1, <3>3 DEF ErxRecv, RecvPacket
        <4>2. QED
          BY <2>1, <3>3, <4>1 DEF WakeInv, NoLostWakeup, Refused
      <3>4. CASE ~(buf[rxcur].len > RxSize)
        <4>1. Recv.len = buf[rxcur].len
          BY <3>1, <3>4 DEF RecvPacket
        <4>2. Recv.len <= 0 <=> buf[rxcur].len = 0
          BY <3>2, <4>1
        <4>3. erx' = IF buf[rxcur].len = 0 THEN "wait" ELSE "alloc"
          BY <1>5, <4>2 DEF ErxRecv
        <4>4. erx' = "alloc" => Taken'
          BY <1>5, <2>1, <3>1, <3>2, <4>1, <4>3 DEF ErxRecv, Taken, RecvPacket
        <4>5. QED
          BY <2>1, <3>4, <4>3, <4>4 DEF WakeInv, NoLostWakeup, Refused
      <3>5. QED
        BY <3>3, <3>4
    <2>5. QED
      BY <2>3, <2>4
  <1>6. CASE ErxCopyFree
    BY <1>6 DEF ErxCopyFree, WakeInv, NoLostWakeup
  <1>7. CASE ErxAllocFail
    <2>1. Taken' /\ erx' = "wait" /\ isr' = "idle"
      BY <1>7 DEF ErxAllocFail, WakeInv, Taken, RecvPacket
    <2>2. QED
      BY <2>1 DEF WakeInv, NoLostWakeup
  <1>8. CASE UNCHANGED vars
    <2>1. UNCHANGED <<own, dmacur, rxcur, buf, erx, isr, mbox, rxp, held>>
      BY <1>8 DEF vars
    <2>2. QED
      BY <2>1 DEF WakeInv, NoLostWakeup, Refused, Taken, RecvPacket, Fill
  <1>9. QED
    BY <1>1, <1>2, <1>3, <1>4, <1>5, <1>6, <1>7, <1>8 DEF Next, Erx

\* NoLostWakeup: although _enet_isr acknowledges after it has woken the
\* receive thread, no frame is left in the ring without a wake-up to come.
THEOREM WakeupSafe == Spec => []NoLostWakeup
  <1>1. Init => WakeInv
    BY WakeInit
  <1>2. TypeOK /\ RingOwnership /\ HeldIsHead /\ WakeInv /\ [Next]_vars => WakeInv'
    BY WakeStep DEF RingInv
  <1>3. WakeInv => NoLostWakeup
    BY DEF WakeInv
  <1>4. QED
    BY <1>1, <1>2, <1>3, TypeCorrect, RingSafe, CopySafe, PTL DEF Spec

\* RefusedBlocks: a frame _sun8i_eth_recv refuses stands at the head of the
\* ring for good and nothing is delivered past it.
THEOREM RefusedStays == Spec => RefusedBlocks
  <1>1. Init => WakeInv
    BY WakeInit
  <1>2. TypeOK /\ RingOwnership /\ HeldIsHead /\ WakeInv /\ [Next]_vars => WakeInv'
    BY WakeStep DEF RingInv
  <1>3. WakeInv /\ [Next]_vars
          => [own[rxcur] = 0 /\ Refused(buf[rxcur]) => UNCHANGED <<rxcur, rcvd>>]_vars
    BY DEF WakeInv, Next, Erx, vars, DmaReceive, IsrReady, IsrAck, ErxWake, ErxRecv,
           ErxCopyFree, ErxAllocFail
  <1>4. QED
    BY <1>1, <1>2, <1>3, TypeCorrect, RingSafe, CopySafe, PTL DEF Spec, RefusedBlocks

-----------------------------------------------------------------------------
(* Refinement.                                                             *)

LEMMA AppendAsFunction ==
  ASSUME NEW S, NEW s \in Seq(S), NEW e \in S
  PROVE  Append(s, e) = [k \in 1 .. Len(s) + 1 |-> IF k = Len(s) + 1 THEN e ELSE s[k]]
  <1> DEFINE t == [k \in 1 .. Len(s) + 1 |-> IF k = Len(s) + 1 THEN e ELSE s[k]]
  <1>1. Len(s) \in Nat
    OBVIOUS
  <1>2. \A k \in 1 .. Len(s) + 1 : (IF k = Len(s) + 1 THEN e ELSE s[k]) \in S
    BY <1>1
  <1>3. t \in Seq(S) /\ Len(t) = Len(s) + 1
    BY <1>1, <1>2
  <1>4. \A k \in 1 .. Len(s) + 1 : t[k] = Append(s, e)[k]
    BY <1>1, AppendProperties
  <1>5. Append(s, e) \in Seq(S) /\ Len(Append(s, e)) = Len(s) + 1
    BY AppendProperties
  <1> HIDE DEF t
  <1>6. Append(s, e) = t
    BY <1>3, <1>4, <1>5, SeqEqual
  <1>7. QED
    BY <1>6 DEF t

LEMMA TailAsFunction ==
  ASSUME NEW S, NEW s \in Seq(S), s # <<>>
  PROVE  Tail(s) = [k \in 1 .. Len(s) - 1 |-> s[k + 1]]
  <1> DEFINE t == [k \in 1 .. Len(s) - 1 |-> s[k + 1]]
  <1>1. Len(s) \in Nat \ {0}
    BY EmptySeq
  <1>2. \A k \in 1 .. Len(s) - 1 : k + 1 \in 1 .. Len(s) /\ s[k + 1] \in S
    BY <1>1
  <1>3. t \in Seq(S) /\ Len(t) = Len(s) - 1
    BY <1>1, <1>2
  <1>4. \A k \in 1 .. Len(s) - 1 : t[k] = Tail(s)[k]
    BY <1>1, HeadTailProperties
  <1>5. Tail(s) \in Seq(S) /\ Len(Tail(s)) = Len(s) - 1
    BY HeadTailProperties
  <1> HIDE DEF t
  <1>6. Tail(s) = t
    BY <1>3, <1>4, <1>5, SeqEqual
  <1>7. QED
    BY <1>6 DEF t

LEMMA PendingType ==
  ASSUME TypeOK
  PROVE  /\ Pending \in Seq(Descriptor)
         /\ Len(Pending) = Fill
         /\ \A k \in 1 .. Fill : Pending[k] = buf[At(k - 1)]
  <1>1. Fill \in Nat
    BY FillType, RxConstants
  <1>2. ASSUME NEW k \in 1 .. Fill PROVE buf[At(k - 1)] \in Descriptor
    <2>1. k - 1 \in 0 .. N - 1
      BY <1>1, FillType, RxConstants
    <2>2. At(k - 1) \in Slot
      BY <2>1, AtType
    <2>3. QED
      BY <2>2 DEF TypeOK
  <1>3. QED
    BY <1>1, <1>2 DEF Pending

LEMMA FifoInitMap == Init => Fifo!FifoInit
  <1> SUFFICES ASSUME Init PROVE Pending = <<>> /\ rcvd = <<>>
    BY DEF Fifo!FifoInit
  <1>1. Fill = 0
    BY RxConstants DEF Init, Fill, Slot
  <1>2. QED
    BY <1>1 DEF Init, Pending

LEMMA FifoAccept == RingInv /\ DmaReceive => Fifo!Accept
  <1> SUFFICES ASSUME RingInv, TypeOK, DmaReceive
               PROVE  Fifo!Accept
    BY DEF RingInv
  <1>1. /\ Fill < N /\ At(Fill) = dmacur /\ Fill' = Fill + 1
        /\ \A k \in 0 .. N : At(k)' = At(k)
    BY DmaFill DEF RingInv
  <1>2. Fill \in 0 .. N - 1
    BY <1>1, FillType, RxConstants
  <1>3. PICK l \in Lengths :
          buf' = [buf EXCEPT ![dmacur] = [seq |-> wire + 1, len |-> l]]
    BY DEF DmaReceive
  <1> DEFINE f == [seq |-> wire + 1, len |-> l]
  <1>4. f \in Frame
    BY RxConstants DEF DmaReceive, TypeOK, Frame
  <1> HIDE DEF f
  <1>5. /\ Pending \in Seq(Descriptor) /\ Len(Pending) = Fill
        /\ \A k \in 1 .. Fill : Pending[k] = buf[At(k - 1)]
    BY PendingType
  <1>6. ASSUME NEW k \in 1 .. Fill + 1
        PROVE  buf'[At(k - 1)'] = IF k = Fill + 1 THEN f ELSE Pending[k]
    <2>1. k - 1 \in 0 .. N - 1 /\ At(k - 1)' = At(k - 1)
      BY <1>1, <1>2, RxConstants
    <2>2. CASE k = Fill + 1
      <3>1. k - 1 = Fill
        BY <1>2, <2>2
      <3>2. buf'[dmacur] = f
        BY <1>3 DEF TypeOK, f
      <3>3. QED
        BY <1>1, <2>1, <2>2, <3>1, <3>2
    <2>3. CASE k # Fill + 1
      <3>1. At(k - 1) # dmacur
        BY <1>1, <1>2, <2>1, <2>3, AtInjective
      <3>2. buf'[At(k - 1)] = buf[At(k - 1)]
        BY <1>3, <2>1, <3>1, AtType DEF TypeOK
      <3>3. k \in 1 .. Fill
        BY <1>2, <2>3
      <3>4. QED
        BY <1>5, <2>1, <2>3, <3>2, <3>3
    <2>4. QED
      BY <2>2, <2>3
  <1>7. Pending' = [k \in 1 .. Fill + 1 |-> IF k = Fill + 1 THEN f ELSE Pending[k]]
    <2>1. Pending' = [k \in 1 .. Fill' |-> buf'[At(k - 1)']]
      BY DEF Pending
    <2>2. QED
      BY <1>1, <1>6, <2>1
  <1>8. Append(Pending, f) = [k \in 1 .. Fill + 1 |-> IF k = Fill + 1 THEN f ELSE Pending[k]]
    <2>1. f \in Descriptor
      BY <1>4 DEF Descriptor
    <2>2. QED
      BY <1>5, <2>1, AppendAsFunction
  <1>9. Len(Pending) < N /\ rcvd' = rcvd
    BY <1>1, <1>5 DEF DmaReceive
  <1>10. QED
    BY <1>4, <1>7, <1>8, <1>9 DEF Fifo!Accept

LEMMA FifoHandOn == RingInv /\ ErxCopyFree => Fifo!HandOn
  <1> SUFFICES ASSUME RingInv, TypeOK, ErxCopyFree
               PROVE  Fifo!HandOn
    BY DEF RingInv
  <1>1. /\ own[rxcur] = 0
        /\ held.len = buf[rxcur].len
        /\ held.ptr = IF held.len < MinLength THEN Null ELSE rxcur
    BY DEF ErxCopyFree, HeldIsHead, RingInv
  <1>2. /\ Fill > 0 /\ Fill' = Fill - 1
        /\ \A k \in 0 .. N - 2 : At(k)' = At(k + 1)
    BY <1>1, FreeFill DEF RingInv
  <1>3. Fill \in 1 .. N /\ At(0) = rxcur
    BY <1>2, FillType, RxConstants DEF TypeOK, At, Slot
  <1>4. /\ Pending \in Seq(Descriptor) /\ Len(Pending) = Fill
        /\ \A k \in 1 .. Fill : Pending[k] = buf[At(k - 1)]
    BY PendingType
  <1>5. Pending # <<>> /\ Head(Pending) = buf[rxcur]
    BY <1>3, <1>4
  <1>6. Pbuf(held.ptr, held.len) = Image(buf[rxcur])
    <2>1. rxcur # Null
      BY RxConstants DEF TypeOK, Slot, Null
    <2>2. QED
      BY <1>1, <2>1 DEF Pbuf, Image
  <1>7. Pending' = Tail(Pending)
    <2>1. Pending' = [k \in 1 .. Fill' |-> buf'[At(k - 1)']]
      BY DEF Pending
    <2>2. ASSUME NEW k \in 1 .. Fill - 1
          PROVE  buf'[At(k - 1)'] = Pending[k + 1]
      <3>1. k - 1 \in 0 .. N - 2 /\ k + 1 \in 1 .. Fill /\ (k + 1) - 1 = (k - 1) + 1
        BY <1>3, RxConstants
      <3>2. At(k - 1)' = At((k + 1) - 1)
        BY <1>2, <3>1
      <3>3. buf' = buf
        BY DEF ErxCopyFree
      <3>4. QED
        BY <1>4, <3>1, <3>2, <3>3
    <2>3. Tail(Pending) = [k \in 1 .. Fill - 1 |-> Pending[k + 1]]
      BY <1>4, <1>5, TailAsFunction
    <2>4. QED
      BY <1>2, <2>1, <2>2, <2>3
  <1>8. rcvd' = Append(rcvd, Image(Head(Pending)))
    BY <1>5, <1>6 DEF ErxCopyFree
  <1>9. QED
    BY <1>5, <1>7, <1>8 DEF Fifo!HandOn

LEMMA FifoStep == RingInv /\ [Next]_vars => [Fifo!FifoNext]_<<Pending, rcvd>>
  <1> SUFFICES ASSUME RingInv, [Next]_vars
               PROVE  Fifo!FifoNext \/ UNCHANGED <<Pending, rcvd>>
    OBVIOUS
  <1>1. CASE DmaReceive
    BY <1>1, FifoAccept DEF Fifo!FifoNext
  <1>2. CASE ErxCopyFree
    BY <1>2, FifoHandOn DEF Fifo!FifoNext
  <1>3. CASE IsrReady \/ IsrAck \/ ErxWake \/ ErxRecv \/ ErxAllocFail \/ UNCHANGED vars
    <2>1. UNCHANGED <<own, buf, dmacur, rxcur, rcvd>>
      BY <1>3 DEF IsrReady, IsrAck, ErxWake, ErxRecv, ErxAllocFail, vars
    <2>2. QED
      BY <2>1 DEF Pending, Fill, At
  <1>4. QED
    BY <1>1, <1>2, <1>3 DEF Next, Erx

\* ImplementsFifo: the receive path is a bounded FIFO channel of N frames.
THEOREM RefinesFifo == Spec => ImplementsFifo
  <1>1. Init => Fifo!FifoInit
    BY FifoInitMap
  <1>2. TypeOK /\ RingOwnership /\ HeldIsHead /\ [Next]_vars
          => [Fifo!FifoNext]_<<Pending, rcvd>>
    BY FifoStep DEF RingInv
  <1>3. QED
    BY <1>1, <1>2, TypeCorrect, RingSafe, CopySafe, PTL
       DEF Spec, ImplementsFifo, Fifo!FifoSpec, Fifo!fifoVars

-----------------------------------------------------------------------------
(* The ring that is set up anew (Emac).                                    *)

PhyTypes ==
  /\ phy \in {"check", "status", "down", "reset", "descs", "flush", "cursor", "start", "enable"}
  /\ rxdma \in {"on", "off", "resetting"} /\ inten \in Bit /\ err \in Bit /\ cable \in Bit
  /\ initlink \in Bit /\ netlink \in Bit /\ req \in [changed : Bit, status : Bit]
  /\ dirty \subseteq Slot
  /\ errors \in Nat /\ toggles \in Nat
  /\ faults \subseteq {"torn", "starved"}

\* While the phy thread is at the ring, neither the DMA nor the handler is: a
\* soft reset has come before, if not in this restart then in one that gave up,
\* and nothing has enabled the interrupts since.
Stopped ==
  /\ phy \in {"descs", "flush", "cursor", "start"}
       => rxdma = "off" /\ inten = 0 /\ isr = "idle"
  /\ rxdma = "resetting" => inten = 0 /\ phy # "enable"

\* And the receive thread sleeps, if it was not caught in pbuf_alloc: nobody
\* posts to its mailbox until the interrupts are enabled again.
Asleep == phy \in {"flush", "cursor", "start"} => erx = "wait" /\ mbox = 0

AllOwned == own = [i \in Slot |-> 1]

Rewritten ==
  /\ phy = "flush" => dirty = Slot
  /\ phy \in {"cursor", "start"} => AllOwned
  /\ phy = "start" => dmacur = 0 /\ rxcur = 0

\* Between the flush and the store of the cursors they mean nothing.
InStep == phy # "cursor" => RingOwnership /\ HeldIsHead

RestartInv ==
  /\ TypeOK /\ PhyTypes /\ Stopped
  /\ "torn" \notin faults => Asleep /\ Rewritten /\ InStep

\* The steps that are not the phy thread's are steps of EmacRx, or leave its
\* state alone.
LEMMA OutsidePhy ==
  ASSUME MacReceive \/ DmaError \/ Cable \/ Isr \/ Receiver \/ AllocFail
  PROVE  /\ [Next]_vars
         /\ UNCHANGED <<phy, rxdma, inten>>
         /\ "torn" \in faults' <=> "torn" \in faults
  <1> USE DEF phyVars, vars
  <1>1. CASE MacReceive
    BY <1>1 DEF MacReceive, Next
  <1>2. CASE DmaError \/ Cable
    BY <1>2 DEF DmaError, Cable
  <1>3. CASE Isr
    BY <1>3 DEF Isr, Next
  <1>4. CASE Receiver
    BY <1>4 DEF Receiver, Wake, ReceiveStep, Next, Erx
  <1>5. CASE AllocFail
    BY <1>5 DEF AllocFail, Next
  <1>6. QED
    BY <1>1, <1>2, <1>3, <1>4, <1>5

LEMMA LinkChangeType ==
  ASSUME TypeOK, NEW up \in Bit, LinkChange(up)
  PROVE  req' \in [changed : Bit, status : Bit] /\ mbox' \in 0 .. MboxSize /\ mbox' >= mbox
  BY RxConstants DEF LinkChange, TypeOK, Bit

LEMMA PhyTypeStep ==
  ASSUME TypeOK, PhyTypes, [EmacNext]_allVars
  PROVE  TypeOK' /\ PhyTypes'
  <1>1. CASE MacReceive \/ DmaError \/ Cable \/ Isr \/ Receiver \/ AllocFail
    <2>1. TypeOK'
      BY <1>1, OutsidePhy, TypeStep
    <2>2. CASE MacReceive \/ Isr
      BY <2>1, <2>2 DEF MacReceive, Isr, phyVars, PhyTypes
    <2>3. CASE DmaError
      BY <2>1, <2>3 DEF DmaError, PhyTypes, Bit
    <2>4. CASE Cable
      BY <2>1, <2>4 DEF Cable, PhyTypes, Bit
    <2>5. CASE Wake
      BY <2>1, <2>5 DEF Wake, PhyTypes, Bit
    <2>6. CASE ReceiveStep \/ AllocFail
      BY <2>1, <2>6 DEF ReceiveStep, AllocFail, PhyTypes
    <2>7. QED
      BY <1>1, <2>1, <2>2, <2>3, <2>4, <2>5, <2>6 DEF Receiver
  <1>2. CASE PhyCheck
    <2>1. PICK link \in Bit :
            /\ LinkRead(link)
            /\ IF link # initlink THEN LinkChange(link) ELSE UNCHANGED <<req, mbox>>
            /\ initlink' = link
      BY <1>2 DEF PhyCheck
    <2>2. toggles' \in Nat
      BY <2>1 DEF LinkRead, PhyTypes
    <2>3. mbox' \in 0 .. MboxSize /\ req' \in [changed : Bit, status : Bit]
      BY <2>1, LinkChangeType DEF TypeOK, PhyTypes
    <2>4. QED
      BY <1>2, <2>1, <2>2, <2>3 DEF PhyCheck, ringVars, TypeOK, PhyTypes
  <1>3. CASE PhyDown
    <2>1. mbox' \in 0 .. MboxSize /\ req' \in [changed : Bit, status : Bit]
      BY <1>3, LinkChangeType DEF PhyDown, Bit
    <2>2. QED
      BY <1>3, <2>1 DEF PhyDown, ringVars, TypeOK, PhyTypes
  <1>4. CASE PhyStatus
    BY <1>4 DEF PhyStatus, linkVars, TypeOK, PhyTypes, Bit
  <1>5. CASE PhyReset
    BY <1>5 DEF PhyReset, SoftReset, ResetUnderWay, linkVars, TypeOK, PhyTypes, Bit
  <1>6. CASE PhyDescs
    BY <1>6 DEF PhyDescs, ringVars, linkVars, TypeOK, PhyTypes
  <1>7. CASE PhyFlush
    <2>1. own' \in [Slot -> Bit]
      BY <1>7 DEF PhyFlush, TypeOK, Bit
    <2>2. QED
      BY <1>7, <2>1 DEF PhyFlush, linkVars, TypeOK, PhyTypes
  <1>8. CASE PhyCursor
    <2>1. 0 \in Slot
      BY RxConstants DEF Slot
    <2>2. QED
      BY <1>8, <2>1 DEF PhyCursor, linkVars, TypeOK, PhyTypes
  <1>9. CASE PhyStart
    BY <1>9 DEF PhyStart, ringVars, linkVars, TypeOK, PhyTypes
  <1>10. CASE PhyEnable
    BY <1>10 DEF PhyEnable, ringVars, linkVars, TypeOK, PhyTypes, Bit
  <1>11. CASE UNCHANGED allVars
    BY <1>11 DEF allVars, vars, phyVars, TypeOK, PhyTypes
  <1>12. QED
    BY <1>1, <1>2, <1>3, <1>4, <1>5, <1>6, <1>7, <1>8, <1>9, <1>10, <1>11
    DEF EmacNext, Phy, Restart

\* No step but the phy thread's own leaves the DMA, the handler or the receive
\* thread a way into a ring that is being set up.
LEMMA OutsideRestart ==
  ASSUME RestartInv, MacReceive \/ DmaError \/ Cable \/ Isr \/ Receiver \/ AllocFail
  PROVE  Stopped' /\ ("torn" \notin faults' => Asleep' /\ Rewritten' /\ InStep')
  <1> USE DEF RestartInv
  <1>1. UNCHANGED <<phy, rxdma, inten>> /\ ("torn" \in faults' <=> "torn" \in faults)
    BY OutsidePhy
  <1>2. Stopped'
    <2>1. CASE phy \in {"descs", "flush", "cursor", "start"}
      <3>1. rxdma = "off" /\ inten = 0 /\ isr = "idle"
        BY <2>1 DEF Stopped
      <3>2. isr' = "idle"
        BY <3>1 DEF MacReceive, DmaError, Cable, Isr, Receiver, AllocFail, Wake, ReceiveStep,
          ErxWake, ErxRecv, ErxCopyFree, ErxAllocFail, IsrAck, vars
      <3>3. QED
        BY <1>1, <3>1, <3>2 DEF Stopped
    <2>2. CASE phy \notin {"descs", "flush", "cursor", "start"}
      BY <1>1, <2>2 DEF Stopped
    <2>3. QED
      BY <2>1, <2>2
  <1>3. ASSUME "torn" \notin faults
        PROVE  Asleep' /\ Rewritten' /\ InStep'
    <2>1. CASE phy \in {"flush", "cursor", "start"}
      <3>1. /\ rxdma = "off" /\ inten = 0 /\ isr = "idle" /\ erx = "wait" /\ mbox = 0
        BY <1>3, <2>1 DEF Stopped, Asleep
      <3>2. UNCHANGED <<vars, dirty>>
        BY <3>1, RxConstants DEF MacReceive, DmaError, Cable, Isr, Receiver, AllocFail, Wake,
          ReceiveStep, ErxWake, ErxRecv, ErxCopyFree, ErxAllocFail, IsrAck, vars
      <3>3. Asleep' /\ Rewritten'
        BY <1>1, <1>3, <3>2 DEF Asleep, Rewritten, AllOwned, vars
      <3>4. InStep'
        BY <1>1, <1>3, <3>2 DEF InStep, RingOwnership, HeldIsHead, Fill, At, vars
      <3>5. QED
        BY <3>3, <3>4
    <2>2. CASE phy \notin {"flush", "cursor", "start"}
      <3>1. Asleep' /\ Rewritten'
        BY <1>1, <2>2 DEF Asleep, Rewritten
      <3>2. RingOwnership' /\ HeldIsHead'
        <4>1. RingInv
          BY <1>3, <2>2 DEF InStep, RingInv
        <4>2. QED
          BY <4>1, OutsidePhy, RingStep
      <3>3. QED
        BY <3>1, <3>2 DEF InStep
    <2>3. QED
      BY <2>1, <2>2
  <1>4. QED
    BY <1>1, <1>2, <1>3

\* The steps of the phy thread that leave the ring itself alone.
LEMMA PhyAside ==
  ASSUME RestartInv,
         PhyCheck \/ PhyStatus \/ PhyDown \/ PhyReset \/ PhyDescs \/ PhyStart \/ PhyEnable
  PROVE  /\ UNCHANGED <<own, buf, dmacur, rxcur, wire, isr, erx, held, rcvd>>
         /\ phy # "cursor" /\ phy' # "cursor"
         /\ "torn" \in faults => "torn" \in faults'
         /\ isr = "idle"
  BY DEF PhyCheck, PhyStatus, PhyDown, PhyReset, SoftReset, ResetUnderWay, PhyDescs, PhyStart,
    PhyEnable, ringVars, linkVars, PhyRuns

LEMMA PhyAsideStep ==
  ASSUME RestartInv,
         PhyCheck \/ PhyStatus \/ PhyDown \/ PhyReset \/ PhyDescs \/ PhyStart \/ PhyEnable
  PROVE  Stopped' /\ ("torn" \notin faults' => Asleep' /\ Rewritten' /\ InStep')
  <1>1. InStep => InStep'
    BY PhyAside DEF InStep, RingOwnership, HeldIsHead, Fill, At
  <1>2. CASE PhyCheck \/ PhyStatus \/ PhyDown
    <2>1. phy' \in {"status", "down", "check", "reset"} /\ UNCHANGED <<rxdma, inten>>
      BY <1>2 DEF PhyCheck, PhyStatus, PhyDown
    <2>2. QED
      BY <1>1, <2>1, PhyAside DEF RestartInv, Stopped, Asleep, Rewritten
  <1>3. CASE PhyReset
    <2>1. /\ phy' \in {"descs", "check"} /\ inten' = 0
          /\ rxdma' = IF phy' = "descs" THEN "off" ELSE "resetting"
      BY <1>3 DEF PhyReset, SoftReset, ResetUnderWay, RestartInv, Stopped
    <2>2. QED
      BY <1>1, <2>1, PhyAside DEF RestartInv, Stopped, Asleep, Rewritten
  <1>4. CASE PhyDescs
    <2>1. /\ phy = "descs" /\ phy' = "flush" /\ dirty' = Slot
          /\ UNCHANGED <<rxdma, inten, mbox>>
      BY <1>4 DEF PhyDescs
    <2>2. Stopped'
      BY <2>1, PhyAside DEF RestartInv, Stopped
    <2>3. "torn" \notin faults' => erx = "wait" /\ mbox = 0
      BY <1>4 DEF PhyDescs, PhyRuns
    <2>4. QED
      BY <1>1, <2>1, <2>2, <2>3, PhyAside DEF RestartInv, Asleep, Rewritten
  <1>5. CASE PhyStart \/ PhyEnable
    <2>1. /\ phy' \in {"enable", "check"}
          /\ rxdma' = "on" \/ (phy = "enable" /\ phy' = "check" /\ rxdma' = rxdma)
      BY <1>5 DEF PhyStart, PhyEnable
    <2>2. QED
      BY <1>1, <2>1, PhyAside DEF RestartInv, Stopped, Asleep, Rewritten
  <1>6. QED
    BY <1>2, <1>3, <1>4, <1>5

\* Every descriptor the DMA's and both cursors at one place: an empty ring.
LEMMA EmptyRing ==
  ASSUME TypeOK, AllOwned, dmacur = rxcur
  PROVE  Fill = 0 /\ RingOwnership
  <1>1. Fill = 0
    BY RxConstants DEF TypeOK, AllOwned, Fill
  <1>2. \A k \in 0 .. N - 1 : own[At(k)] = 1
    BY AtType DEF AllOwned
  <1>3. QED
    BY <1>1, <1>2 DEF RingOwnership

LEMMA PhyRingStep ==
  ASSUME RestartInv, PhyFlush \/ PhyCursor, TypeOK'
  PROVE  Stopped' /\ ("torn" \notin faults' => Asleep' /\ Rewritten' /\ InStep')
  <1>1. UNCHANGED <<rxdma, inten, isr, erx, mbox, faults, held>>
    BY DEF PhyFlush, PhyCursor, linkVars
  <1>2. CASE PhyFlush
    <2>1. /\ phy = "flush" /\ phy' = "cursor"
          /\ own' = [i \in Slot |-> IF i \in dirty THEN 1 ELSE own[i]]
      BY <1>2 DEF PhyFlush
    <2>2. Stopped'
      BY <1>1, <2>1 DEF RestartInv, Stopped
    <2>3. ASSUME "torn" \notin faults
          PROVE  Asleep' /\ Rewritten' /\ InStep'
      <3>1. dirty = Slot /\ Asleep
        BY <2>1, <2>3 DEF RestartInv, Rewritten
      <3>2. AllOwned'
        BY <2>1, <3>1 DEF AllOwned
      <3>3. QED
        BY <1>1, <2>1, <3>1, <3>2 DEF Asleep, Rewritten, InStep
    <2>4. QED
      BY <1>1, <2>2, <2>3
  <1>3. CASE PhyCursor
    <2>1. phy = "cursor" /\ phy' = "start" /\ dmacur' = 0 /\ rxcur' = 0 /\ own' = own
      BY <1>3 DEF PhyCursor
    <2>2. Stopped'
      BY <1>1, <2>1 DEF RestartInv, Stopped
    <2>3. ASSUME "torn" \notin faults
          PROVE  Asleep' /\ Rewritten' /\ InStep'
      <3>1. AllOwned /\ Asleep
        BY <2>1, <2>3 DEF RestartInv, Rewritten
      <3>2. AllOwned' /\ erx' = "wait"
        BY <1>1, <2>1, <3>1 DEF AllOwned, Asleep
      <3>3. Fill' = 0 /\ RingOwnership'
        <4>1. (TypeOK /\ AllOwned /\ dmacur = rxcur => Fill = 0 /\ RingOwnership)'
          BY EmptyRing, PTL
        <4>2. QED
          BY <2>1, <3>2, <4>1
      <3>4. QED
        BY <1>1, <2>1, <3>1, <3>2, <3>3 DEF Asleep, Rewritten, InStep, HeldIsHead
    <2>4. QED
      BY <1>1, <2>2, <2>3
  <1>4. QED
    BY <1>2, <1>3

LEMMA RestartStep == RestartInv /\ [EmacNext]_allVars => RestartInv'
  <1> SUFFICES ASSUME RestartInv, [EmacNext]_allVars PROVE RestartInv'
    OBVIOUS
  <1>1. TypeOK' /\ PhyTypes'
    BY PhyTypeStep DEF RestartInv
  <1>2. CASE MacReceive \/ DmaError \/ Cable \/ Isr \/ Receiver \/ AllocFail
    BY <1>1, <1>2, OutsideRestart DEF RestartInv
  <1>3. CASE PhyFlush \/ PhyCursor
    BY <1>1, <1>3, PhyRingStep DEF RestartInv
  <1>4. CASE PhyCheck \/ PhyStatus \/ PhyDown \/ PhyReset \/ PhyDescs \/ PhyStart \/ PhyEnable
    BY <1>1, <1>4, PhyAsideStep DEF RestartInv
  <1>5. CASE UNCHANGED allVars
    <2>1. Stopped' /\ Asleep' = Asleep /\ Rewritten' = Rewritten
      BY <1>5 DEF allVars, vars, phyVars, RestartInv, Stopped, Asleep, Rewritten, AllOwned
    <2>2. InStep' = InStep /\ faults' = faults
      BY <1>5 DEF allVars, vars, phyVars, InStep, RingOwnership, HeldIsHead, Fill, At
    <2>3. QED
      BY <1>1, <2>1, <2>2 DEF RestartInv
  <1>6. QED
    BY <1>2, <1>3, <1>4, <1>5 DEF EmacNext, Phy, Restart

LEMMA RestartInit == EmacInit => RestartInv
  <1> SUFFICES ASSUME EmacInit PROVE RestartInv
    OBVIOUS
  <1>1. Init
    BY DEF EmacInit
  <1>2. TypeOK
    BY <1>1, RxConstants DEF Init, TypeOK, Slot, Descriptor, Holding, NoFrame, Null, Bit
  <1>3. PhyTypes
    BY DEF EmacInit, PhyTypes, Bit
  <1>4. RingOwnership /\ HeldIsHead
    BY <1>1, RingInit
  <1>5. QED
    BY <1>2, <1>3, <1>4 DEF EmacInit, RestartInv, Stopped, Asleep, Rewritten, InStep

LEMMA RestartSafe == EmacSpec => []RestartInv
  BY RestartInit, RestartStep, PTL DEF EmacSpec

\* RingResynced: the phy thread sets up a ring that the receive thread may be
\* working on and that nothing locks. Priorities, the masked handler and the
\* stopped DMA keep the others out; the copy that pbuf_alloc held up, alone,
\* tears the ring.
THEOREM RestartResyncs == EmacSpec => []RingResynced
  <1>1. RestartInv => RingResynced
    BY DEF RestartInv, InStep, Stopped, RingResynced
  <1>2. QED
    BY <1>1, RestartSafe, PTL

-----------------------------------------------------------------------------
(* Wake-ups across a restart.                                              *)

\* The handler has posted before it acknowledges.
Posted == isr = "ack" => mbox > 0

LEMMA ResumedAwake ==
  ASSUME RestartInv, "torn" \notin faults, PhyStart
  PROVE  NoWakeupLostInRestart'
  <1>1. phy = "start" /\ UNCHANGED <<own, rxcur>>
    BY DEF PhyStart, ringVars
  <1>2. own[rxcur] = 1
    BY <1>1 DEF RestartInv, Rewritten, AllOwned, TypeOK
  <1>3. QED
    BY <1>1, <1>2 DEF NoWakeupLostInRestart

LEMMA PostedStep == RestartInv /\ Posted /\ [EmacNext]_allVars => Posted'
  <1> SUFFICES ASSUME RestartInv, Posted, [EmacNext]_allVars PROVE Posted'
    OBVIOUS
  <1>1. mbox \in Nat
    BY DEF RestartInv, TypeOK
  <1>2. CASE MacReceive \/ DmaError \/ Cable \/ AllocFail \/ Receiver
    BY <1>2 DEF Posted, MacReceive, DmaReceive, DmaError, Cable, AllocFail, ErxAllocFail, Receiver,
      Wake, ErxWake, ReceiveStep, ErxRecv, ErxCopyFree, vars
  <1>3. CASE Isr
    BY <1>1, <1>3, RxConstants DEF Posted, Isr, IsrReady, IsrAck
  <1>4. CASE Phy
    BY <1>4 DEF Posted, Phy, Restart, PhyCheck, PhyStatus, PhyDown, PhyReset, SoftReset,
      ResetUnderWay, PhyDescs, PhyFlush,
      PhyCursor, PhyStart, PhyEnable, PhyRuns, ringVars
  <1>5. CASE UNCHANGED allVars
    BY <1>5 DEF Posted, allVars, vars
  <1>6. QED
    BY <1>2, <1>3, <1>4, <1>5 DEF EmacNext

\* A frame the receive thread leaves in the ring, unless it finds no pbuf, is
\* one recv refuses.
LEMMA LeftRefused ==
  ASSUME TypeOK, ErxRecv, erx' = "wait", own[rxcur] = 0
  PROVE  Refused(buf[rxcur])
  <1>1. Recv.len <= 0 /\ Recv = RecvPacket(buf[rxcur])
    BY DEF ErxRecv, Recv
  <1>2. buf[rxcur].len \in 0 .. LenMask
    BY DescriptorLen DEF TypeOK
  <1>3. CASE buf[rxcur].len > RxSize
    BY <1>3 DEF Refused
  <1>4. CASE ~(buf[rxcur].len > RxSize)
    BY <1>1, <1>2, <1>4 DEF RecvPacket, Refused
  <1>5. QED
    BY <1>3, <1>4

LEMMA AwakeStep ==
  RestartInv /\ Posted /\ NoWakeupLostInRestart /\ [EmacNext]_allVars => NoWakeupLostInRestart'
  <1> SUFFICES ASSUME RestartInv, Posted, NoWakeupLostInRestart, [EmacNext]_allVars
               PROVE  NoWakeupLostInRestart'
    OBVIOUS
  <1>1. TypeOK /\ mbox \in Nat
    BY DEF RestartInv, TypeOK
  <1>2. CASE MacReceive
    BY <1>2 DEF MacReceive, DmaReceive, NoWakeupLostInRestart
  <1>3. CASE DmaError \/ Cable
    BY <1>3 DEF DmaError, Cable, vars, NoWakeupLostInRestart
  <1>4. CASE Isr
    <2>1. mbox' > 0
      BY <1>1, <1>4, RxConstants DEF Isr, IsrReady, IsrAck, Posted
    <2>2. QED
      BY <2>1 DEF NoWakeupLostInRestart
  <1>5. CASE Wake \/ AllocFail
    BY <1>5 DEF Wake, ErxWake, AllocFail, NoWakeupLostInRestart
  <1>6. CASE ReceiveStep
    <2>1. CASE ErxRecv
      <3>1. UNCHANGED <<own, buf, rxcur>>
        BY <2>1 DEF ErxRecv
      <3>2. erx' = "wait" /\ own[rxcur] = 0 => Refused(buf[rxcur])
        BY <1>1, <2>1, LeftRefused
      <3>3. QED
        BY <3>1, <3>2 DEF NoWakeupLostInRestart
    <2>2. CASE ErxCopyFree
      BY <2>2 DEF ErxCopyFree, NoWakeupLostInRestart
    <2>3. QED
      BY <1>6, <2>1, <2>2 DEF ReceiveStep
  <1>7. CASE PhyCheck
    <2>1. UNCHANGED <<own, buf, rxcur, rxp, erx, rxdma, faults>> /\ phy = "check"
      BY <1>7 DEF PhyCheck, ringVars
    <2>2. mbox' = 0 => mbox = 0
      BY <1>1, <1>7, RxConstants DEF PhyCheck, LinkChange
    <2>3. QED
      BY <2>1, <2>2 DEF NoWakeupLostInRestart
  <1>8. CASE PhyStatus
    <2>1. CASE err = 1
      BY <1>8, <2>1 DEF PhyStatus, NoWakeupLostInRestart
    <2>2. CASE err # 1
      BY <1>8, <2>2 DEF PhyStatus, NoWakeupLostInRestart
    <2>3. QED
      BY <2>1, <2>2
  <1>9. CASE PhyDown
    BY <1>9 DEF PhyDown, NoWakeupLostInRestart
  <1>10. CASE PhyReset
    BY <1>10 DEF PhyReset, SoftReset, ResetUnderWay, NoWakeupLostInRestart
  <1>11. CASE PhyDescs \/ PhyFlush \/ PhyCursor
    <2>1. rxdma' = "off"
      BY <1>11 DEF PhyDescs, PhyFlush, PhyCursor, RestartInv, Stopped
    <2>2. QED
      BY <2>1 DEF NoWakeupLostInRestart
  <1>12. CASE PhyStart
    <2>1. faults' = faults
      BY <1>12 DEF PhyStart
    <2>2. QED
      BY <1>12, <2>1, ResumedAwake DEF NoWakeupLostInRestart
  <1>13. CASE PhyEnable
    BY <1>13 DEF PhyEnable, ringVars, NoWakeupLostInRestart
  <1>14. CASE UNCHANGED allVars
    BY <1>14 DEF allVars, vars, phyVars, NoWakeupLostInRestart
  <1>15. QED
    BY <1>2, <1>3, <1>4, <1>5, <1>6, <1>7, <1>8, <1>9, <1>10, <1>11, <1>12, <1>13, <1>14
    DEF EmacNext, Receiver, Phy, Restart

\* NoWakeupLostInRestart: the restart clears pending interrupts twice and
\* masks them for a while; every frame the running DMA wrote still finds an
\* interrupt, a message or a busy receive thread.
THEOREM RestartWakes == EmacSpec => []NoWakeupLostInRestart
  <1>1. EmacInit => Posted /\ NoWakeupLostInRestart
    <2>1. EmacInit => RestartInv /\ isr = "idle" /\ AllOwned
      BY RestartInit DEF EmacInit, Init, AllOwned
    <2>2. RestartInv /\ AllOwned => own[rxcur] = 1
      BY DEF RestartInv, TypeOK, AllOwned
    <2>3. QED
      BY <2>1, <2>2 DEF Posted, NoWakeupLostInRestart
  <1>2. RestartInv /\ (Posted /\ NoWakeupLostInRestart) /\ [EmacNext]_allVars
          => (Posted /\ NoWakeupLostInRestart)'
    BY PostedStep, AwakeStep
  <1>3. QED
    BY <1>1, <1>2, RestartSafe, PTL DEF EmacSpec

-----------------------------------------------------------------------------
(* The order of the frames across a restart.                               *)

Ordered ==
  \A j, k \in 1 .. Len(rcvd) : j < k /\ rcvd[k].seq # 0 => rcvd[j].seq < rcvd[k].seq

Behind == \A j \in 1 .. Len(rcvd) : rcvd[j].seq <= wire

\* What waits in the ring is newer than what went up, and in order itself.
Ahead ==
  \A k \in 0 .. Fill - 1 :
    /\ buf[At(k)].seq \in 1 .. wire
    /\ \A j \in 1 .. Len(rcvd) : rcvd[j].seq < buf[At(k)].seq
    /\ \A l \in 0 .. Fill - 1 : k < l => buf[At(k)].seq < buf[At(l)].seq

OnwardInv == "torn" \notin faults => Ordered /\ Behind /\ (phy # "cursor" => Ahead)

LEMMA OnwardDma ==
  ASSUME RingInv, Ordered, Behind, Ahead, DmaReceive
  PROVE  Ordered' /\ Behind' /\ Ahead'
  <1> USE DEF RingInv
  <1>1. /\ Fill < N /\ At(Fill) = dmacur /\ Fill' = Fill + 1
        /\ \A k \in 0 .. N : At(k)' = At(k)
    BY DmaFill
  <1>2. Fill \in 0 .. N - 1 /\ wire \in Nat
    BY <1>1, FillType, RxConstants DEF TypeOK
  <1>3. PICK len \in Lengths : buf' = [buf EXCEPT ![dmacur] = [seq |-> wire + 1, len |-> len]]
    BY DEF DmaReceive
  <1>4. wire' = wire + 1 /\ rcvd' = rcvd
    BY DEF DmaReceive
  <1>5. \A j \in 1 .. Len(rcvd) : rcvd[j].seq \in Nat /\ rcvd[j].seq <= wire
    <2>1. \A p \in Pbufs : p.seq \in Nat
      BY DEF Pbufs
    <2>2. \A j \in 1 .. Len(rcvd) : rcvd[j] \in Pbufs
      BY DEF TypeOK
    <2>3. QED
      BY <2>1, <2>2 DEF Behind
  <1>6. buf'[At(Fill)].seq = wire + 1
    BY <1>1, <1>2, <1>3 DEF TypeOK
  <1>7. ASSUME NEW k \in 0 .. Fill - 1
        PROVE  buf'[At(k)] = buf[At(k)] /\ buf[At(k)].seq \in 1 .. wire
    <2>1. k \in 0 .. N - 1 /\ k # Fill
      BY <1>2, RxConstants
    <2>2. At(k) # dmacur /\ At(k) \in Slot
      BY <1>1, <1>2, <2>1, AtInjective, AtType
    <2>3. QED
      BY <1>3, <2>2 DEF TypeOK, Ahead
  <1>8. Ordered' /\ Behind'
    BY <1>2, <1>4, <1>5 DEF Ordered, Behind
  <1>9. ASSUME NEW k \in 0 .. Fill
        PROVE  /\ buf'[At(k)].seq \in 1 .. wire'
               /\ \A j \in 1 .. Len(rcvd) : rcvd[j].seq < buf'[At(k)].seq
               /\ \A l \in 0 .. Fill : k < l => buf'[At(k)].seq < buf'[At(l)].seq
    <2>1. CASE k = Fill
      BY <1>2, <1>4, <1>5, <1>6, <2>1
    <2>2. CASE k # Fill
      <3>1. k \in 0 .. Fill - 1
        BY <1>2, <2>2
      <3>2. \A l \in 0 .. Fill : k < l => buf'[At(k)].seq < buf'[At(l)].seq
        <4> TAKE l \in 0 .. Fill
        <4>1. CASE l = Fill
          BY <1>2, <1>6, <1>7, <3>1, <4>1
        <4>2. CASE l # Fill
          <5>1. l \in 0 .. Fill - 1
            BY <1>2, <4>2
          <5>2. QED
            BY <1>7, <3>1, <5>1 DEF Ahead
        <4>3. QED
          BY <4>1, <4>2
      <3>3. QED
        BY <1>2, <1>4, <1>7, <3>1, <3>2 DEF Ahead
    <2>3. QED
      BY <2>1, <2>2
  <1>10. \A k \in 0 .. Fill : At(k)' = At(k)
    BY <1>1, <1>2, RxConstants
  <1>11. Ahead'
    <2>1. 0 .. Fill' - 1 = 0 .. Fill
      BY <1>1, <1>2
    <2>2. QED
      BY <1>4, <1>9, <1>10, <2>1 DEF Ahead
  <1>12. QED
    BY <1>8, <1>11

LEMMA OnwardFree ==
  ASSUME RingInv, Ordered, Behind, Ahead, ErxCopyFree
  PROVE  Ordered' /\ Behind' /\ Ahead'
  <1> USE DEF RingInv
  <1> DEFINE pb == Pbuf(held.ptr, held.len)
             n == Len(rcvd)
  <1>1. own[rxcur] = 0 /\ held.ptr \in {Null, rxcur}
    BY DEF ErxCopyFree, HeldIsHead
  <1>2. /\ Fill > 0 /\ Fill' = Fill - 1
        /\ \A k \in 0 .. N - 2 : At(k)' = At(k + 1)
    BY <1>1, FreeFill
  <1>3. Fill \in 1 .. N /\ wire \in Nat /\ n \in Nat
    BY <1>2, FillType, RxConstants DEF TypeOK
  <1>4. At(0) = rxcur /\ rxcur # Null
    BY RxConstants DEF TypeOK, At, Slot, Null
  <1>5. rcvd' = Append(rcvd, pb) /\ UNCHANGED <<buf, wire>>
    BY DEF ErxCopyFree
  <1>6. rcvd \in Seq(Pbufs) /\ pb \in Pbufs
    BY PbufType DEF TypeOK
  <1>7. /\ Len(rcvd') = n + 1 /\ rcvd'[n + 1] = pb
        /\ \A j \in 1 .. n : rcvd'[j] = rcvd[j]
    BY <1>5, <1>6
  <1>8. pb.seq = 0 \/ pb.seq = buf[At(0)].seq
    BY <1>1, <1>4 DEF Pbuf
  <1>9. \A j \in 1 .. n : rcvd[j].seq \in Nat
    <2>1. \A p \in Pbufs : p.seq \in Nat
      BY DEF Pbufs
    <2>2. QED
      BY <1>6, <2>1
  <1>10. /\ buf[At(0)].seq \in 1 .. wire
         /\ \A j \in 1 .. n : rcvd[j].seq < buf[At(0)].seq
         /\ \A l \in 1 .. Fill - 1 : buf[At(0)].seq < buf[At(l)].seq
    BY <1>3 DEF Ahead
  <1> HIDE DEF pb, n
  <1>11. Ordered'
    <2> SUFFICES ASSUME NEW j \in 1 .. n + 1, NEW k \in 1 .. n + 1,
                        j < k, rcvd'[k].seq # 0
                 PROVE  rcvd'[j].seq < rcvd'[k].seq
      BY <1>7 DEF Ordered
    <2>1. j \in 1 .. n
      BY <1>3
    <2>2. CASE k = n + 1
      BY <1>7, <1>8, <1>10, <2>1, <2>2
    <2>3. CASE k # n + 1
      <3>1. k \in 1 .. n
        BY <1>3, <2>3
      <3>2. QED
        BY <1>7, <2>1, <3>1 DEF Ordered, n
    <2>4. QED
      BY <2>2, <2>3
  <1>12. Behind'
    <2> SUFFICES ASSUME NEW j \in 1 .. n + 1 PROVE rcvd'[j].seq <= wire
      BY <1>5, <1>7 DEF Behind
    <2>1. CASE j = n + 1
      BY <1>3, <1>7, <1>8, <1>10, <2>1
    <2>2. CASE j # n + 1
      <3>1. j \in 1 .. n
        BY <1>3, <2>2
      <3>2. QED
        BY <1>7, <3>1 DEF Behind, n
    <2>3. QED
      BY <2>1, <2>2
  <1>13. Ahead'
    <2> DEFINE s(k) == buf[At(k + 1)].seq
    <2>1. ASSUME NEW k \in 0 .. Fill - 2
          PROVE  /\ k + 1 \in 0 .. Fill - 1 /\ k + 1 \in 1 .. Fill - 1
                 /\ buf'[At(k)'].seq = s(k)
      BY <1>2, <1>3, <1>5, RxConstants
    <2>2. ASSUME NEW k \in 0 .. Fill - 2
          PROVE  s(k) \in 1 .. wire /\ \A j \in 1 .. n : rcvd[j].seq < s(k)
      BY <2>1 DEF Ahead, n
    <2>3. ASSUME NEW k \in 0 .. Fill - 2, NEW l \in 0 .. Fill - 2, k < l
          PROVE  s(k) < s(l)
      <3>1. k + 1 \in 0 .. Fill - 1 /\ l + 1 \in 0 .. Fill - 1 /\ k + 1 < l + 1
        BY <1>3, <2>1, <2>3
      <3>2. QED
        BY <3>1 DEF Ahead
    <2>4. ASSUME NEW k \in 0 .. Fill - 2
          PROVE  pb.seq < s(k)
      BY <1>3, <1>8, <1>10, <2>1, <2>2
    <2> HIDE DEF s
    <2>5. ASSUME NEW k \in 0 .. Fill - 2, NEW j \in 1 .. n + 1
          PROVE  rcvd'[j].seq < s(k)
      <3>1. CASE j = n + 1
        BY <1>7, <2>4, <3>1
      <3>2. CASE j # n + 1
        <4>1. j \in 1 .. n
          BY <1>3, <3>2
        <4>2. QED
          BY <1>7, <2>2, <4>1
      <3>3. QED
        BY <3>1, <3>2
    <2>6. 0 .. Fill' - 1 = 0 .. Fill - 2 /\ wire' = wire
      BY <1>2, <1>3, <1>5
    <2>7. QED
      BY <1>7, <2>1, <2>2, <2>3, <2>5, <2>6 DEF Ahead
  <1>14. QED
    BY <1>11, <1>12, <1>13

LEMMA OnwardStep == RestartInv /\ RestartInv' /\ OnwardInv /\ [EmacNext]_allVars => OnwardInv'
  <1> SUFFICES ASSUME RestartInv, RestartInv', OnwardInv, [EmacNext]_allVars, "torn" \notin faults'
               PROVE  Ordered' /\ Behind' /\ (phy' # "cursor" => Ahead')
    BY DEF OnwardInv
  <1>1. CASE MacReceive \/ DmaError \/ Cable \/ Isr \/ Receiver \/ AllocFail
    <2>1. /\ "torn" \notin faults /\ phy' = phy
          /\ Ordered /\ Behind /\ (phy # "cursor" => Ahead)
      BY <1>1, OutsidePhy DEF OnwardInv
    <2>2. CASE phy = "cursor"
      <3>1. rxdma = "off" /\ inten = 0 /\ isr = "idle" /\ erx = "wait" /\ mbox = 0
        BY <2>1, <2>2 DEF RestartInv, Stopped, Asleep
      <3>2. UNCHANGED vars
        BY <1>1, <3>1 DEF MacReceive, DmaError, Cable, Isr, Receiver, AllocFail, Wake,
          ReceiveStep, ErxWake, ErxRecv, ErxCopyFree, ErxAllocFail, IsrAck
      <3>3. QED
        BY <2>1, <2>2, <3>2 DEF vars, Ordered, Behind
    <2>3. CASE phy # "cursor"
      <3>1. RingInv
        BY <2>1, <2>3 DEF RestartInv, InStep, RingInv
      <3>2. CASE DmaReceive
        BY <2>1, <2>3, <3>1, <3>2, OnwardDma
      <3>3. CASE ErxCopyFree
        BY <2>1, <2>3, <3>1, <3>3, OnwardFree
      <3>4. CASE ~DmaReceive /\ ~ErxCopyFree
        <4>1. UNCHANGED <<own, buf, dmacur, rxcur, wire, rcvd>>
          BY <1>1, <3>4, OutsidePhy DEF Next, Erx, IsrReady, IsrAck, ErxWake, ErxRecv, ErxAllocFail,
            vars
        <4>2. QED
          BY <2>1, <2>3, <4>1 DEF Ordered, Behind, Ahead, At, Fill
      <3>5. QED
        BY <3>2, <3>3, <3>4
    <2>4. QED
      BY <2>2, <2>3
  <1>2. CASE PhyFlush \/ PhyCursor
    <2>1. UNCHANGED <<rcvd, wire, faults>> /\ phy' \in {"cursor", "start"}
      BY <1>2 DEF PhyFlush, PhyCursor
    <2>2. phy' = "start" => Fill' = 0
      <3>1. (TypeOK /\ AllOwned /\ dmacur = rxcur => Fill = 0)'
        BY EmptyRing, PTL
      <3>2. QED
        BY <3>1 DEF RestartInv, Rewritten
    <2>3. QED
      BY <2>1, <2>2 DEF OnwardInv, Ordered, Behind, Ahead
  <1>3. CASE PhyCheck \/ PhyStatus \/ PhyDown \/ PhyReset \/ PhyDescs \/ PhyStart \/ PhyEnable
    <2>1. UNCHANGED <<own, buf, dmacur, rxcur, wire, rcvd>> /\ phy # "cursor" /\ "torn" \notin faults
      BY <1>3, PhyAside
    <2>2. QED
      BY <2>1 DEF OnwardInv, Ordered, Behind, Ahead, At, Fill
  <1>4. CASE UNCHANGED allVars
    BY <1>4 DEF allVars, vars, phyVars, OnwardInv, Ordered, Behind, Ahead, At, Fill
  <1>5. QED
    BY <1>1, <1>2, <1>3, <1>4 DEF EmacNext, Phy, Restart

LEMMA OnwardInit == EmacInit => OnwardInv
  <1> SUFFICES ASSUME EmacInit PROVE OnwardInv
    OBVIOUS
  <1>1. Len(rcvd) = 0 /\ Fill = 0
    BY RxConstants DEF EmacInit, Init, Fill, Slot
  <1>2. QED
    BY <1>1 DEF OnwardInv, Ordered, Behind, Ahead

\* NeverBackwards: what a restart drops it drops for good; the stack never
\* gets an older frame after a newer one, nor the same one again.
THEOREM RestartOnward == EmacSpec => []NeverBackwards
  <1>1. OnwardInv => NeverBackwards
    BY DEF OnwardInv, Ordered, NeverBackwards
  <1>2. EmacSpec => []OnwardInv
    BY OnwardInit, OnwardStep, RestartSafe, PTL DEF EmacSpec
  <1>3. QED
    BY <1>1, <1>2, PTL
=============================================================================
