---------------------------- MODULE EmacTxProofs ----------------------------
(***************************************************************************)
(* Theorems about the transmit side of the Ethernet device, for every ring *)
(* size, number of pbufs, packets and restarts.                            *)
(*                                                                         *)
(* What goes out is whole, and goes out once, because the buffer that is   *)
(* being filled is not in flight (unless the ring was lapped), and because *)
(* nothing but the publishing of a descriptor brings one into flight: what *)
(* the restart flushes has length zero.                                    *)
(*                                                                         *)
(* That the ring is a queue needs more: the DMA walks over the empty ring  *)
(* first, and from then on owns what lies between the two cursors.         *)
(***************************************************************************)
EXTENDS EmacTx, SequenceTheorems, TLAPS

Parts == [seq : 0 .. MaxFrames, of : 0 .. MaxPbufs, k : 0 .. MaxPbufs]

\* What can go out, whole or not.
Sent == UNION {[1 .. n -> Parts] : n \in 1 .. MaxPbufs}

TypeOK ==
  /\ own \in [Slot -> {0, 1}]
  /\ st \in [Slot -> 0 .. MaxPbufs]
  /\ buf \in [Slot -> [1 .. MaxPbufs -> Parts]]
  /\ txcur \in Slot
  /\ dma \in Slot \cup {Nowhere}
  /\ run \in {"running", "suspended"}
  /\ phy \in [at : {"poll", "gaveup", "descs", "flush", "base", "cursor", "start"},
              next : 0 .. N, dirty : SUBSET Slot, restarts : Nat]
  /\ phy.at = "descs" => phy.next < N
  /\ etx \in {"idle", "copy", "publish", "kick"}
  /\ pkt \in [seq : 0 .. MaxFrames, of : 0 .. MaxPbufs, next : Nat]
  /\ etx \in {"copy", "publish"} => pkt.seq > 0 /\ pkt.of > 0
  /\ etx = "copy" => pkt.next \in 1 .. pkt.of
  /\ etx = "publish" => pkt.next = pkt.of + 1
  /\ wire \in Seq(Sent)
  /\ seen \subseteq {"lapped", "early", "restart", "stray"}

-----------------------------------------------------------------------------
(* Packets whole, and once.                                                *)

Sending == etx \in {"copy", "publish"}

\* The parts copied so far are in the buffer, and the DMA does not read it.
Copied ==
  Sending => /\ \A k \in 1 .. pkt.next - 1 : buf[txcur][k] = Part(pkt.seq, pkt.of, k)
             /\ ~InFlight(txcur)

\* What waits for the DMA in descriptor i is a packet.
Waits(i, seq) == \A k \in 1 .. st[i] : buf[i][k] = Part(seq, st[i], k)

WaitsWhole == \A i \in Slot : InFlight(i) => \E seq \in 1 .. MaxFrames : Waits(i, seq)

\* The packet in descriptor i, and those whose turn has not come.
SeqOf(i) == buf[i][1].seq
Begun(seq) == seq < pkt.seq \/ (seq = pkt.seq /\ ~Sending)

WireWhole == \A n \in 1 .. Len(wire) : Whole(wire[n])
WireOnce ==
  /\ \A n \in 1 .. Len(wire) : Begun(wire[n][1].seq)
  /\ \A m, n \in 1 .. Len(wire) : m # n => wire[m][1].seq # wire[n][1].seq

WaitsOnce ==
  \A i \in Slot : InFlight(i) =>
    /\ Begun(SeqOf(i))
    /\ \A n \in 1 .. Len(wire) : wire[n][1].seq # SeqOf(i)
    /\ \A j \in Slot \ {i} : InFlight(j) => SeqOf(j) # SeqOf(i)

Clean == Copied /\ WaitsWhole /\ WireWhole /\ WireOnce /\ WaitsOnce

WholeInv == Unspoilt => Clean

-----------------------------------------------------------------------------
(* The ring without hazards.                                               *)

\* The walk over the empty ring, before the first packet.
WalkOver ==
  /\ etx = "idle" /\ txcur = 0 /\ run = "running"
  /\ \A i \in Slot : st[i] = 0 /\ (own[i] = 1 <=> i >= dma)

RingOrder ==
  /\ \A k \in 0 .. N - 1 : own[At(k)] = 1 <=> k < Fill
  /\ \A i \in Slot : own[i] = 1 => st[i] > 0

FifoInv ==
  seen = {} => /\ phy.at = "poll" /\ dma \in Slot
               /\ WalkOver \/ RingOrder

-----------------------------------------------------------------------------
(* Types                                                                   *)

LEMMA SuccType == \A i \in Slot : Succ(i) \in Slot
  BY TxConstants DEF Slot, Succ

LEMMA SlotNow == Nowhere \notin Slot /\ Slot \subseteq Nat /\ 0 \in Slot
  BY TxConstants DEF Slot, Nowhere

LEMMA ContentSent ==
  ASSUME TypeOK, NEW i \in Slot, st[i] > 0
  PROVE  Content(i) \in Sent
  <1>1. st[i] \in 1 .. MaxPbufs
    BY TxConstants DEF TypeOK
  <1>2. \A k \in 1 .. st[i] : buf[i][k] \in Parts
    BY <1>1, TxConstants DEF TypeOK
  <1>3. Content(i) \in [1 .. st[i] -> Parts]
    BY <1>2 DEF Content
  <1>4. QED
    BY <1>1, <1>3 DEF Sent

LEMMA TypeInit == Init => TypeOK
  <1> SUFFICES ASSUME Init PROVE TypeOK
    OBVIOUS
  <1>1. NoPart \in Parts
    BY TxConstants DEF NoPart, Part, Parts
  <1>2. buf \in [Slot -> [1 .. MaxPbufs -> Parts]]
    BY <1>1 DEF Init
  <1>3. own \in [Slot -> {0, 1}] /\ st \in [Slot -> 0 .. MaxPbufs]
    BY TxConstants DEF Init
  <1>4. /\ phy \in [at : {"poll", "gaveup", "descs", "flush", "base", "cursor", "start"},
                    next : 0 .. N, dirty : SUBSET Slot, restarts : Nat]
        /\ phy.at # "descs"
    BY TxConstants DEF Init
  <1>5. pkt \in [seq : 0 .. MaxFrames, of : 0 .. MaxPbufs, next : Nat]
    BY TxConstants DEF Init
  <1>6. wire \in Seq(Sent) /\ seen = {} /\ etx = "idle" /\ run = "running"
        /\ txcur \in Slot /\ dma \in Slot
    BY SlotNow DEF Init
  <1>7. QED
    BY <1>2, <1>3, <1>4, <1>5, <1>6 DEF TypeOK

LEMMA EtxTypes == TypeOK /\ (EtxBegin \/ Etx) => TypeOK'
  <1> SUFFICES ASSUME TypeOK, EtxBegin \/ Etx PROVE TypeOK'
    OBVIOUS
  <1>1. CASE EtxBegin
    <2>1. PICK n \in 1 .. MaxPbufs : pkt' = [seq |-> pkt.seq + 1, of |-> n, next |-> 1]
      BY <1>1 DEF EtxBegin
    <2>2. pkt' \in [seq : 0 .. MaxFrames, of : 0 .. MaxPbufs, next : Nat]
          /\ pkt'.seq > 0 /\ pkt'.of > 0 /\ pkt'.next \in 1 .. pkt'.of
      BY <1>1, <2>1, TxConstants DEF EtxBegin, TypeOK
    <2>3. QED
      BY <1>1, <2>2 DEF EtxBegin, TypeOK
  <1>2. CASE EtxCopy
    <2>1. /\ etx = "copy" /\ pkt' = [pkt EXCEPT !.next = @ + 1]
          /\ buf' = [buf EXCEPT ![txcur][pkt.next] = Part(pkt.seq, pkt.of, pkt.next)]
          /\ etx' = IF pkt.next >= pkt.of THEN "publish" ELSE "copy"
      BY <1>2 DEF EtxCopy, Place, LastPbuf
    <2>2. pkt.next \in 1 .. pkt.of /\ pkt.of \in 1 .. MaxPbufs /\ pkt.seq \in 1 .. MaxFrames
      BY <2>1, TxConstants DEF TypeOK
    <2>3. Part(pkt.seq, pkt.of, pkt.next) \in Parts /\ pkt.next \in 1 .. MaxPbufs
      BY <2>2, TxConstants DEF Part, Parts
    <2>4. buf' \in [Slot -> [1 .. MaxPbufs -> Parts]]
      BY <2>1, <2>3 DEF TypeOK
    <2>5. /\ pkt' \in [seq : 0 .. MaxFrames, of : 0 .. MaxPbufs, next : Nat]
          /\ pkt'.seq = pkt.seq /\ pkt'.of = pkt.of /\ pkt'.next = pkt.next + 1
      BY <2>1 DEF TypeOK
    <2>6. /\ etx' = "copy" => pkt'.next \in 1 .. pkt'.of
          /\ etx' = "publish" => pkt'.next = pkt'.of + 1
      BY <2>1, <2>2, <2>5, TxConstants
    <2>7. QED
      BY <1>2, <2>1, <2>2, <2>4, <2>5, <2>6 DEF EtxCopy, TypeOK
  <1>3. CASE EtxPublish
    <2>1. st' \in [Slot -> 0 .. MaxPbufs] /\ own' \in [Slot -> {0, 1}] /\ txcur' \in Slot
      BY <1>3, SuccType DEF EtxPublish, TypeOK
    <2>2. /\ phy' \in [at : {"poll", "gaveup", "descs", "flush", "base", "cursor", "start"},
                       next : 0 .. N, dirty : SUBSET Slot, restarts : Nat]
          /\ phy'.at = phy.at /\ phy'.next = phy.next
      BY <1>3 DEF EtxPublish, TypeOK
    <2>3. QED
      BY <1>3, <2>1, <2>2 DEF EtxPublish, TypeOK
  <1>4. CASE EtxKick
    BY <1>4 DEF EtxKick, TypeOK
  <1>5. QED
    BY <1>1, <1>2, <1>3, <1>4 DEF Etx

LEMMA DmaTypes == TypeOK /\ Dma => TypeOK'
  <1> SUFFICES ASSUME TypeOK, Dma PROVE TypeOK'
    OBVIOUS
  <1>1. CASE DmaSend
    <2>1. dma \in Slot /\ dma' \in Slot /\ own' \in [Slot -> {0, 1}]
      BY <1>1, SuccType DEF DmaSend, TypeOK
    <2>2. wire' \in Seq(Sent)
      <3>1. CASE st[dma] > 0
        BY <1>1, <2>1, <3>1, ContentSent DEF DmaSend, TypeOK
      <3>2. CASE ~(st[dma] > 0)
        BY <1>1, <3>2 DEF DmaSend, TypeOK
      <3>3. QED
        BY <3>1, <3>2
    <2>3. QED
      BY <1>1, <2>1, <2>2 DEF DmaSend, TypeOK
  <1>2. CASE DmaSuspend
    BY <1>2 DEF DmaSuspend, TypeOK
  <1>3. QED
    BY <1>1, <1>2 DEF Dma

LEMMA PhyTypes == TypeOK /\ Phy => TypeOK'
  <1> SUFFICES ASSUME TypeOK, Phy PROVE TypeOK'
    OBVIOUS
  <1> DEFINE PhyType(p) ==
        /\ p \in [at : {"poll", "gaveup", "descs", "flush", "base", "cursor", "start"},
                  next : 0 .. N, dirty : SUBSET Slot, restarts : Nat]
        /\ p.at = "descs" => p.next < N
  <1>1. CASE PhyReset
    <2>1. PICK at \in {"descs", "gaveup"} :
            phy' = [at |-> at, next |-> 0, dirty |-> {}, restarts |-> phy.restarts + 1]
      BY <1>1 DEF PhyReset
    <2>2. PhyType(phy')
      BY <2>1, TxConstants DEF TypeOK
    <2>3. QED
      BY <1>1, <2>2 DEF PhyReset, TypeOK
  <1>2. CASE PhyDescs
    <2>1. /\ phy.at = "descs" /\ phy.next \in Slot
      BY <1>2, TxConstants DEF PhyDescs, PhyAt, TypeOK, Slot
    <2>2. phy' = [phy EXCEPT !.dirty = @ \cup {phy.next}, !.next = @ + 1,
                             !.at = IF phy.next + 1 = N THEN "flush" ELSE "descs"]
      BY <1>2 DEF PhyDescs
    <2>3. phy \in [at : {"poll", "gaveup", "descs", "flush", "base", "cursor", "start"},
                  next : 0 .. N, dirty : SUBSET Slot, restarts : Nat]
      BY DEF TypeOK
    <2>4. phy.dirty \cup {phy.next} \subseteq Slot
      BY <2>1, <2>3
    <2>5. phy.next + 1 \in 0 .. N /\ (phy.next + 1 # N => phy.next + 1 < N)
      BY <2>1, TxConstants DEF Slot
    <2>6. /\ phy'.at = IF phy.next + 1 = N THEN "flush" ELSE "descs"
          /\ phy'.next = phy.next + 1
      BY <2>2, <2>3
    <2>7. PhyType(phy')
      BY <2>2, <2>3, <2>4, <2>5, <2>6
    <2>8. QED
      BY <1>2, <2>7 DEF PhyDescs, TypeOK
  <1>3. CASE PhyFlush
    <2>1. own' \in [Slot -> {0, 1}] /\ st' \in [Slot -> 0 .. MaxPbufs]
      BY <1>3, TxConstants DEF PhyFlush, LengthsFlushed, TypeOK
    <2>2. PhyType(phy')
      BY <1>3 DEF PhyFlush, TypeOK
    <2>3. QED
      BY <1>3, <2>1, <2>2 DEF PhyFlush, TypeOK
  <1>4. CASE PhyBase
    <2>1. PhyType(phy')
      BY <1>4 DEF PhyBase, TypeOK
    <2>2. QED
      BY <1>4, <2>1, SlotNow DEF PhyBase, TypeOK
  <1>5. CASE PhyCursor
    <2>1. PhyType(phy')
      BY <1>5 DEF PhyCursor, TypeOK
    <2>2. QED
      BY <1>5, <2>1, SlotNow DEF PhyCursor, TypeOK
  <1>6. CASE PhyStart
    <2>1. PhyType(phy')
      BY <1>6 DEF PhyStart, TypeOK
    <2>2. QED
      BY <1>6, <2>1 DEF PhyStart, TypeOK
  <1>7. QED
    BY <1>1, <1>2, <1>3, <1>4, <1>5, <1>6 DEF Phy

LEMMA TypeStep == TypeOK /\ [Next]_vars => TypeOK'
  <1>1. TypeOK /\ UNCHANGED vars => TypeOK'
    BY DEF vars, TypeOK
  <1>2. QED
    BY <1>1, EtxTypes, DmaTypes, PhyTypes DEF Next

LEMMA TypeCorrect == Spec => []TypeOK
  BY TypeInit, TypeStep, PTL DEF Spec

-----------------------------------------------------------------------------
(* Packets whole, and once: one lemma for each way a step can matter.      *)

LEMMA WireSeq == TypeOK => \A n \in 1 .. Len(wire) : wire[n][1].seq \in 0 .. MaxFrames
  <1> SUFFICES ASSUME TypeOK, NEW n \in 1 .. Len(wire)
               PROVE  wire[n][1].seq \in 0 .. MaxFrames
    OBVIOUS
  <1>1. wire[n] \in Sent
    BY DEF TypeOK
  <1>2. PICK len \in 1 .. MaxPbufs : wire[n] \in [1 .. len -> Parts]
    BY <1>1 DEF Sent
  <1>3. wire[n][1] \in Parts
    BY <1>2
  <1>4. QED
    BY <1>3 DEF Parts

LEMMA SeqOfType == TypeOK => \A i \in Slot : SeqOf(i) \in 0 .. MaxFrames
  <1> SUFFICES ASSUME TypeOK, NEW i \in Slot PROVE SeqOf(i) \in 0 .. MaxFrames
    OBVIOUS
  <1>1. buf[i][1] \in Parts
    BY TxConstants DEF TypeOK
  <1>2. QED
    BY <1>1 DEF Parts, SeqOf

\* A step that brings nothing into flight and sends nothing.
LEMMA CleanQuiet ==
  ASSUME TypeOK, Clean, UNCHANGED <<buf, wire, pkt>>,
         \A i \in Slot : InFlight(i)' => InFlight(i) /\ st'[i] = st[i],
         Sending' <=> Sending, Sending => txcur' = txcur
  PROVE  Clean'
  <1>1. Copied'
    BY DEF Clean, Copied, TypeOK
  <1>2. WaitsWhole'
    <2> SUFFICES ASSUME NEW i \in Slot, InFlight(i)'
                 PROVE  \E seq \in 1 .. MaxFrames : Waits(i, seq)'
      BY DEF WaitsWhole
    <2>1. PICK seq \in 1 .. MaxFrames : Waits(i, seq)
      BY DEF Clean, WaitsWhole
    <2>2. Waits(i, seq)'
      BY <2>1 DEF Waits
    <2>3. QED
      BY <2>2
  <1>3. WireWhole' /\ WireOnce'
    BY DEF Clean, WireWhole, WireOnce, Begun
  <1>4. WaitsOnce'
    BY DEF Clean, WaitsOnce, SeqOf, Begun
  <1>5. QED
    BY <1>1, <1>2, <1>3, <1>4 DEF Clean

LEMMA CleanBegin ==
  ASSUME TypeOK, Clean, EtxBegin, Unspoilt'
  PROVE  Clean'
  <1>1. /\ etx = "idle" /\ etx' = "copy"
        /\ UNCHANGED <<own, st, buf, txcur, wire>>
        /\ pkt'.seq = pkt.seq + 1 /\ pkt'.next = 1
    BY DEF EtxBegin
  <1>2. ~InFlight(txcur)
    BY DEF EtxBegin, Unspoilt
  <1>3. Copied'
    BY <1>1, <1>2 DEF Copied, InFlight
  <1>4. WaitsWhole' /\ WireWhole'
    BY <1>1 DEF Clean, WaitsWhole, Waits, WireWhole, InFlight
  <1>5. \A seq \in 0 .. MaxFrames : Begun(seq) => Begun(seq)'
    BY <1>1, TxConstants DEF Begun, TypeOK
  <1>6. WireOnce'
    BY <1>1, <1>5, WireSeq DEF Clean, WireOnce
  <1>7. WaitsOnce'
    BY <1>1, <1>5, SeqOfType DEF Clean, WaitsOnce, SeqOf, InFlight
  <1>8. QED
    BY <1>3, <1>4, <1>6, <1>7 DEF Clean

LEMMA CleanCopy ==
  ASSUME TypeOK, Clean, EtxCopy
  PROVE  Clean'
  <1>1. /\ etx = "copy" /\ etx' \in {"copy", "publish"}
        /\ UNCHANGED <<own, st, txcur, wire>>
        /\ buf' = [buf EXCEPT ![txcur][pkt.next] = Part(pkt.seq, pkt.of, pkt.next)]
        /\ pkt' = [pkt EXCEPT !.next = @ + 1]
    BY DEF EtxCopy, Place
  <1>2. /\ pkt'.seq = pkt.seq /\ pkt'.of = pkt.of /\ pkt'.next = pkt.next + 1
        /\ pkt.next \in 1 .. pkt.of /\ pkt.of \in 0 .. MaxPbufs
    BY <1>1 DEF TypeOK
  <1>3. \A i \in Slot \ {txcur} : buf'[i] = buf[i]
    BY <1>1 DEF TypeOK
  <1>4. \A k \in 1 .. MaxPbufs :
          buf'[txcur][k] = IF k = pkt.next THEN Part(pkt.seq, pkt.of, pkt.next) ELSE buf[txcur][k]
    BY <1>1 DEF TypeOK
  <1>5. ~InFlight(txcur) /\ \A i \in Slot : InFlight(i)' <=> InFlight(i)
    BY <1>1 DEF Clean, Copied, Sending, InFlight
  <1>6. Copied'
    <2>1. \A k \in 1 .. pkt.next - 1 : buf[txcur][k] = Part(pkt.seq, pkt.of, k)
      BY <1>1 DEF Clean, Copied, Sending
    <2>2. \A k \in 1 .. pkt'.next - 1 : buf'[txcur][k] = Part(pkt.seq, pkt.of, k)
      BY <1>2, <1>4, <2>1, TxConstants
    <2>3. QED
      BY <1>1, <1>2, <1>5, <2>2 DEF Copied, TypeOK
  <1>7. WaitsWhole'
    <2> SUFFICES ASSUME NEW i \in Slot, InFlight(i)'
                 PROVE  \E seq \in 1 .. MaxFrames : Waits(i, seq)'
      BY DEF WaitsWhole
    <2>1. InFlight(i) /\ i # txcur
      BY <1>5
    <2>2. PICK seq \in 1 .. MaxFrames : Waits(i, seq)
      BY <2>1 DEF Clean, WaitsWhole
    <2>3. Waits(i, seq)'
      BY <1>1, <1>3, <2>1, <2>2 DEF Waits
    <2>4. QED
      BY <2>3
  <1>8. \A seq : Begun(seq)' <=> Begun(seq)
    BY <1>1, <1>2 DEF Begun, Sending
  <1>9. WireWhole' /\ WireOnce'
    BY <1>1, <1>8 DEF Clean, WireWhole, WireOnce
  <1>10. WaitsOnce'
    <2>1. \A i \in Slot : InFlight(i)' => InFlight(i) /\ SeqOf(i)' = SeqOf(i)
      BY <1>3, <1>5 DEF SeqOf
    <2>2. QED
      BY <1>1, <1>8, <2>1 DEF Clean, WaitsOnce
  <1>11. QED
    BY <1>6, <1>7, <1>9, <1>10 DEF Clean

LEMMA CleanPublish ==
  ASSUME TypeOK, Clean, EtxPublish
  PROVE  Clean'
  <1>1. /\ etx = "publish" /\ etx' = "kick"
        /\ UNCHANGED <<buf, wire, pkt>>
        /\ st' = [st EXCEPT ![txcur] = pkt.of]
        /\ own' = [own EXCEPT ![txcur] = 1]
    BY DEF EtxPublish
  <1>2. txcur \in Slot /\ pkt.of \in 1 .. MaxPbufs /\ pkt.seq \in 1 .. MaxFrames
    BY <1>1, TxConstants DEF TypeOK
  <1>3. /\ \A i \in Slot \ {txcur} : st'[i] = st[i] /\ (InFlight(i)' <=> InFlight(i))
        /\ st'[txcur] = pkt.of
    BY <1>1 DEF TypeOK, InFlight
  <1>4. ~InFlight(txcur) /\ \A k \in 1 .. pkt.of : buf[txcur][k] = Part(pkt.seq, pkt.of, k)
    BY <1>1 DEF Clean, Copied, Sending, TypeOK
  <1>5. SeqOf(txcur) = pkt.seq
    <2>1. 1 \in 1 .. pkt.of
      BY <1>2
    <2>2. buf[txcur][1] = [seq |-> pkt.seq, of |-> pkt.of, k |-> 1]
      BY <1>4, <2>1 DEF Part
    <2>3. QED
      BY <2>2 DEF SeqOf
  <1>6. Copied'
    BY <1>1 DEF Copied, Sending
  <1>7. WaitsWhole'
    <2> SUFFICES ASSUME NEW i \in Slot, InFlight(i)'
                 PROVE  \E seq \in 1 .. MaxFrames : Waits(i, seq)'
      BY DEF WaitsWhole
    <2>1. CASE i = txcur
      BY <1>1, <1>2, <1>3, <1>4, <2>1 DEF Waits
    <2>2. CASE i # txcur
      <3>1. PICK seq \in 1 .. MaxFrames : Waits(i, seq)
        BY <1>3, <2>2 DEF Clean, WaitsWhole
      <3>2. Waits(i, seq)'
        BY <1>1, <1>3, <2>2, <3>1 DEF Waits
      <3>3. QED
        BY <3>2
    <2>3. QED
      BY <2>1, <2>2
  <1>8. \A seq \in 0 .. MaxFrames :
          /\ Begun(seq) => seq < pkt.seq
          /\ Begun(seq)' <=> seq <= pkt.seq
    BY <1>1, <1>2 DEF Begun, Sending
  <1>9. WireWhole' /\ WireOnce'
    BY <1>1, <1>2, <1>8, WireSeq DEF Clean, WireWhole, WireOnce
  <1>10. WaitsOnce'
    <2>1. \A i \in Slot \ {txcur} : InFlight(i) => SeqOf(i) < pkt.seq
      BY <1>8, SeqOfType DEF Clean, WaitsOnce
    <2>2. \A n \in 1 .. Len(wire) : wire[n][1].seq < pkt.seq
      BY <1>8, WireSeq DEF Clean, WireOnce
    <2>3. \A i \in Slot : SeqOf(i)' = SeqOf(i)
      BY <1>1 DEF SeqOf
    <2>4. ASSUME NEW i \in Slot, InFlight(i)', i = txcur
          PROVE  /\ Begun(SeqOf(i))'
                 /\ \A n \in 1 .. Len(wire') : wire'[n][1].seq # SeqOf(i)'
                 /\ \A j \in Slot \ {i} : InFlight(j)' => SeqOf(j)' # SeqOf(i)'
      <3>1. SeqOf(i)' = pkt.seq
        BY <1>5, <2>3, <2>4
      <3>2. Begun(SeqOf(i))'
        BY <1>1, <3>1 DEF Begun, Sending
      <3>3. \A n \in 1 .. Len(wire') : wire'[n][1].seq # SeqOf(i)'
        BY <1>1, <1>2, <2>2, <3>1, WireSeq
      <3>4. \A j \in Slot \ {i} : InFlight(j)' => SeqOf(j)' # SeqOf(i)'
        BY <1>2, <1>3, <2>1, <2>3, <2>4, <3>1, SeqOfType
      <3>5. QED
        BY <3>2, <3>3, <3>4
    <2>5. ASSUME NEW i \in Slot, InFlight(i)', i # txcur
          PROVE  /\ Begun(SeqOf(i))'
                 /\ \A n \in 1 .. Len(wire') : wire'[n][1].seq # SeqOf(i)'
                 /\ \A j \in Slot \ {i} : InFlight(j)' => SeqOf(j)' # SeqOf(i)'
      <3>1. InFlight(i) /\ SeqOf(i)' = SeqOf(i) /\ SeqOf(i) < pkt.seq
        BY <1>3, <2>1, <2>3, <2>5
      <3>2. Begun(SeqOf(i))'
        BY <1>1, <3>1 DEF Begun
      <3>3. \A n \in 1 .. Len(wire') : wire'[n][1].seq # SeqOf(i)'
        BY <1>1, <3>1 DEF Clean, WaitsOnce
      <3>4. \A j \in Slot \ {i} : InFlight(j)' => SeqOf(j)' # SeqOf(i)'
        <4> SUFFICES ASSUME NEW j \in Slot \ {i}, InFlight(j)' PROVE SeqOf(j)' # SeqOf(i)'
          OBVIOUS
        <4>1. CASE j = txcur
          BY <1>2, <1>5, <2>3, <3>1, <4>1, SeqOfType
        <4>2. CASE j # txcur
          BY <1>3, <2>3, <3>1, <4>2 DEF Clean, WaitsOnce
        <4>3. QED
          BY <4>1, <4>2
      <3>5. QED
        BY <3>2, <3>3, <3>4
    <2>6. QED
      BY <2>4, <2>5 DEF WaitsOnce
  <1>11. QED
    BY <1>6, <1>7, <1>9, <1>10 DEF Clean

\* What leaves descriptor dma is the packet that was waiting there.
LEMMA CleanSend ==
  ASSUME TypeOK, Clean, DmaSend, st[dma] > 0
  PROVE  Clean'
  <1>1. /\ dma \in Slot /\ InFlight(dma)
        /\ UNCHANGED <<st, buf, txcur, etx, pkt>>
        /\ wire' = Append(wire, Content(dma))
        /\ own' = [own EXCEPT ![dma] = 0]
    BY DEF DmaSend, TypeOK, InFlight
  <1>2. \A i \in Slot : InFlight(i)' => InFlight(i) /\ i # dma
    BY <1>1 DEF TypeOK, InFlight
  <1>3. PICK s \in 1 .. MaxFrames : Waits(dma, s)
    BY <1>1 DEF Clean, WaitsWhole
  <1>4. st[dma] \in 1 .. MaxPbufs
    BY <1>1 DEF TypeOK
  <1>5. Content(dma) = Packet(s, st[dma])
    BY <1>3 DEF Content, Packet, Waits
  <1>6. Content(dma)[1].seq = SeqOf(dma)
    BY <1>4 DEF Content, SeqOf
  <1>7. /\ Len(wire') = Len(wire) + 1 /\ wire'[Len(wire) + 1] = Content(dma)
        /\ \A n \in 1 .. Len(wire) : wire'[n] = wire[n]
    BY <1>1, <1>4, ContentSent DEF TypeOK
  <1>8. Len(wire) \in Nat
    BY DEF TypeOK
  <1>9. Copied'
    BY <1>1, <1>2 DEF Clean, Copied, Sending, TypeOK
  <1>10. WaitsWhole'
    BY <1>1, <1>2 DEF Clean, WaitsWhole, Waits
  <1>11. WireWhole'
    <2>1. Whole(Content(dma))
      BY <1>4, <1>5 DEF Whole
    <2>2. \A n \in 1 .. Len(wire') : Whole(wire'[n])
      <3> SUFFICES ASSUME NEW n \in 1 .. Len(wire') PROVE Whole(wire'[n])
        OBVIOUS
      <3>1. CASE n \in 1 .. Len(wire)
        BY <1>7, <3>1 DEF Clean, WireWhole
      <3>2. CASE n = Len(wire) + 1
        BY <1>7, <2>1, <3>2
      <3>3. QED
        BY <1>7, <1>8, <3>1, <3>2
    <2>3. QED
      BY <2>2 DEF WireWhole, Whole
  <1>12. /\ \A seq : Begun(seq)' <=> Begun(seq)
         /\ \A i \in Slot : SeqOf(i)' = SeqOf(i)
    BY <1>1 DEF Begun, Sending, SeqOf
  <1>13. /\ Begun(SeqOf(dma))
         /\ \A n \in 1 .. Len(wire) : wire[n][1].seq # SeqOf(dma)
         /\ \A i \in Slot \ {dma} : InFlight(i) => SeqOf(i) # SeqOf(dma)
    BY <1>1 DEF Clean, WaitsOnce
  <1>14. WireOnce'
    <2>1. ASSUME NEW n \in 1 .. Len(wire')
          PROVE  Begun(wire[n][1].seq)'
      <3>1. CASE n \in 1 .. Len(wire)
        BY <1>1, <1>7, <3>1 DEF Clean, WireOnce, Begun, Sending
      <3>2. CASE n = Len(wire) + 1
        BY <1>1, <1>6, <1>7, <1>13, <3>2 DEF Begun, Sending
      <3>3. QED
        BY <1>7, <1>8, <3>1, <3>2
    <2>2. ASSUME NEW m \in 1 .. Len(wire'), NEW n \in 1 .. Len(wire'), m # n
          PROVE  wire'[m][1].seq # wire'[n][1].seq
      <3>1. CASE m \in 1 .. Len(wire) /\ n \in 1 .. Len(wire)
        BY <1>7, <2>2, <3>1 DEF Clean, WireOnce
      <3>2. CASE m = Len(wire) + 1
        <4>1. n \in 1 .. Len(wire) /\ wire'[n] = wire[n] /\ wire'[m] = Content(dma)
          BY <1>7, <1>8, <2>2, <3>2
        <4>2. QED
          BY <1>6, <1>13, <4>1
      <3>3. CASE n = Len(wire) + 1
        <4>1. m \in 1 .. Len(wire) /\ wire'[m] = wire[m] /\ wire'[n] = Content(dma)
          BY <1>7, <1>8, <2>2, <3>3
        <4>2. QED
          BY <1>6, <1>13, <4>1
      <3>4. QED
        BY <1>7, <1>8, <3>1, <3>2, <3>3
    <2>3. QED
      BY <2>1, <2>2 DEF WireOnce
  <1>15. WaitsOnce'
    <2> SUFFICES ASSUME NEW i \in Slot, InFlight(i)'
                 PROVE  /\ Begun(SeqOf(i))'
                        /\ \A n \in 1 .. Len(wire') : wire'[n][1].seq # SeqOf(i)'
                        /\ \A j \in Slot \ {i} : InFlight(j)' => SeqOf(j)' # SeqOf(i)'
      BY DEF WaitsOnce
    <2>1. InFlight(i) /\ i # dma
      BY <1>2
    <2>2. Begun(SeqOf(i))'
      BY <1>12, <2>1 DEF Clean, WaitsOnce
    <2>3. \A n \in 1 .. Len(wire') : wire'[n][1].seq # SeqOf(i)'
      <3> SUFFICES ASSUME NEW n \in 1 .. Len(wire') PROVE wire'[n][1].seq # SeqOf(i)'
        OBVIOUS
      <3>1. CASE n \in 1 .. Len(wire)
        BY <1>7, <1>12, <2>1, <3>1 DEF Clean, WaitsOnce
      <3>2. CASE n = Len(wire) + 1
        BY <1>6, <1>7, <1>12, <1>13, <2>1, <3>2
      <3>3. QED
        BY <1>7, <1>8, <3>1, <3>2
    <2>4. \A j \in Slot \ {i} : InFlight(j)' => SeqOf(j)' # SeqOf(i)'
      BY <1>2, <1>12, <2>1 DEF Clean, WaitsOnce
    <2>5. QED
      BY <2>2, <2>3, <2>4
  <1>16. QED
    BY <1>9, <1>10, <1>11, <1>14, <1>15 DEF Clean

LEMMA CleanPhy ==
  ASSUME TypeOK, Clean, Phy
  PROVE  Clean'
  <1>1. /\ etx = "idle" /\ UNCHANGED <<buf, wire, pkt, etx>>
    BY DEF Phy, PhyReset, PhyDescs, PhyFlush, PhyBase, PhyCursor, PhyStart, PhyAt
  <1>2. \A i \in Slot : InFlight(i)' => InFlight(i) /\ st'[i] = st[i]
    <2>1. CASE PhyFlush
      BY <2>1 DEF PhyFlush, LengthsFlushed, InFlight, TypeOK
    <2>2. CASE PhyReset \/ PhyDescs \/ PhyBase \/ PhyCursor \/ PhyStart
      BY <2>2 DEF PhyReset, PhyDescs, PhyBase, PhyCursor, PhyStart, InFlight
    <2>3. QED
      BY <2>1, <2>2 DEF Phy
  <1>3. QED
    BY <1>1, <1>2, CleanQuiet DEF Sending

LEMMA WholeStep == TypeOK /\ WholeInv /\ [Next]_vars => WholeInv'
  <1> SUFFICES ASSUME TypeOK, WholeInv, [Next]_vars, Unspoilt'
               PROVE  Clean'
    BY DEF WholeInv
  <1>1. seen \subseteq seen'
    BY DEF Next, vars, EtxBegin, Etx, EtxCopy, EtxPublish, EtxKick, Dma, DmaSend, DmaSuspend,
           Phy, PhyReset, PhyDescs, PhyFlush, PhyBase, PhyCursor, PhyStart
  <1>2. Clean
    BY <1>1 DEF WholeInv, Unspoilt
  <1>3. CASE EtxBegin
    BY <1>2, <1>3, CleanBegin
  <1>4. CASE EtxCopy
    BY <1>2, <1>4, CleanCopy
  <1>5. CASE EtxPublish
    BY <1>2, <1>5, CleanPublish
  <1>6. CASE EtxKick
    <2>1. UNCHANGED <<own, st, buf, wire, pkt>> /\ etx = "kick" /\ etx' = "idle"
      BY <1>6 DEF EtxKick
    <2>2. QED
      BY <1>2, <2>1, CleanQuiet DEF InFlight, Sending
  <1>7. CASE DmaSend
    <2>1. CASE st[dma] > 0
      BY <1>2, <1>7, <2>1, CleanSend
    <2>2. CASE ~(st[dma] > 0)
      <3>1. UNCHANGED <<st, buf, wire, pkt, etx, txcur>> /\ own' = [own EXCEPT ![dma] = 0]
        BY <1>7, <2>2 DEF DmaSend
      <3>2. \A i \in Slot : InFlight(i)' => InFlight(i) /\ st'[i] = st[i]
        BY <3>1 DEF InFlight, TypeOK
      <3>3. QED
        BY <1>2, <3>1, <3>2, CleanQuiet DEF Sending
    <2>3. QED
      BY <2>1, <2>2
  <1>8. CASE DmaSuspend
    <2>1. UNCHANGED <<own, st, buf, wire, pkt, etx, txcur>>
      BY <1>8 DEF DmaSuspend
    <2>2. QED
      BY <1>2, <2>1, CleanQuiet DEF InFlight, Sending
  <1>9. CASE Phy
    BY <1>2, <1>9, CleanPhy
  <1>10. CASE UNCHANGED vars
    <2>1. UNCHANGED <<own, st, buf, wire, pkt, etx, txcur>>
      BY <1>10 DEF vars
    <2>2. QED
      BY <1>2, <2>1, CleanQuiet DEF InFlight, Sending
  <1>11. QED
    BY <1>3, <1>4, <1>5, <1>6, <1>7, <1>8, <1>9, <1>10 DEF Next, Etx, Dma

LEMMA WholeInit == Init => WholeInv
  <1> SUFFICES ASSUME Init PROVE Clean
    BY DEF WholeInv
  <1>1. etx = "idle" /\ wire = <<>> /\ Len(wire) = 0 /\ \A i \in Slot : ~InFlight(i)
    BY DEF Init, InFlight
  <1>2. QED
    BY <1>1 DEF Clean, Copied, Sending, WaitsWhole, WireWhole, WireOnce, WaitsOnce

LEMMA WholeSafe == Spec => []WholeInv
  <1>1. TypeOK /\ WholeInv /\ [Next]_vars => WholeInv'
    BY WholeStep
  <1>2. QED
    BY <1>1, TypeCorrect, WholeInit, PTL DEF Spec

(***************************************************************************)
(* WholeUnlessLapped: what _emac_tx put together pbuf by pbuf goes out as  *)
(* that packet, with all its pbufs and nothing else, unless the sender got *)
(* N packets ahead of the wire or the DMA was started without a ring.      *)
(***************************************************************************)
THEOREM TxWhole == Spec => []WholeUnlessLapped
  <1>1. WholeInv => WholeUnlessLapped
    BY DEF WholeInv, Clean, WireWhole, WholeUnlessLapped
  <1>2. QED
    BY <1>1, WholeSafe, PTL

(***************************************************************************)
(* OnceUnlessLapped: under the same condition no packet of _emac_tx goes   *)
(* out twice, over any number of restarts by _sun8i_emac_eth_init.         *)
(***************************************************************************)
THEOREM TxOnce == Spec => []OnceUnlessLapped
  <1>1. WholeInv => OnceUnlessLapped
    BY DEF WholeInv, Clean, WireOnce, OnceUnlessLapped
  <1>2. QED
    BY <1>1, WholeSafe, PTL

-----------------------------------------------------------------------------
(* The ring as a queue: what At and Fill do when a cursor moves.           *)

LEMMA AtType ==
  ASSUME TypeOK, dma \in Slot, NEW k \in 0 .. N - 1
  PROVE  At(k) \in Slot
  BY TxConstants DEF At, Slot

LEMMA AtInjective ==
  ASSUME TypeOK, dma \in Slot, NEW j \in 0 .. N - 1, NEW k \in 0 .. N - 1, At(j) = At(k)
  PROVE  j = k
  BY TxConstants DEF At, Slot

LEMMA FillType ==
  ASSUME TypeOK, dma \in Slot
  PROVE  Fill \in 0 .. N
  BY TxConstants DEF TypeOK, Fill, Slot

LEMMA PublishFill ==
  ASSUME TypeOK, dma \in Slot, RingOrder, own[txcur] = 0, EtxPublish
  PROVE  /\ Fill < N /\ At(Fill) = txcur
         /\ Fill' = Fill + 1
         /\ \A k \in 0 .. N : At(k)' = At(k)
  <1>1. /\ txcur' = Succ(txcur) /\ dma' = dma /\ txcur \in Slot
        /\ own' = [own EXCEPT ![txcur] = 1] /\ st' = [st EXCEPT ![txcur] = pkt.of]
        /\ pkt.of > 0
    BY DEF EtxPublish, TypeOK
  <1>2. \A k \in 0 .. N : At(k)' = At(k)
    BY <1>1 DEF At
  <1>3. own[dma] = 1 => st[dma] > 0
    BY DEF RingOrder
  <1>4. st[dma] \in Nat /\ pkt.of \in Nat
    BY TxConstants DEF TypeOK
  <1>5. CASE dma = txcur
    <2>1. own'[dma] = 1 /\ st'[dma] = pkt.of
      BY <1>1, <1>5 DEF TypeOK
    <2>2. Fill = 0
      BY <1>5, TxConstants DEF Fill, Slot
    <2>3. Fill' = 1
      BY <1>1, <1>4, <1>5, <2>1, TxConstants DEF Fill, Slot, Succ
    <2>4. QED
      BY <1>2, <1>5, <2>2, <2>3, TxConstants DEF At, Slot
  <1>6. CASE dma # txcur
    <2>1. own'[dma] = own[dma] /\ st'[dma] = st[dma]
      BY <1>1, <1>6 DEF TypeOK
    <2>2. Fill = IF dma < txcur THEN txcur - dma ELSE N - dma + txcur
      BY <1>1, <1>3, <1>4, <1>6 DEF Fill, Slot
    <2>3. Fill \in 1 .. N - 1 /\ At(Fill) = txcur
      BY <1>1, <1>6, <2>2, TxConstants DEF At, Slot
    <2>4. own[dma] = 1
      <3>1. At(0) = dma /\ 0 \in 0 .. N - 1
        BY TxConstants DEF At, Slot
      <3>2. QED
        BY <2>3, <3>1 DEF RingOrder
    <2>5. Fill' = IF dma < txcur' THEN txcur' - dma
                  ELSE IF txcur' < dma THEN N - dma + txcur' ELSE N
      BY <1>1, <1>3, <1>4, <2>1, <2>4 DEF Fill
    <2>6. Fill' = Fill + 1
      BY <1>1, <1>6, <2>2, <2>5, TxConstants DEF Slot, Succ
    <2>7. QED
      BY <1>2, <2>3, <2>6, TxConstants
  <1>7. QED
    BY <1>5, <1>6

LEMMA SendFill ==
  ASSUME TypeOK, dma \in Slot, RingOrder, DmaSend
  PROVE  /\ st[dma] > 0 /\ Fill > 0 /\ dma' \in Slot
         /\ Fill' = Fill - 1
         /\ \A k \in 0 .. N - 2 : At(k)' = At(k + 1)
         /\ At(N - 1)' = dma
  <1>1. /\ txcur' = txcur /\ dma' = Succ(dma) /\ txcur \in Slot /\ st' = st
        /\ own' = [own EXCEPT ![dma] = 0] /\ own[dma] = 1
    BY DEF DmaSend, TypeOK
  <1>2. st[dma] > 0 /\ dma' \in Slot
    BY <1>1, SuccType DEF RingOrder
  <1>3. /\ \A k \in 0 .. N - 2 : At(k)' = At(k + 1)
        /\ At(N - 1)' = dma
    BY <1>1, TxConstants DEF At, Succ, Slot
  <1>4. own'[dma'] = 1 => st[dma'] > 0
    BY <1>1, <1>2 DEF RingOrder, TypeOK
  <1>5. st[dma] \in Nat /\ st[dma'] \in Nat
    BY <1>2, TxConstants DEF TypeOK
  <1>6. Fill = IF dma < txcur THEN txcur - dma
               ELSE IF txcur < dma THEN N - dma + txcur ELSE N
    BY <1>1, <1>2, <1>5 DEF Fill, Slot
  <1>7. Fill' = IF dma' < txcur THEN txcur - dma'
                ELSE IF txcur < dma' THEN N - dma' + txcur
                ELSE IF own'[dma'] = 1 THEN N ELSE 0
    BY <1>1, <1>4, <1>5 DEF Fill
  <1>8. Fill' = Fill - 1
    <2>1. CASE dma = txcur
      <3>1. dma' = txcur => N = 1 /\ own'[dma'] = 0
        BY <1>1, <2>1, TxConstants DEF Succ, Slot, TypeOK
      <3>2. QED
        BY <1>1, <1>2, <1>6, <1>7, <2>1, <3>1, TxConstants DEF Succ, Slot
    <2>2. CASE dma # txcur
      <3>1. Fill \in 1 .. N - 1 /\ At(Fill) = txcur
        BY <1>1, <1>6, <2>2, TxConstants DEF At, Slot
      <3>2. own'[txcur] # 1
        <4>1. own[txcur] # 1
          BY <3>1 DEF RingOrder
        <4>2. QED
          BY <1>1, <2>2, <4>1 DEF TypeOK
      <3>3. QED
        BY <1>1, <1>2, <1>6, <1>7, <2>2, <3>2, TxConstants DEF Succ, Slot
    <2>3. QED
      BY <2>1, <2>2
  <1>9. Fill > 0
    BY <1>1, <1>6, TxConstants DEF Slot
  <1>10. QED
    BY <1>2, <1>3, <1>8, <1>9

-----------------------------------------------------------------------------
(* The DMA owns what lies between the cursors.                             *)

LEMMA RingPublish ==
  ASSUME TypeOK, dma \in Slot, RingOrder, own[txcur] = 0, EtxPublish
  PROVE  RingOrder'
  <1>1. /\ Fill < N /\ At(Fill) = txcur /\ Fill' = Fill + 1
        /\ \A k \in 0 .. N : At(k)' = At(k)
    BY PublishFill
  <1>2. Fill \in 0 .. N - 1
    BY <1>1, FillType, TxConstants
  <1>3. /\ own' = [own EXCEPT ![txcur] = 1] /\ st' = [st EXCEPT ![txcur] = pkt.of]
        /\ txcur \in Slot /\ pkt.of > 0
    BY DEF EtxPublish, TypeOK
  <1>4. ASSUME NEW k \in 0 .. N - 1
        PROVE  own'[At(k)] = 1 <=> k < Fill + 1
    <2>1. CASE k = Fill
      BY <1>1, <1>2, <1>3, <2>1 DEF TypeOK
    <2>2. CASE k # Fill
      <3>1. At(k) # txcur
        BY <1>1, <1>2, <2>2, AtInjective
      <3>2. own'[At(k)] = own[At(k)]
        BY <1>3, <3>1, AtType DEF TypeOK
      <3>3. QED
        BY <1>2, <2>2, <3>2 DEF RingOrder
    <2>3. QED
      BY <2>1, <2>2
  <1>5. ASSUME NEW i \in Slot, own'[i] = 1
        PROVE  st'[i] > 0
    <2>1. CASE i = txcur
      BY <1>3, <2>1 DEF TypeOK
    <2>2. CASE i # txcur
      <3>1. own[i] = 1 /\ st'[i] = st[i]
        BY <1>3, <1>5, <2>2 DEF TypeOK
      <3>2. QED
        BY <3>1 DEF RingOrder
    <2>3. QED
      BY <2>1, <2>2
  <1>6. \A k \in 0 .. N - 1 : own'[At(k)'] = 1 <=> k < Fill'
    BY <1>1, <1>4, TxConstants
  <1>7. QED
    BY <1>5, <1>6 DEF RingOrder

LEMMA RingSend ==
  ASSUME TypeOK, dma \in Slot, RingOrder, DmaSend
  PROVE  RingOrder'
  <1>1. /\ Fill > 0 /\ Fill' = Fill - 1
        /\ \A k \in 0 .. N - 2 : At(k)' = At(k + 1)
        /\ At(N - 1)' = dma
    BY SendFill
  <1>2. own' = [own EXCEPT ![dma] = 0] /\ st' = st /\ At(0) = dma
    BY TxConstants DEF DmaSend, At, Slot
  <1>3. Fill \in 1 .. N
    BY <1>1, FillType, TxConstants
  <1>4. ASSUME NEW k \in 0 .. N - 1
        PROVE  own'[At(k)'] = 1 <=> k < Fill - 1
    <2>1. CASE k = N - 1
      BY <1>1, <1>2, <1>3, <2>1, TxConstants DEF TypeOK
    <2>2. CASE k # N - 1
      <3>1. k + 1 \in 0 .. N - 1 /\ k \in 0 .. N - 2 /\ 0 \in 0 .. N - 1 /\ k + 1 # 0
        BY <2>2, TxConstants
      <3>2. At(k + 1) # dma
        BY <1>2, <3>1, AtInjective
      <3>3. own'[At(k + 1)] = own[At(k + 1)]
        BY <1>2, <3>1, <3>2, AtType DEF TypeOK
      <3>4. own[At(k + 1)] = 1 <=> k + 1 < Fill
        BY <3>1 DEF RingOrder
      <3>5. QED
        BY <1>1, <1>3, <3>1, <3>3, <3>4
    <2>3. QED
      BY <2>1, <2>2
  <1>5. \A i \in Slot : own'[i] = 1 => st'[i] > 0
    BY <1>2 DEF RingOrder, TypeOK
  <1>6. QED
    BY <1>1, <1>4, <1>5 DEF RingOrder

\* The DMA walks over an empty descriptor; after the last one it is where the
\* sender is, and the ring is empty.
LEMMA WalkOn ==
  ASSUME TypeOK, dma \in Slot, WalkOver, DmaSend
  PROVE  /\ dma' \in Slot /\ wire' = wire
         /\ WalkOver' \/ RingOrder'
         /\ Fill = 0 /\ Fill' = 0
  <1>1. /\ st' = st /\ txcur' = txcur /\ run' = run /\ etx' = etx
        /\ own' = [own EXCEPT ![dma] = 0] /\ dma' = Succ(dma)
        /\ st[dma] = 0 /\ own[dma] = 1
    BY DEF DmaSend, WalkOver
  <1>2. wire' = wire
    BY <1>1 DEF DmaSend
  <1>3. dma' \in Slot /\ Fill = 0
    BY <1>1, SuccType DEF Fill
  <1>4. \A i \in Slot : own'[i] = IF i = dma THEN 0 ELSE own[i]
    BY <1>1 DEF TypeOK
  <1>5. CASE dma + 1 < N
    <2>1. dma' = dma + 1
      BY <1>1, <1>5, TxConstants DEF Succ, Slot
    <2>2. \A i \in Slot : own'[i] = 1 <=> i >= dma + 1
      <3> SUFFICES ASSUME NEW i \in Slot PROVE own'[i] = 1 <=> i >= dma + 1
        OBVIOUS
      <3>1. own[i] = 1 <=> i >= dma
        BY DEF WalkOver
      <3>2. QED
        BY <1>4, <3>1 DEF Slot
    <2>3. WalkOver'
      BY <1>1, <2>1, <2>2 DEF WalkOver
    <2>4. own'[dma'] = 1 /\ st'[dma'] = 0
      BY <1>1, <1>3, <2>1, <2>2 DEF Slot, WalkOver
    <2>5. Fill' = 0
      BY <2>4 DEF Fill
    <2>6. QED
      BY <1>2, <1>3, <2>3, <2>5
  <1>6. CASE ~(dma + 1 < N)
    <2>1. dma' = 0 /\ dma = N - 1 /\ txcur' = 0
      BY <1>1, <1>6, TxConstants DEF Succ, Slot, WalkOver
    <2>2. \A i \in Slot : own'[i] # 1
      <3> SUFFICES ASSUME NEW i \in Slot PROVE own'[i] # 1
        OBVIOUS
      <3>1. own[i] = 1 <=> i >= dma
        BY DEF WalkOver
      <3>2. QED
        BY <1>4, <2>1, <3>1, TxConstants DEF Slot
    <2>3. Fill' = 0
      BY <1>3, <2>1, <2>2 DEF Fill
    <2>4. \A k \in 0 .. N - 1 : At(k)' \in Slot
      BY <2>1, TxConstants DEF At, Slot
    <2>5. RingOrder'
      BY <2>2, <2>3, <2>4 DEF RingOrder
    <2>6. QED
      BY <1>2, <1>3, <2>3, <2>5
  <1>7. QED
    BY <1>5, <1>6

\* A packet cannot be begun during the walk without being seen early.
LEMMA WalkIsEarly ==
  ASSUME TypeOK, dma \in Slot, WalkOver, EtxBegin
  PROVE  seen' # {}
  <1>1. Walking
    BY SlotNow DEF WalkOver, Walking, Slot
  <1>2. QED
    BY <1>1 DEF EtxBegin

LEMMA NotLapped ==
  ASSUME TypeOK, RingOrder, Clean, Sending
  PROVE  own[txcur] = 0
  BY DEF TypeOK, RingOrder, Clean, Copied, InFlight

LEMMA FifoInvStep == TypeOK /\ WholeInv /\ FifoInv /\ [Next]_vars => FifoInv'
  <1> SUFFICES ASSUME TypeOK, WholeInv, FifoInv, [Next]_vars, seen' = {}
               PROVE  phy'.at = "poll" /\ dma' \in Slot /\ (WalkOver' \/ RingOrder')
    BY DEF FifoInv
  <1>1. seen = {}
    BY DEF Next, vars, EtxBegin, Etx, EtxCopy, EtxPublish, EtxKick, Dma, DmaSend, DmaSuspend,
           Phy, PhyReset, PhyDescs, PhyFlush, PhyBase, PhyCursor, PhyStart
  <1>2. /\ phy.at = "poll" /\ dma \in Slot /\ (WalkOver \/ RingOrder)
        /\ Clean
    BY <1>1 DEF FifoInv, WholeInv, Unspoilt
  <1>3. CASE EtxBegin \/ EtxCopy
    <2>1. UNCHANGED <<own, st, txcur, dma, phy>>
      BY <1>3 DEF EtxBegin, EtxCopy
    <2>2. RingOrder
      BY <1>2, <1>3, WalkIsEarly DEF WalkOver, EtxCopy
    <2>3. RingOrder'
      BY <2>1, <2>2 DEF RingOrder, Fill, At
    <2>4. QED
      BY <1>2, <2>1, <2>3
  <1>4. CASE EtxPublish
    <2>1. RingOrder /\ Sending
      BY <1>2, <1>4 DEF WalkOver, EtxPublish, Sending
    <2>2. RingOrder'
      BY <1>2, <1>4, <2>1, NotLapped, RingPublish
    <2>3. phy'.at = phy.at /\ dma' = dma
      BY <1>4 DEF EtxPublish, TypeOK
    <2>4. QED
      BY <1>2, <2>2, <2>3
  <1>5. CASE EtxKick \/ DmaSuspend
    <2>1. UNCHANGED <<own, st, txcur, dma, phy>>
      BY <1>5 DEF EtxKick, DmaSuspend
    <2>2. RingOrder
      BY <1>2, <1>5 DEF WalkOver, EtxKick, DmaSuspend, Slot
    <2>3. RingOrder'
      BY <2>1, <2>2 DEF RingOrder, Fill, At
    <2>4. QED
      BY <1>2, <2>1, <2>3
  <1>6. CASE DmaSend
    <2>1. phy' = phy
      BY <1>6 DEF DmaSend
    <2>2. CASE RingOrder
      BY <1>2, <1>6, <2>1, <2>2, RingSend, SendFill
    <2>3. CASE WalkOver
      BY <1>2, <1>6, <2>1, <2>3, WalkOn
    <2>4. QED
      BY <1>2, <2>2, <2>3
  <1>7. CASE Phy
    BY <1>2, <1>7 DEF Phy, PhyReset, PhyDescs, PhyFlush, PhyBase, PhyCursor, PhyStart, PhyAt
  <1>8. CASE UNCHANGED vars
    <2>1. UNCHANGED <<own, st, txcur, dma, phy, etx, run>>
      BY <1>8 DEF vars
    <2>2. QED
      BY <1>2, <2>1 DEF RingOrder, WalkOver, Fill, At
  <1>9. QED
    BY <1>3, <1>4, <1>5, <1>6, <1>7, <1>8 DEF Next, Etx, Dma

LEMMA FifoInvInit == Init => FifoInv
  <1> SUFFICES ASSUME Init PROVE phy.at = "poll" /\ dma \in Slot /\ WalkOver
    BY DEF FifoInv
  <1>1. QED
    BY TxConstants DEF Init, WalkOver, Slot

-----------------------------------------------------------------------------
(* Refinement.                                                             *)

LEMMA AppendAsFunction ==
  ASSUME NEW S, NEW s \in Seq(S), NEW e \in S
  PROVE  Append(s, e) = [k \in 1 .. Len(s) + 1 |-> IF k = Len(s) + 1 THEN e ELSE s[k]]
  <1> DEFINE t == [k \in 1 .. Len(s) + 1 |-> IF k = Len(s) + 1 THEN e ELSE s[k]]
  <1>1. Len(s) \in Nat
    OBVIOUS
  <1>2. \A k \in 1 .. Len(s) + 1 : (IF k = Len(s) + 1 THEN e ELSE s[k]) \in S
    BY <1>1
  <1>3. t \in Seq(S) /\ Len(t) = Len(s) + 1
    BY <1>1, <1>2
  <1>4. \A k \in 1 .. Len(s) + 1 : t[k] = Append(s, e)[k]
    BY <1>1, AppendProperties
  <1>5. Append(s, e) \in Seq(S) /\ Len(Append(s, e)) = Len(s) + 1
    BY AppendProperties
  <1> HIDE DEF t
  <1>6. Append(s, e) = t
    BY <1>3, <1>4, <1>5, SeqEqual
  <1>7. QED
    BY <1>6 DEF t

LEMMA TailAsFunction ==
  ASSUME NEW S, NEW s \in Seq(S), s # <<>>
  PROVE  Tail(s) = [k \in 1 .. Len(s) - 1 |-> s[k + 1]]
  <1> DEFINE t == [k \in 1 .. Len(s) - 1 |-> s[k + 1]]
  <1>1. Len(s) \in Nat \ {0}
    BY EmptySeq
  <1>2. \A k \in 1 .. Len(s) - 1 : k + 1 \in 1 .. Len(s) /\ s[k + 1] \in S
    BY <1>1
  <1>3. t \in Seq(S) /\ Len(t) = Len(s) - 1
    BY <1>1, <1>2
  <1>4. \A k \in 1 .. Len(s) - 1 : t[k] = Tail(s)[k]
    BY <1>1, HeadTailProperties
  <1>5. Tail(s) \in Seq(S) /\ Len(Tail(s)) = Len(s) - 1
    BY HeadTailProperties
  <1> HIDE DEF t
  <1>6. Tail(s) = t
    BY <1>3, <1>4, <1>5, SeqEqual
  <1>7. QED
    BY <1>6 DEF t

LEMMA QueuedType ==
  ASSUME TypeOK, dma \in Slot, RingOrder
  PROVE  /\ Queued \in Seq(Sent)
         /\ Len(Queued) = Fill
         /\ \A k \in 1 .. Fill : Queued[k] = Content(At(k - 1))
  <1>1. Fill \in Nat
    BY FillType, TxConstants
  <1>2. ASSUME NEW k \in 1 .. Fill PROVE Content(At(k - 1)) \in Sent
    <2>1. k - 1 \in 0 .. N - 1 /\ k - 1 < Fill
      BY <1>1, FillType, TxConstants
    <2>2. At(k - 1) \in Slot
      BY <2>1, AtType
    <2>3. st[At(k - 1)] > 0
      BY <2>1, <2>2 DEF RingOrder
    <2>4. QED
      BY <2>2, <2>3, ContentSent
  <1>3. QED
    BY <1>1, <1>2 DEF Queued

LEMMA FifoInitMap == Init => Fifo!FifoInit
  <1> SUFFICES ASSUME Init PROVE Queued = <<>> /\ wire = <<>>
    BY DEF Fifo!FifoInit
  <1>1. Fill = 0
    BY TxConstants DEF Init, Fill, Slot
  <1>2. QED
    BY <1>1 DEF Init, Queued

LEMMA FifoAccept ==
  ASSUME TypeOK, dma \in Slot, RingOrder, Clean, EtxPublish
  PROVE  Fifo!Accept
  <1>1. own[txcur] = 0 /\ etx = "publish" /\ Sending
    BY NotLapped DEF EtxPublish, Sending
  <1>2. /\ Fill < N /\ At(Fill) = txcur /\ Fill' = Fill + 1
        /\ \A k \in 0 .. N : At(k)' = At(k)
    BY <1>1, PublishFill
  <1>3. Fill \in 0 .. N - 1
    BY <1>2, FillType, TxConstants
  <1>4. /\ st' = [st EXCEPT ![txcur] = pkt.of] /\ UNCHANGED <<buf, wire>>
        /\ txcur \in Slot /\ pkt.of \in 1 .. MaxPbufs /\ pkt.seq \in 1 .. MaxFrames
    BY <1>1, TxConstants DEF EtxPublish, TypeOK
  <1> DEFINE f == Packet(pkt.seq, pkt.of)
             Sends(i) == [j \in 1 .. st'[i] |-> buf'[i][j]]
  <1>5. Sends(txcur) = f
    <2>1. \A j \in 1 .. pkt.of : buf[txcur][j] = Part(pkt.seq, pkt.of, j)
      BY <1>1 DEF Clean, Copied, TypeOK
    <2>2. st'[txcur] = pkt.of
      BY <1>4 DEF TypeOK
    <2>3. QED
      BY <1>4, <2>1, <2>2 DEF Packet
  <1>6. \A i \in Slot \ {txcur} : Sends(i) = Content(i)
    BY <1>4 DEF Content, TypeOK
  <1>7. f \in {Packet(s, n) : s \in 1 .. MaxFrames, n \in 1 .. MaxPbufs}
    BY <1>4
  <1>8. f \in Sent
    <2>1. \A j \in 1 .. pkt.of : Part(pkt.seq, pkt.of, j) \in Parts
      BY <1>4, TxConstants DEF Part, Parts
    <2>2. f \in [1 .. pkt.of -> Parts]
      BY <2>1 DEF Packet
    <2>3. QED
      BY <1>4, <2>2 DEF Sent
  <1>9. Queued' = [k \in 1 .. Fill' |-> Sends(At(k - 1)')]
    BY DEF Queued, Content
  <1> HIDE DEF f, Sends
  <1>10. /\ Queued \in Seq(Sent) /\ Len(Queued) = Fill
         /\ \A k \in 1 .. Fill : Queued[k] = Content(At(k - 1))
    BY QueuedType
  <1>11. ASSUME NEW k \in 1 .. Fill + 1
         PROVE  Sends(At(k - 1)') = IF k = Fill + 1 THEN f ELSE Queued[k]
    <2>1. k - 1 \in 0 .. N - 1 /\ At(k - 1)' = At(k - 1)
      BY <1>2, <1>3, TxConstants
    <2>2. CASE k = Fill + 1
      <3>1. k - 1 = Fill
        BY <1>3, <2>2
      <3>2. QED
        BY <1>2, <1>5, <2>1, <2>2, <3>1
    <2>3. CASE k # Fill + 1
      <3>1. At(k - 1) # txcur
        BY <1>2, <1>3, <2>1, <2>3, AtInjective
      <3>2. At(k - 1) \in Slot
        BY <2>1, AtType
      <3>3. k \in 1 .. Fill
        BY <1>3, <2>3
      <3>4. QED
        BY <1>6, <1>10, <2>1, <2>3, <3>1, <3>2, <3>3
    <2>4. QED
      BY <2>2, <2>3
  <1>12. Queued' = [k \in 1 .. Fill + 1 |-> IF k = Fill + 1 THEN f ELSE Queued[k]]
    BY <1>2, <1>9, <1>11
  <1>13. Append(Queued, f) = [k \in 1 .. Fill + 1 |-> IF k = Fill + 1 THEN f ELSE Queued[k]]
    BY <1>8, <1>10, AppendAsFunction
  <1>14. QED
    BY <1>2, <1>4, <1>7, <1>10, <1>12, <1>13 DEF Fifo!Accept

LEMMA FifoHandOn ==
  ASSUME TypeOK, dma \in Slot, RingOrder, DmaSend
  PROVE  Fifo!HandOn
  <1>1. /\ st[dma] > 0 /\ Fill > 0 /\ Fill' = Fill - 1
        /\ \A k \in 0 .. N - 2 : At(k)' = At(k + 1)
    BY SendFill
  <1>2. Fill \in 1 .. N /\ At(0) = dma
    BY <1>1, FillType, TxConstants DEF At, Slot
  <1>3. /\ Queued \in Seq(Sent) /\ Len(Queued) = Fill
        /\ \A k \in 1 .. Fill : Queued[k] = Content(At(k - 1))
    BY QueuedType
  <1>4. Queued # <<>> /\ Head(Queued) = Content(dma)
    <2>1. Queued[1] = Content(At(1 - 1))
      BY <1>2, <1>3
    <2>2. QED
      BY <1>2, <1>3, <2>1
  <1>5. Queued' = Tail(Queued)
    <2>1. Queued' = [k \in 1 .. Fill' |-> Content(At(k - 1)')]
      BY DEF Queued, Content, DmaSend
    <2>2. ASSUME NEW k \in 1 .. Fill - 1
          PROVE  Content(At(k - 1)') = Queued[k + 1]
      <3>1. k - 1 \in 0 .. N - 2 /\ k + 1 \in 1 .. Fill /\ (k + 1) - 1 = (k - 1) + 1
        BY <1>2, TxConstants
      <3>2. At(k - 1)' = At((k + 1) - 1)
        BY <1>1, <3>1
      <3>3. QED
        BY <1>3, <3>1, <3>2
    <2>3. Tail(Queued) = [k \in 1 .. Fill - 1 |-> Queued[k + 1]]
      BY <1>3, <1>4, TailAsFunction
    <2>4. QED
      BY <1>1, <2>1, <2>2, <2>3
  <1>6. wire' = Append(wire, Image(Head(Queued)))
    BY <1>1, <1>4 DEF DmaSend, Image
  <1>7. QED
    BY <1>4, <1>5, <1>6 DEF Fifo!HandOn

\* While a packet is being copied the queue does not see it.
LEMMA FifoCopy ==
  ASSUME TypeOK, dma \in Slot, RingOrder, Clean, EtxCopy
  PROVE  UNCHANGED <<Queued, wire>>
  <1>1. own[txcur] = 0
    BY NotLapped DEF EtxCopy, Sending
  <1>2. UNCHANGED <<own, st, txcur, dma, wire>>
        /\ buf' = [buf EXCEPT ![txcur][Place] = Part(pkt.seq, pkt.of, pkt.next)]
    BY DEF EtxCopy
  <1>3. Fill' = Fill /\ Fill \in 0 .. N /\ \A k \in 0 .. N - 1 : At(k)' = At(k)
    BY <1>2, FillType DEF Fill, At
  <1> DEFINE Sends(i) == [j \in 1 .. st'[i] |-> buf'[i][j]]
  <1>4. \A i \in Slot \ {txcur} : Sends(i) = Content(i)
    BY <1>2 DEF Content, TypeOK
  <1>5. Queued' = [k \in 1 .. Fill' |-> Sends(At(k - 1)')]
    BY DEF Queued, Content
  <1> HIDE DEF Sends
  <1>6. ASSUME NEW k \in 1 .. Fill
        PROVE  Sends(At(k - 1)') = Content(At(k - 1))
    <2>1. k - 1 \in 0 .. N - 1 /\ k - 1 < Fill
      BY <1>3, TxConstants
    <2>2. At(k - 1) \in Slot /\ own[At(k - 1)] = 1
      BY <2>1, AtType DEF RingOrder
    <2>3. QED
      BY <1>1, <1>3, <1>4, <2>1, <2>2
  <1>7. Queued' = Queued
    BY <1>3, <1>5, <1>6 DEF Queued
  <1>8. QED
    BY <1>2, <1>7

LEMMA FifoStep ==
  TypeOK /\ WholeInv /\ FifoInv /\ [Next]_vars
    => (seen' = {} => [Fifo!FifoNext]_(Fifo!fifoVars))
  <1> SUFFICES ASSUME TypeOK, WholeInv, FifoInv, [Next]_vars, seen' = {}
               PROVE  Fifo!FifoNext \/ UNCHANGED <<Queued, wire>>
    BY DEF Fifo!fifoVars
  <1>1. seen = {}
    BY DEF Next, vars, EtxBegin, Etx, EtxCopy, EtxPublish, EtxKick, Dma, DmaSend, DmaSuspend,
           Phy, PhyReset, PhyDescs, PhyFlush, PhyBase, PhyCursor, PhyStart
  <1>2. /\ phy.at = "poll" /\ dma \in Slot /\ (WalkOver \/ RingOrder)
        /\ Clean
    BY <1>1 DEF FifoInv, WholeInv, Unspoilt
  <1>3. CASE EtxBegin \/ EtxKick \/ DmaSuspend \/ UNCHANGED vars
    <2>1. UNCHANGED <<own, st, buf, txcur, dma, wire>>
      BY <1>3 DEF EtxBegin, EtxKick, DmaSuspend, vars
    <2>2. QED
      BY <2>1 DEF Queued, Content, Fill, At
  <1>4. CASE EtxCopy
    <2>1. RingOrder
      BY <1>2, <1>4 DEF WalkOver, EtxCopy
    <2>2. QED
      BY <1>2, <1>4, <2>1, FifoCopy
  <1>5. CASE EtxPublish
    <2>1. RingOrder
      BY <1>2, <1>5 DEF WalkOver, EtxPublish
    <2>2. QED
      BY <1>2, <1>5, <2>1, FifoAccept DEF Fifo!FifoNext
  <1>6. CASE DmaSend
    <2>1. CASE RingOrder
      BY <1>2, <1>6, <2>1, FifoHandOn DEF Fifo!FifoNext
    <2>2. CASE WalkOver
      <3>1. wire' = wire /\ Fill = 0 /\ Fill' = 0
        BY <1>2, <1>6, <2>2, WalkOn
      <3>2. Queued = <<>> /\ Queued' = <<>>
        BY <3>1 DEF Queued
      <3>3. QED
        BY <3>1, <3>2
    <2>3. QED
      BY <1>2, <2>1, <2>2
  <1>7. CASE Phy
    BY <1>2, <1>7 DEF Phy, PhyReset, PhyDescs, PhyFlush, PhyBase, PhyCursor, PhyStart, PhyAt
  <1>8. QED
    BY <1>3, <1>4, <1>5, <1>6, <1>7 DEF Next, Etx, Dma

(***************************************************************************)
(* ImplementsFifo: as long as none of the hazards of _emac_tx and of       *)
(* tx_descs_init is met, transmission is a bounded FIFO channel of N       *)
(* packets: the publishing of a descriptor appends one, the DMA takes the  *)
(* oldest.                                                                 *)
(***************************************************************************)
THEOREM TxRefinesFifo == Spec => ImplementsFifo
  <1>1. Init => Fifo!FifoInit
    BY FifoInitMap
  <1>2. Init => FifoInv
    BY FifoInvInit
  <1>3. TypeOK /\ WholeInv /\ FifoInv /\ [Next]_vars => FifoInv'
    BY FifoInvStep
  <1>4. TypeOK /\ WholeInv /\ FifoInv /\ [Next]_vars
          => (seen' = {} => [Fifo!FifoNext]_(Fifo!fifoVars))
    BY FifoStep
  <1>5. QED
    BY <1>1, <1>2, <1>3, <1>4, TypeCorrect, WholeSafe, PTL DEF Spec, ImplementsFifo
=============================================================================
