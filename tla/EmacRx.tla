------------------------------- MODULE EmacRx -------------------------------
(***************************************************************************)
(* Frame reception on the V3s EMAC: the receive half of                    *)
(* uboot/sun8i_emac.c and driver/drv_emac.c.                               *)
(*                                                                         *)
(* Three actors share a circular chain of N descriptors:                   *)
(*   - the receive DMA engine, which fills the descriptor at dmacur when   *)
(*     its own bit (BIT(31) of status) is set and clears the bit;          *)
(*   - the interrupt handler _enet_isr, which wakes the Ethernet receive   *)
(*     thread and only then acknowledges the interrupt;                    *)
(*   - the receive thread, which calls _emac_rx until it returns no pbuf;  *)
(*     _emac_rx reads the descriptor at rxcur (priv->rx_currdescnum),      *)
(*     allocates a pbuf, copies the frame and gives the descriptor back.   *)
(* The CPU is single: while the handler runs no thread does.               *)
(***************************************************************************)
EXTENDS Integers, Sequences

CONSTANTS
  N,             \* CONFIG_RX_DESCR_NUM
  MboxSize,      \* mailbox of the Ethernet receive thread
  Lengths,       \* values of the length field of status the MAC may write
  Allocs,        \* what pbuf_alloc may do: "pbuf" gives one, "null" fails
  MaxFrames      \* bound: frames the MAC accepts in a behaviour

LenMask   == 16383   \* 0x3FFF, the length field of status
MinLength == 64      \* 0x40, below it _sun8i_eth_recv calls the frame a runt
RxSize    == 2044    \* CONFIG_ETH_RXSIZE

ASSUME RxConstants ==
  /\ N \in Nat \ {0}
  /\ MboxSize \in Nat \ {0}
  /\ MaxFrames \in Nat

ASSUME RxLengths == \A l \in Lengths : l \in 0 .. LenMask

ASSUME RxAllocation == "pbuf" \in Allocs


VARIABLES
  own,      \* BIT(31) of status of every descriptor: 1 = the DMA's, 0 = the CPU's
  buf,      \* what the buffer and the length field of every descriptor hold
  dmacur,   \* descriptor the DMA engine uses next
  rxcur,    \* priv->rx_currdescnum
  wire,     \* frames the MAC has accepted so far
  rxp,      \* EMAC_INT_STA bit 8, the receive interrupt
  isr,      \* where _enet_isr is
  mbox,     \* messages naming this device in the receive thread's mailbox
  erx,      \* where the receive thread is
  held,     \* framepack and framelength of _emac_rx
  rcvd      \* history: the pbufs handed to the stack

vars == <<own, buf, dmacur, rxcur, wire, rxp, isr, mbox, erx, held, rcvd>>

Bit   == {0, 1}
Slot  == 0 .. N - 1
Null  == -1                                 \* framepack == RT_NULL
NoFrame == [seq |-> 0, len |-> 0]           \* an unwritten buffer
Frame == [seq : 1 .. MaxFrames, len : Lengths]
Descriptor == Frame \cup {NoFrame}
Holding == [ptr : Slot \cup {Null}, len : -1 .. LenMask]
Pbufs == [seq : 0 .. MaxFrames, len : -1 .. LenMask]

\* Fault: > for >= in the wrap-around.
SuccNoWrap(i) == IF i + 1 > N THEN 0 ELSE i + 1

\* Both cursors advance with the same wrap-around.
Succ(i) == IF i + 1 >= N THEN 0 ELSE i + 1

Init ==
  /\ own = [i \in Slot |-> 1]
  /\ buf = [i \in Slot |-> NoFrame]
  /\ dmacur = 0
  /\ rxcur = 0
  /\ wire = 0
  /\ rxp = 0
  /\ isr = "idle"
  /\ mbox = 0
  /\ erx = "wait"
  /\ held = [ptr |-> Null, len |-> 0]
  /\ rcvd = <<>>

-----------------------------------------------------------------------------
(* The MAC. A frame that finds no descriptor owned by the DMA is dropped   *)
(* in the FIFO of the MAC and never reaches this state.                    *)

DmaReceive ==
  /\ wire < MaxFrames
  /\ own[dmacur] = 1
  /\ \E l \in Lengths : buf' = [buf EXCEPT ![dmacur] = [seq |-> wire + 1, len |-> l]]
  /\ own' = [own EXCEPT ![dmacur] = 0]
  /\ dmacur' = Succ(dmacur)
  /\ wire' = wire + 1
  /\ rxp' = 1
  /\ UNCHANGED <<rxcur, isr, mbox, erx, held, rcvd>>

-----------------------------------------------------------------------------
(* _enet_isr: eth_device_ready posts to the mailbox, and fails without     *)
(* effect when the mailbox is full; the acknowledge is a second step       *)
(* because the MAC may accept a frame between the two.                     *)

IsrReady ==
  /\ rxp = 1
  /\ isr = "idle"
  /\ isr' = "ack"
  /\ mbox' = IF mbox < MboxSize THEN mbox + 1 ELSE mbox
  /\ UNCHANGED <<own, buf, dmacur, rxcur, wire, rxp, erx, held, rcvd>>

IsrAck ==
  /\ isr = "ack"
  /\ isr' = "idle"
  /\ rxp' = 0
  /\ UNCHANGED <<own, buf, dmacur, rxcur, wire, mbox, erx, held, rcvd>>

-----------------------------------------------------------------------------
(* The receive thread.                                                     *)

ErxWake ==
  /\ isr = "idle"
  /\ erx = "wait"
  /\ mbox > 0
  /\ mbox' = mbox - 1
  /\ erx' = "recv"
  /\ UNCHANGED <<own, buf, dmacur, rxcur, wire, rxp, isr, held, rcvd>>

\* Fault: the size test dropped.
RecvPacketAnySize(f) ==
  [ptr |-> IF f.len < MinLength THEN Null ELSE rxcur, len |-> f.len]

\* _sun8i_eth_recv: the length it returns and whether it set *packetp.
\* -1 stands for -EAGAIN and -EMSGSIZE.
RecvPacket(f) ==
  IF f.len > RxSize THEN [ptr |-> Null, len |-> -1]
  ELSE [ptr |-> IF f.len < MinLength THEN Null ELSE rxcur, len |-> f.len]

\* Fault: the own bit not tested.
RecvUnowned == RecvPacket(buf[rxcur])

Recv == IF own[rxcur] = 1 THEN [ptr |-> Null, len |-> -1] ELSE RecvPacket(buf[rxcur])

\* Fault: the descriptor given back before the copy.
ErxRecvReleases ==
  /\ isr = "idle"
  /\ erx = "recv"
  /\ held' = Recv
  /\ erx' = IF Recv.len <= 0 THEN "wait" ELSE "alloc"
  /\ own' = [own EXCEPT ![rxcur] = 1]
  /\ UNCHANGED <<buf, dmacur, rxcur, wire, rxp, isr, mbox, rcvd>>

\* framelength <= 0 leaves _emac_rx with RT_NULL, which ends the drain loop.
ErxRecv ==
  /\ isr = "idle"
  /\ erx = "recv"
  /\ held' = Recv
  /\ erx' = IF Recv.len <= 0 THEN "wait" ELSE "alloc"
  /\ UNCHANGED <<own, buf, dmacur, rxcur, wire, rxp, isr, mbox, rcvd>>

\* Fault: a frame that finds no pbuf is dropped.
ErxAllocFailDrops ==
  /\ isr = "idle"
  /\ erx = "alloc"
  /\ "null" \in Allocs
  /\ own' = [own EXCEPT ![rxcur] = 1]
  /\ rxcur' = Succ(rxcur)
  /\ erx' = "recv"
  /\ UNCHANGED <<buf, dmacur, wire, rxp, isr, mbox, held, rcvd>>

\* pbuf_alloc failed: the descriptor is not given back.
ErxAllocFail ==
  /\ isr = "idle"
  /\ erx = "alloc"
  /\ "null" \in Allocs
  /\ erx' = "wait"
  /\ UNCHANGED <<own, buf, dmacur, rxcur, wire, rxp, isr, mbox, held, rcvd>>

\* The pbuf a frame becomes; one filled through a null framepack has no
\* frame in it (seq 0).
Pbuf(ptr, len) == [seq |-> IF ptr = Null THEN 0 ELSE buf[ptr].seq, len |-> len]

\* Fault: the cursor advances, the own bit is not set.
ErxFreeKeepsOwn ==
  /\ isr = "idle"
  /\ erx = "alloc"
  /\ rcvd' = Append(rcvd, Pbuf(held.ptr, held.len))
  /\ rxcur' = Succ(rxcur)
  /\ erx' = "recv"
  /\ UNCHANGED <<own, buf, dmacur, wire, rxp, isr, mbox, held>>

\* Fault: one frame per wake-up.
ErxOneFrame ==
  /\ isr = "idle"
  /\ erx = "alloc"
  /\ rcvd' = Append(rcvd, Pbuf(held.ptr, held.len))
  /\ own' = [own EXCEPT ![rxcur] = 1]
  /\ rxcur' = Succ(rxcur)
  /\ erx' = "wait"
  /\ UNCHANGED <<buf, dmacur, wire, rxp, isr, mbox, held>>

\* The copy into the pbuf, _sun8i_free_pkt, and netif->input.
ErxCopyFree ==
  /\ isr = "idle"
  /\ erx = "alloc"
  /\ rcvd' = Append(rcvd, Pbuf(held.ptr, held.len))
  /\ own' = [own EXCEPT ![rxcur] = 1]
  /\ rxcur' = Succ(rxcur)
  /\ erx' = "recv"
  /\ UNCHANGED <<buf, dmacur, wire, rxp, isr, mbox, held>>

Erx == ErxWake \/ ErxRecv \/ ErxCopyFree

Next == DmaReceive \/ IsrReady \/ IsrAck \/ Erx \/ ErxAllocFail

Spec == Init /\ [][Next]_vars

\* The GIC delivers a pending enabled interrupt and a ready thread of higher
\* priority than the idle thread is scheduled; the network owes us nothing.
FairSpec == Spec /\ WF_vars(IsrReady \/ IsrAck) /\ WF_vars(Erx)

-----------------------------------------------------------------------------
(* The ring, read as a queue.                                              *)

\* The k-th descriptor counted from rxcur.
At(k) == IF rxcur + k < N THEN rxcur + k ELSE rxcur + k - N

\* How many descriptors lie between the two cursors. Equal cursors mean an
\* empty ring or a full one, and only the own bit tells which.
Fill ==
  IF rxcur < dmacur THEN dmacur - rxcur
  ELSE IF dmacur < rxcur THEN N - rxcur + dmacur
  ELSE IF own[rxcur] = 1 THEN 0 ELSE N

Pending == [k \in 1 .. Fill |-> buf[At(k - 1)]]

TypeOK ==
  /\ own \in [Slot -> Bit]
  /\ buf \in [Slot -> Descriptor]
  /\ dmacur \in Slot
  /\ rxcur \in Slot
  /\ wire \in 0 .. MaxFrames
  /\ rxp \in Bit
  /\ isr \in {"idle", "ack"}
  /\ mbox \in 0 .. MboxSize
  /\ erx \in {"wait", "recv", "alloc"}
  /\ held \in Holding
  /\ rcvd \in Seq(Pbufs)

(***************************************************************************)
(* RingOwnership: the descriptors the DMA does not own are exactly the     *)
(* ones from rxcur up to dmacur. _emac_rx looks at one descriptor only and *)
(* free_pkt gives back whichever one rxcur names, so a cursor that ran     *)
(* ahead or behind would strand every frame in between.                    *)
(***************************************************************************)
RingOwnership == \A k \in 0 .. N - 1 : own[At(k)] = 1 <=> k >= Fill

(***************************************************************************)
(* FramesInOrder: the k-th pbuf the stack gets carries the k-th frame the  *)
(* MAC accepted -- none lost, repeated or overtaken by allocation failures *)
(* or oversize frames in between -- and the rest wait in the ring in       *)
(* order. A pbuf without a frame in it stands for a runt and nothing else. *)
(***************************************************************************)
FramesInOrder ==
  /\ wire = Len(rcvd) + Fill
  /\ \A k \in 1 .. Fill : Pending[k].seq = Len(rcvd) + k
  /\ \A k \in 1 .. Len(rcvd) :
       IF rcvd[k].len < MinLength THEN rcvd[k].seq = 0 ELSE rcvd[k].seq = k

(***************************************************************************)
(* HeldIsHead: between _sun8i_eth_recv and _sun8i_free_pkt the frame being *)
(* copied stays the one at rxcur, and its descriptor stays the CPU's: the  *)
(* DMA cannot overwrite a buffer during the copy.                          *)
(***************************************************************************)
HeldIsHead ==
  erx = "alloc" =>
    /\ own[rxcur] = 0
    /\ held.len = buf[rxcur].len
    /\ held.ptr = IF held.len < MinLength THEN Null ELSE rxcur

\* The frame at rxcur is one _sun8i_eth_recv refuses.
Refused(f) == f.len = 0 \/ f.len > RxSize

\* The frame at rxcur is the one _emac_rx looked at last.
Taken == held.len > 0 /\ held = RecvPacket(buf[rxcur])

(***************************************************************************)
(* NoLostWakeup: whenever the receive thread sleeps on an empty mailbox    *)
(* with a frame at rxcur, an interrupt is still on its way -- or the frame *)
(* is one recv refuses (oversize or empty), or one that found no pbuf and  *)
(* waits for the next frame to arrive. The acknowledge that follows the    *)
(* wake-up clears interrupts of frames that arrived in between: the drain  *)
(* loop must find those.                                                   *)
(***************************************************************************)
NoLostWakeup ==
  erx = "wait" /\ mbox = 0 /\ rxp = 0 /\ Fill > 0
    => Refused(buf[rxcur]) \/ Taken

(***************************************************************************)
(* RefusedBlocks: a frame recv refuses is never given back, so nothing     *)
(* behind it is delivered and rxcur stays where it is.                     *)
(***************************************************************************)
RefusedBlocks ==
  [][own[rxcur] = 0 /\ Refused(buf[rxcur]) => UNCHANGED <<rxcur, rcvd>>]_vars

(***************************************************************************)
(* Drained: the stack gets every frame the MAC accepted, or the ring has   *)
(* come to stand at a frame recv refuses, or the thread went back to sleep *)
(* for want of a pbuf.                                                     *)
(***************************************************************************)
Drained ==
  \A n \in 1 .. MaxFrames :
    (wire >= n) ~> \/ Len(rcvd) >= n
                   \/ own[rxcur] = 0 /\ Refused(buf[rxcur])
                   \/ erx = "wait" /\ Taken

(***************************************************************************)
(* ImplementsFifo: reception is a bounded FIFO channel of N frames, of     *)
(* which a runt leaves as an empty pbuf (see RuntNotDelivered).            *)
(***************************************************************************)
Image(f) == [seq |-> IF f.len < MinLength THEN 0 ELSE f.seq, len |-> f.len]

Fifo == INSTANCE FrameFifo WITH
  Capacity <- N, Frame <- Frame, Image <- Image, queue <- Pending, out <- rcvd

ImplementsFifo == Fifo!FifoSpec

(***************************************************************************)
(* RuntNotDelivered: _sun8i_eth_recv marks a runt as a bad packet; no pbuf *)
(* goes up that no frame was copied into.                                  *)
(***************************************************************************)
RuntNotDelivered == \A k \in 1 .. Len(rcvd) : rcvd[k].seq # 0
=============================================================================
