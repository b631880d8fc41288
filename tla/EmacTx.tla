------------------------------- MODULE EmacTx -------------------------------
(***************************************************************************)
(* Frame transmission on the V3s EMAC: _emac_tx of driver/drv_emac.c and   *)
(* _sun8i_emac_eth_send, tx_descs_init of uboot/sun8i_emac.c.              *)
(*                                                                         *)
(* The transmit thread copies the pbufs of a packet one by one into the    *)
(* buffer of the descriptor at txcur; the call for the last pbuf publishes *)
(* the descriptor (length and own bit, one cache line), advances txcur and *)
(* starts the transmit DMA. The DMA sends from its own cursor as long as   *)
(* it finds the own bit set and suspends at the first descriptor without.  *)
(*                                                                         *)
(* After a DMA error the phy thread, of lower priority, sets the ring up   *)
(* anew (_sun8i_emac_eth_init): a packet may be sent between any two of    *)
(* its stores.                                                             *)
(*                                                                         *)
(* What the driver leaves to luck is named in "seen", so that the rest can *)
(* be stated:                                                              *)
(*   - it never looks at the own bit: a sender N frames ahead of the wire  *)
(*     writes into a frame still to be sent ("lapped");                    *)
(*   - tx_descs_init hands all descriptors, empty, to the DMA, which walks *)
(*     over them once started: a packet sent during that walk leaves the   *)
(*     two cursors apart ("early");                                        *)
(*   - a restart drops what is in the ring and sets the cursor back under  *)
(*     a packet sent in the meantime ("restart");                          *)
(*   - between the reset of the MAC and the store of the ring's address    *)
(*     the DMA may be started with no ring at all ("stray").               *)
(***************************************************************************)
EXTENDS Integers, Sequences

CONSTANTS
  N,          \* CONFIG_TX_DESCR_NUM
  MaxPbufs,   \* bound: pbufs in a packet
  MaxFrames,  \* bound: packets sent in a behaviour
  MaxRestarts \* bound: restarts of the MAC in a behaviour

ASSUME TxConstants ==
  /\ N \in Nat \ {0}
  /\ MaxPbufs \in Nat \ {0}
  /\ MaxFrames \in Nat
  /\ MaxRestarts \in Nat

VARIABLES
  own,     \* BIT(31) of status of every descriptor: 1 = the DMA's
  st,      \* the length in st, counted in pbufs; 0 = no data
  buf,     \* which pbuf of which packet every part of a buffer holds
  txcur,   \* priv->tx_currdescnum
  dma,     \* descriptor the DMA uses next, or Nowhere after a reset
  run,     \* whether the DMA is running or suspended
  phy,     \* the restart: where it is, the next descriptor, the descriptors
           \* written in the cache only, how many there were
  etx,     \* where the transmit thread is
  pkt,     \* the packet being sent: its number, its pbufs, the next pbuf
  wire,    \* history: what has gone out
  seen     \* history: which of the hazards above was met

vars == <<own, st, buf, txcur, dma, run, phy, etx, pkt, wire, seen>>

Slot == 0 .. N - 1
Nowhere == N
\* Fault: > for >= in the wrap-around.
SuccNoWrap(i) == IF i + 1 > N THEN 0 ELSE i + 1

Succ(i) == IF i + 1 >= N THEN 0 ELSE i + 1

\* The k-th of the pbufs of packet seq, and a part of a buffer never written.
Part(seq, of, k) == [seq |-> seq, of |-> of, k |-> k]
NoPart == Part(0, 0, 0)

\* What the DMA sends from descriptor i.
Content(i) == [k \in 1 .. st[i] |-> buf[i][k]]

\* A packet as the stack handed it over.
Packet(seq, of) == [k \in 1 .. of |-> Part(seq, of, k)]

Init ==
  /\ own = [i \in Slot |-> 1]
  /\ st = [i \in Slot |-> 0]
  /\ buf = [i \in Slot |-> [k \in 1 .. MaxPbufs |-> NoPart]]
  /\ txcur = 0 /\ dma = 0 /\ run = "running"
  /\ phy = [at |-> "poll", next |-> 0, dirty |-> {}, restarts |-> 0]
  /\ etx = "idle" /\ pkt = [seq |-> 0, of |-> 0, next |-> 1]
  /\ wire = <<>> /\ seen = {}

-----------------------------------------------------------------------------
(* The transmit thread. One packet is sent at a time.                      *)

InFlight(i) == own[i] = 1 /\ st[i] > 0
Walking == run = "running" /\ dma # Nowhere /\ own[dma] = 1 /\ st[dma] = 0

EtxBegin ==
  /\ etx = "idle"
  /\ pkt.seq < MaxFrames
  /\ \E n \in 1 .. MaxPbufs : pkt' = [seq |-> pkt.seq + 1, of |-> n, next |-> 1]
  /\ seen' = seen \cup {h \in {"lapped"} : InFlight(txcur)} \cup {h \in {"early"} : Walking}
  /\ etx' = "copy"
  /\ UNCHANGED <<own, st, buf, txcur, dma, run, phy, wire>>

\* Fault: offset not advanced.
PlaceNoOffset == 1

\* The part of the buffer the next pbuf goes to: offs of _emac_tx.
Place == pkt.next

\* Fault: the loop ends one pbuf early.
LastPbufShort == pkt.next + 1 >= pkt.of

LastPbuf == pkt.next >= pkt.of

\* memcpy at the offset of the pbuf, for both kinds of call; the call for the
\* last pbuf goes on to publish the descriptor.
EtxCopy ==
  /\ etx = "copy"
  /\ buf' = [buf EXCEPT ![txcur][Place] = Part(pkt.seq, pkt.of, pkt.next)]
  /\ pkt' = [pkt EXCEPT !.next = @ + 1]
  /\ etx' = IF LastPbuf THEN "publish" ELSE "copy"
  /\ UNCHANGED <<own, st, txcur, dma, run, phy, wire, seen>>

\* The descriptor is invalidated, written and flushed: what the restart had
\* put into the cache is gone.
EtxPublish ==
  /\ etx = "publish"
  /\ st' = [st EXCEPT ![txcur] = pkt.of]
  /\ own' = [own EXCEPT ![txcur] = 1]
  /\ phy' = [phy EXCEPT !.dirty = @ \ {txcur}]
  /\ txcur' = Succ(txcur)
  /\ etx' = "kick"
  /\ UNCHANGED <<buf, dma, run, pkt, wire, seen>>

\* Fault: BIT(31) or BIT(30) missing, the write starts nothing.
EtxKickLost ==
  /\ etx = "kick"
  /\ etx' = "idle"
  /\ UNCHANGED <<own, st, buf, txcur, dma, run, phy, pkt, wire, seen>>

\* EMAC_TX_CTL1 BIT(31) | BIT(30)
EtxKick ==
  /\ etx = "kick"
  /\ run' = "running"
  /\ seen' = seen \cup {h \in {"stray"} : dma = Nowhere}
  /\ etx' = "idle"
  /\ UNCHANGED <<own, st, buf, txcur, dma, phy, pkt, wire>>

-----------------------------------------------------------------------------
(* The restart, in the phy thread: nothing of it happens while a packet is *)
(* being sent.                                                             *)

PhyAt(at) == phy.at = at /\ etx = "idle"

\* The reset stops the DMA and clears its registers; on a timeout the function
\* returns, and nobody starts the DMA again before the next restart. If that
\* one finds the reset bit still set, it goes on without a reset of its own.
PhyReset ==
  /\ PhyAt("poll") \/ PhyAt("gaveup")
  /\ phy.restarts < MaxRestarts
  /\ \E at \in {"descs", "gaveup"} :
       phy' = [at |-> at, next |-> 0, dirty |-> {}, restarts |-> phy.restarts + 1]
  /\ \/ dma' = Nowhere /\ run' = "suspended"
     \/ phy.at = "gaveup" /\ phy'.at = "descs" /\ UNCHANGED <<dma, run>>
  /\ seen' = seen \cup {"restart"}
  /\ UNCHANGED <<own, st, buf, txcur, etx, pkt, wire>>

\* The loop of tx_descs_init, in the cache.
PhyDescs ==
  /\ PhyAt("descs")
  /\ phy' = [phy EXCEPT !.dirty = @ \cup {phy.next}, !.next = @ + 1,
                        !.at = IF phy.next + 1 = N THEN "flush" ELSE "descs"]
  /\ UNCHANGED <<own, st, buf, txcur, dma, run, etx, pkt, wire, seen>>

\* Fault: tx_descs_init does not set the lengths back.
LengthsKept == st

LengthsFlushed == [i \in Slot |-> IF i \in phy.dirty THEN 0 ELSE st[i]]

PhyFlush ==
  /\ PhyAt("flush")
  /\ own' = [i \in Slot |-> IF i \in phy.dirty THEN 1 ELSE own[i]]
  /\ st' = LengthsFlushed
  /\ phy' = [phy EXCEPT !.dirty = {}, !.at = "base"]
  /\ UNCHANGED <<buf, txcur, dma, run, etx, pkt, wire, seen>>

\* EMAC_TX_DMA_DESC
PhyBase ==
  /\ PhyAt("base")
  /\ dma' = 0
  /\ phy' = [phy EXCEPT !.at = "cursor"]
  /\ UNCHANGED <<own, st, buf, txcur, run, etx, pkt, wire, seen>>

PhyCursor ==
  /\ PhyAt("cursor")
  /\ txcur' = 0
  /\ phy' = [phy EXCEPT !.at = "start"]
  /\ UNCHANGED <<own, st, buf, dma, run, etx, pkt, wire, seen>>

PhyStart ==
  /\ PhyAt("start")
  /\ run' = "running"
  /\ phy' = [phy EXCEPT !.at = "poll"]
  /\ UNCHANGED <<own, st, buf, txcur, dma, etx, pkt, wire, seen>>

-----------------------------------------------------------------------------
(* The transmit DMA.                                                       *)

DmaSend ==
  /\ run = "running" /\ dma # Nowhere
  /\ own[dma] = 1
  /\ wire' = IF st[dma] > 0 THEN Append(wire, Content(dma)) ELSE wire
  /\ own' = [own EXCEPT ![dma] = 0]
  /\ dma' = Succ(dma)
  /\ UNCHANGED <<st, buf, txcur, run, phy, etx, pkt, seen>>

DmaSuspend ==
  /\ run = "running" /\ dma # Nowhere
  /\ own[dma] = 0
  /\ run' = "suspended"
  /\ UNCHANGED <<own, st, buf, txcur, dma, phy, etx, pkt, wire, seen>>

Etx == EtxCopy \/ EtxPublish \/ EtxKick
Dma == DmaSend \/ DmaSuspend
Phy == PhyReset \/ PhyDescs \/ PhyFlush \/ PhyBase \/ PhyCursor \/ PhyStart

Next == EtxBegin \/ Etx \/ Dma \/ Phy

Spec == Init /\ [][Next]_vars

\* A call of _emac_tx runs to its end, and so does the DMA; nobody has to
\* send a packet.
FairSpec == Spec /\ WF_vars(Etx) /\ WF_vars(Dma)

-----------------------------------------------------------------------------
(* The ring, read as a queue from the DMA's cursor.                        *)

At(k) == IF dma + k < N THEN dma + k ELSE dma + k - N

\* While the DMA still walks over the empty descriptors nothing is queued.
Fill ==
  IF st[dma] = 0 /\ own[dma] = 1 THEN 0
  ELSE IF dma < txcur THEN txcur - dma
  ELSE IF txcur < dma THEN N - dma + txcur
  ELSE IF own[dma] = 1 THEN N ELSE 0

Queued == [k \in 1 .. Fill |-> Content(At(k - 1))]

Whole(w) == \E seq \in 1 .. MaxFrames, of \in 1 .. MaxPbufs : w = Packet(seq, of)

(***************************************************************************)
(* WholeUnlessLapped: a packet goes out with all its pbufs and nothing     *)
(* else, as long as the sender never gets N packets ahead of the wire --   *)
(* even when the cursors came apart at the start, or the ring was set up   *)
(* anew under the packet.                                                  *)
(***************************************************************************)
Unspoilt == seen \cap {"lapped", "stray"} = {}

WholeUnlessLapped == Unspoilt => \A n \in 1 .. Len(wire) : Whole(wire[n])

(***************************************************************************)
(* OnceUnlessLapped: under the same condition no packet goes out twice:    *)
(* neither the length a descriptor keeps after it was sent nor a restart   *)
(* sends it again.                                                         *)
(***************************************************************************)
OnceUnlessLapped ==
  Unspoilt => \A m, n \in 1 .. Len(wire) : m # n => wire[m][1].seq # wire[n][1].seq

(***************************************************************************)
(* AllSent: with none of the hazards, every packet that reaches _emac_tx   *)
(* goes out.                                                               *)
(***************************************************************************)
AllSent ==
  \A n \in 1 .. MaxFrames : (pkt.seq >= n) ~> (Len(wire) >= n \/ seen # {})

(***************************************************************************)
(* ImplementsFifo: with none of the hazards, transmission is a bounded     *)
(* FIFO channel of N packets.                                              *)
(***************************************************************************)
Image(f) == f

Fifo == INSTANCE FrameFifo WITH
  Capacity <- N,
  Frame <- {Packet(s, n) : s \in 1 .. MaxFrames, n \in 1 .. MaxPbufs},
  Image <- Image, queue <- Queued, out <- wire

ImplementsFifo ==
  Fifo!FifoInit /\ [][seen' = {} => [Fifo!FifoNext]_(Fifo!fifoVars)]_vars
=============================================================================
