-------------------------------- MODULE Emac --------------------------------
(***************************************************************************)
(* The Ethernet device as a whole on its receive side: the ring of EmacRx  *)
(* together with the "phy" thread (phy_thread_entry of driver/drv_emac.c), *)
(* which polls the link and, after a DMA error, runs _sun8i_emac_eth_init  *)
(* again under the feet of the receive thread and of the DMA.              *)
(*                                                                         *)
(* Priorities decide the interleaving. The phy thread (28) is below the    *)
(* Ethernet threads: it moves only while the receive thread sleeps on its  *)
(* mailbox -- or is blocked inside pbuf_alloc, on the heap semaphore held  *)
(* by a thread of still lower priority ("block" \in Allocs).               *)
(***************************************************************************)
EXTENDS EmacRx

CONSTANTS
  MaxErrors,    \* bound: DMA errors in a behaviour
  MaxToggles,   \* bound: times the cable is plugged or pulled or miiphy_link fails
  Resets,       \* what the soft reset may do: "done" or "timeout"
  LinkReads     \* what miiphy_link may do: "ok", or "fail" on an MDIO timeout

VARIABLES
  phy,       \* where the phy thread is
  initlink,  \* its local: the link state it last reported
  rxdma,     \* whether the receive DMA is started (EMAC_RX_CTL1 BIT(30)): "on",
             \* "off", or "resetting" once a soft reset has timed out
  inten,     \* EMAC_INT_EN bit 8
  dirty,     \* descriptors rx_descs_init has re-owned in the cache only
  err,       \* EMAC_INT_STA bit 6
  cable,     \* the link the PHY sees
  req,       \* link_changed and link_status of the eth_device
  netlink,   \* the link the network interface believes in
  errors,    \* DMA errors so far
  toggles,   \* cable changes and failed readings of the link so far
  faults     \* history: what went wrong that nothing repairs: the ring was set
             \* up anew during a copy ("torn"), a frame was left in the ring for
             \* want of a pbuf ("starved")

phyVars ==
  <<phy, initlink, rxdma, inten, dirty, err, cable, req, netlink, errors, toggles, faults>>
allVars == <<vars, phyVars>>

EmacInit ==
  /\ Init
  /\ phy = "check"
  /\ initlink = 0
  /\ rxdma = "on"
  /\ inten = 1
  /\ dirty = {}
  /\ err = 0
  /\ cable \in Bit
  /\ req = [changed |-> 0, status |-> 0]
  /\ netlink \in Bit  \* as eth_device_init leaves it
  /\ errors = 0
  /\ toggles = 0
  /\ faults = {}

-----------------------------------------------------------------------------
(* The environment.                                                        *)

MacReceive ==
  /\ rxdma = "on"
  /\ cable = 1
  /\ DmaReceive
  /\ UNCHANGED phyVars

\* Of the receive DMA, or of the transmit DMA, which the next packet starts
\* even where a restart gave up.
DmaError ==
  /\ rxdma # "off"
  /\ errors < MaxErrors
  /\ errors' = errors + 1
  /\ err' = 1
  /\ UNCHANGED <<vars, phy, initlink, rxdma, inten, dirty, cable, req, netlink, toggles, faults>>

Cable ==
  /\ toggles < MaxToggles
  /\ toggles' = toggles + 1
  /\ cable' = 1 - cable
  /\ UNCHANGED <<vars, phy, initlink, rxdma, inten, dirty, err, req, netlink, errors, faults>>

-----------------------------------------------------------------------------
(* The interrupt handler and the receive thread: the steps of EmacRx, with *)
(* what they do to the state added here.                                   *)

Isr ==
  /\ (inten = 1 /\ IsrReady) \/ IsrAck
  /\ UNCHANGED phyVars

\* A message makes the receive thread apply a pending link change first.
Wake ==
  /\ ErxWake
  /\ netlink' = IF req.changed = 1 THEN req.status ELSE netlink
  /\ req' = [req EXCEPT !.changed = 0]
  /\ UNCHANGED <<phy, initlink, rxdma, inten, dirty, err, cable, errors, toggles, faults>>

\* _sun8i_eth_recv invalidates the descriptor before it reads it: a cached
\* write that was not flushed is lost.
ReceiveStep ==
  /\ ErxRecv \/ ErxCopyFree
  /\ dirty' = dirty \ {rxcur}
  /\ UNCHANGED <<phy, initlink, rxdma, inten, err, cable, req, netlink, errors, toggles, faults>>

AllocFail ==
  /\ ErxAllocFail
  /\ faults' = faults \cup {"starved"}
  /\ UNCHANGED <<phy, initlink, rxdma, inten, dirty, err, cable, req, netlink, errors, toggles>>

-----------------------------------------------------------------------------
(* The phy thread.                                                         *)

PhyRuns ==
  /\ isr = "idle"
  /\ \/ erx = "wait" /\ mbox = 0
     \/ erx = "alloc" /\ "block" \in Allocs

\* eth_device_linkchange
LinkChange(up) ==
  /\ req' = [changed |-> 1, status |-> up]
  /\ mbox' = IF mbox < MboxSize THEN mbox + 1 ELSE mbox

ringVars == <<own, buf, dmacur, rxcur, wire, rxp, isr, erx, held, rcvd>>
linkVars == <<initlink, cable, req, netlink, toggles>>

\* miiphy_link: what the PHY says, or no link when the bus fails.
LinkRead(link) ==
  \/ "ok" \in LinkReads /\ link = cable /\ UNCHANGED toggles
  \/ /\ "fail" \in LinkReads /\ link = 0
     /\ toggles < MaxToggles /\ toggles' = toggles + 1

\* Fault: initlink not updated.
PhyCheckForgets ==
  /\ phy = "check" /\ PhyRuns
  /\ \E link \in Bit :
       /\ LinkRead(link)
       /\ IF link # initlink THEN LinkChange(link) ELSE UNCHANGED <<req, mbox>>
  /\ phy' = "status"
  /\ UNCHANGED <<ringVars, initlink, rxdma, inten, dirty, err, cable, netlink, errors, faults>>

PhyCheck ==
  /\ phy = "check" /\ PhyRuns
  /\ \E link \in Bit :
       /\ LinkRead(link)
       /\ IF link # initlink THEN LinkChange(link) ELSE UNCHANGED <<req, mbox>>
       /\ initlink' = link
  /\ phy' = "status"
  /\ UNCHANGED <<ringVars, rxdma, inten, dirty, err, cable, netlink, errors, faults>>

\* Fault: the interrupts cleared whatever the status.
PhyStatusClears ==
  /\ phy = "status" /\ PhyRuns
  /\ phy' = IF err = 1 THEN "down" ELSE "check"
  /\ err' = 0
  /\ rxp' = 0
  /\ UNCHANGED <<own, buf, dmacur, rxcur, wire, isr, mbox, erx, held, rcvd>>
  /\ UNCHANGED <<linkVars, rxdma, inten, dirty, errors, faults>>

\* status & 0x40, then the write of 0xffff; otherwise back to sleep.
PhyStatus ==
  /\ phy = "status" /\ PhyRuns
  /\ phy' = IF err = 1 THEN "down" ELSE "check"
  /\ IF err = 1 THEN err' = 0 /\ rxp' = 0 ELSE UNCHANGED <<err, rxp>>
  /\ UNCHANGED <<own, buf, dmacur, rxcur, wire, isr, mbox, erx, held, rcvd>>
  /\ UNCHANGED <<linkVars, rxdma, inten, dirty, errors, faults>>

PhyDown ==
  /\ phy = "down" /\ PhyRuns
  /\ LinkChange(0)
  /\ phy' = "reset"
  /\ UNCHANGED <<ringVars, initlink, rxdma, inten, dirty, err, cable, netlink, errors, toggles, faults>>

\* _sun8i_emac_eth_init from here on. The soft reset clears the registers;
\* on a timeout the function returns and its result is ignored.
SoftReset ==
  /\ \/ "done" \in Resets /\ phy' = "descs" /\ rxdma' = "off"
     \/ "timeout" \in Resets /\ phy' = "check" /\ rxdma' = "resetting"
  /\ inten' = 0
  /\ err' = 0
  /\ rxp' = 0

\* There is no soft reset where the bit of one that timed out is still set.
ResetUnderWay ==
  /\ rxdma = "resetting"
  /\ phy' = "descs" /\ rxdma' = "off"
  /\ UNCHANGED <<inten, err, rxp>>

PhyReset ==
  /\ phy = "reset" /\ PhyRuns
  /\ SoftReset \/ ResetUnderWay
  /\ UNCHANGED <<own, buf, dmacur, rxcur, wire, isr, mbox, erx, held, rcvd>>
  /\ UNCHANGED <<linkVars, dirty, errors, faults>>

\* rx_descs_init: the loop writes the descriptors into the cache ...
PhyDescs ==
  /\ phy = "descs" /\ PhyRuns
  /\ dirty' = Slot
  /\ faults' = IF erx = "alloc" THEN faults \cup {"torn"} ELSE faults
  /\ phy' = "flush"
  /\ UNCHANGED <<ringVars, mbox, linkVars, rxdma, inten, err, errors>>

\* Fault: the descriptors are never flushed.
PhyFlushNothing ==
  /\ phy = "flush" /\ PhyRuns
  /\ dirty' = {}
  /\ phy' = "cursor"
  /\ UNCHANGED <<ringVars, mbox, linkVars, rxdma, inten, err, errors, faults>>

\* ... flush_dcache_range writes them to memory ...
PhyFlush ==
  /\ phy = "flush" /\ PhyRuns
  /\ own' = [i \in Slot |-> IF i \in dirty THEN 1 ELSE own[i]]
  /\ dirty' = {}
  /\ phy' = "cursor"
  /\ UNCHANGED <<buf, dmacur, rxcur, wire, rxp, isr, mbox, erx, held, rcvd>>
  /\ UNCHANGED <<linkVars, rxdma, inten, err, errors, faults>>

\* Fault: rx_currdescnum keeps its old value.
PhyCursorKept ==
  /\ phy = "cursor" /\ PhyRuns
  /\ dmacur' = 0
  /\ phy' = "start"
  /\ UNCHANGED <<own, buf, rxcur, wire, rxp, isr, mbox, erx, held, rcvd>>
  /\ UNCHANGED <<linkVars, rxdma, inten, dirty, err, errors, faults>>

\* Fault: rx_currdescnum gets the index the loop ended with.
PhyCursorLeftOver ==
  /\ phy = "cursor" /\ PhyRuns
  /\ dmacur' = 0
  /\ rxcur' = N
  /\ phy' = "start"
  /\ UNCHANGED <<own, buf, wire, rxp, isr, mbox, erx, held, rcvd>>
  /\ UNCHANGED <<linkVars, rxdma, inten, dirty, err, errors, faults>>

\* ... and both cursors go to the first descriptor.
PhyCursor ==
  /\ phy = "cursor" /\ PhyRuns
  /\ dmacur' = 0
  /\ rxcur' = 0
  /\ phy' = "start"
  /\ UNCHANGED <<own, buf, wire, rxp, isr, mbox, erx, held, rcvd>>
  /\ UNCHANGED <<linkVars, rxdma, inten, dirty, err, errors, faults>>

PhyStart ==
  /\ phy = "start" /\ PhyRuns
  /\ rxdma' = "on"
  /\ phy' = "enable"
  /\ UNCHANGED <<ringVars, mbox, linkVars, inten, dirty, err, errors, faults>>

\* Fault: EMAC_INT_EN not set again after the reset.
PhyEnableNothing ==
  /\ phy = "enable" /\ PhyRuns
  /\ phy' = "check"
  /\ UNCHANGED <<ringVars, mbox, linkVars, rxdma, inten, dirty, err, errors, faults>>

PhyEnable ==
  /\ phy = "enable" /\ PhyRuns
  /\ inten' = 1
  /\ phy' = "check"
  /\ UNCHANGED <<ringVars, mbox, linkVars, rxdma, dirty, err, errors, faults>>

Receiver == Wake \/ ReceiveStep
Restart ==
  PhyReset \/ PhyDescs \/ PhyFlush \/ PhyCursor \/ PhyStart \/ PhyEnable
Phy == PhyCheck \/ PhyStatus \/ PhyDown \/ Restart

EmacNext ==
  MacReceive \/ DmaError \/ Cable \/ Isr \/ Receiver \/ AllocFail \/ Phy

EmacSpec == EmacInit /\ [][EmacNext]_allVars

\* The threads and the handler make progress, and pbuf_alloc, if it blocks,
\* does not block for ever. The network, the cable and the errors owe nothing.
EmacFairSpec ==
  /\ EmacSpec
  /\ WF_allVars(Isr)
  /\ WF_allVars(Receiver)
  /\ WF_allVars(Phy)

-----------------------------------------------------------------------------

(***************************************************************************)
(* RingResynced: across any number of restarts, whenever the DMA runs the  *)
(* descriptors it does not own are the ones between the cursors. Nothing   *)
(* locks the ring between the two threads: if pbuf_alloc blocks and        *)
(* _sun8i_emac_eth_init comes in between, _sun8i_free_pkt gives back a     *)
(* descriptor that is the DMA's already and the ring is lost (torn).       *)
(***************************************************************************)
RingResynced == rxdma = "on" /\ "torn" \notin faults => RingOwnership

(***************************************************************************)
(* NeverBackwards: a restart drops the frames in the ring, but (unless the *)
(* ring is torn) the stack never gets a frame twice, nor one older than    *)
(* what it already has. (A runt goes up as a pbuf with no frame in it.)    *)
(***************************************************************************)
NeverBackwards ==
  "torn" \notin faults =>
    \A j, k \in 1 .. Len(rcvd) :
      j < k /\ rcvd[k].seq # 0 => rcvd[j].seq < rcvd[k].seq

(***************************************************************************)
(* NoWakeupLostInRestart: the restart clears pending interrupts twice (the *)
(* write of 0xffff and the soft reset), and enables them after it started  *)
(* the DMA; still no frame waits in a running ring without an interrupt, a *)
(* message or a busy receive thread.                                       *)
(***************************************************************************)
NoWakeupLostInRestart ==
  /\ faults \cap {"torn", "starved"} = {}
  /\ rxdma = "on" /\ phy \notin {"down", "reset"}
  /\ erx = "wait" /\ mbox = 0 /\ own[rxcur] = 0
  => rxp = 1 \/ Refused(buf[rxcur])

(***************************************************************************)
(* Resumes: a DMA error is always followed by a running DMA whose          *)
(* interrupts are enabled, or by a soft reset that times out -- and after  *)
(* that one the next error is again, whether the reset bit is clear by     *)
(* then or not.                                                            *)
(***************************************************************************)
Resumes ==
  (err = 1) ~> (err = 0 /\ ((rxdma = "on" /\ inten = 1) \/ rxdma = "resetting"))

(***************************************************************************)
(* LinkConverges: once the cable stays as it is, the network interface     *)
(* comes to believe what the PHY sees, and keeps believing it -- provided  *)
(* it was ever told of a link. The phy thread takes the link to be down    *)
(* when it starts, so it tells nothing to an interface that is up then and *)
(* never has a cable.                                                      *)
(***************************************************************************)
LinkConverges ==
  \A up \in Bit : <>[](cable = up) /\ <>(req.status = 1) => <>[](netlink = up)

(***************************************************************************)
(* LinkFollows: the same where no DMA error occurs, whatever the interface *)
(* believed at first and whatever the order in which the cable is pulled,  *)
(* the PHY polled and frames arrive.                                       *)
(***************************************************************************)
LinkFollows ==
  \A up \in Bit :
    <>[](cable = up /\ errors = 0) /\ <>(req.status = 1) => <>[](netlink = up)
=============================================================================
