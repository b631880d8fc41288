------------------------------- MODULE PhyLink -------------------------------
(***************************************************************************)
(* The mode of the Ethernet link: what uboot/phy.c makes the PHY           *)
(* advertise, what it reads of the negotiation, and the mode               *)
(* sun8i_adjust_link gives the MAC.                                        *)
(*                                                                         *)
(* The PHY negotiates on its own whenever a cable is plugged in.  The MAC  *)
(* is set up by _sun8i_emac_eth_init: at start-up and, from the link       *)
(* thread, after a DMA error.  A register of the PHY whose reading times   *)
(* out on the MDIO bus reads as all ones.                                  *)
(*                                                                         *)
(* The internal PHY has 10 and 100 Mbit/s; BMSR_ESTATEN is clear.          *)
(***************************************************************************)
EXTENDS Integers

CONSTANTS Own,        \* the modes the PHY has
          AfterReset, \* the modes it advertises after a reset
          Partners,   \* the sets of modes of the partners there are
          MaxPlugs,   \* bound: cables plugged in
          MaxStarts   \* bound: restarts after a DMA error

Modes == {"10HD", "10FD", "100HD", "100FD"}

ASSUME PhyLinkAssumption ==
    /\ Own \subseteq Modes /\ AfterReset \subseteq Own
    /\ \A modes \in Partners : modes \subseteq Modes /\ modes # {}
    /\ MaxPlugs \in Nat /\ MaxStarts \in Nat

VARIABLES lnkPartner, \* modes of the partner, none without a cable
          lnkUp,      \* BMSR_LSTATUS: the negotiation found a mode
          lnkAdv,     \* MII_ADVERTISE
          lnkLpa,     \* MII_LPA
          lnkPhydev,  \* phydev->speed and ->duplex
          lnkMac,     \* speed and duplex in EMAC_CTL0
          lnkPc,      \* where the driver is
          lnkSeen,    \* initlink of phy_thread_entry
          lnkPlugs, lnkStarts,
          lnkFailed,  \* history: the bus timed out while the MAC or the PHY was set up
          lnkFresh    \* history: negotiated before the MAC was set up, not after

lnkVars == <<lnkPartner, lnkUp, lnkAdv, lnkLpa, lnkPhydev, lnkMac, lnkPc, lnkSeen,
             lnkPlugs, lnkStarts, lnkFailed, lnkFresh>>

Mode(speed, full) == [speed |-> speed, full |-> full]

LnkInit ==
    /\ lnkPartner \in Partners \cup {{}}
    /\ lnkUp = 0 /\ lnkAdv = AfterReset /\ lnkLpa = {}
    /\ lnkPhydev = Mode(0, 0) /\ lnkMac = Mode(1000, 0)
    /\ lnkPc = "connect" /\ lnkSeen = 0
    /\ lnkPlugs = 0 /\ lnkStarts = 0 /\ lnkFailed = 0 /\ lnkFresh = 0

-----------------------------------------------------------------------------
(* The PHY and the cable.                                                  *)

phydrvVars == <<lnkPhydev, lnkMac, lnkPc, lnkSeen, lnkStarts, lnkFailed>>

Plug ==
    /\ lnkPartner = {} /\ lnkPlugs < MaxPlugs
    /\ lnkPartner' \in Partners
    /\ lnkPlugs' = lnkPlugs + 1
    /\ UNCHANGED <<phydrvVars, lnkUp, lnkAdv, lnkLpa, lnkFresh>>

Unplug ==
    /\ lnkPartner # {}
    /\ lnkPartner' = {} /\ lnkUp' = 0 /\ lnkLpa' = {} /\ lnkFresh' = 0
    /\ UNCHANGED <<phydrvVars, lnkAdv, lnkPlugs>>

Negotiate ==
    /\ lnkUp = 0 /\ lnkAdv \cap lnkPartner # {}
    /\ lnkUp' = 1 /\ lnkLpa' = lnkPartner
    /\ UNCHANGED <<phydrvVars, lnkPartner, lnkAdv, lnkPlugs, lnkFresh>>

\* The PHY negotiates anew.
Renegotiate == lnkUp' = 0 /\ lnkLpa' = {}

-----------------------------------------------------------------------------
(* Start-up: sun8i_phy_init.                                               *)

\* phy_reset of phy_connect and phy_connect_dev, which ignore its result.
Connect ==
    /\ lnkPc = "connect" /\ lnkPc' = "config"
    /\ \/ lnkAdv' = AfterReset /\ Renegotiate /\ UNCHANGED lnkFailed
       \/ lnkFailed' = 1 /\ UNCHANGED <<lnkAdv, lnkUp, lnkLpa>>
    /\ UNCHANGED <<lnkPartner, lnkPhydev, lnkMac, lnkSeen, lnkPlugs, lnkStarts, lnkFresh>>

\* genphy_restart_aneg
RestartAneg == Renegotiate

\* genphy_config: what the PHY has is what it advertises; the negotiation is
\* restarted if that changed.  A failure leaves everything as it is, or the
\* new advertisement without a restart.
Config ==
    /\ lnkPc = "config" /\ lnkPc' = "init"
    /\ \/ /\ lnkAdv' = Own
          /\ IF lnkAdv = Own THEN UNCHANGED <<lnkUp, lnkLpa>> ELSE RestartAneg
          /\ UNCHANGED lnkFailed
       \/ lnkFailed' = 1 /\ lnkAdv' \in {lnkAdv, Own} /\ UNCHANGED <<lnkUp, lnkLpa>>
    /\ UNCHANGED <<lnkPartner, lnkPhydev, lnkMac, lnkSeen, lnkPlugs, lnkStarts, lnkFresh>>

-----------------------------------------------------------------------------
(* _sun8i_emac_eth_init: genphy_parse_link and sun8i_adjust_link.          *)

\* Fault: the duplex of the last time is kept where it is not set to full.
ResolvedOld(common) ==
    LET fast == common \cap {"100HD", "100FD"} IN
    Mode(IF fast # {} THEN 100 ELSE 10,
         IF "100FD" \in common \/ (fast = {} /\ "10FD" \in common) THEN 1
         ELSE lnkPhydev.full)

Resolved(common) ==
    LET fast == common \cap {"100HD", "100FD"} IN
    Mode(IF fast # {} THEN 100 ELSE 10,
         IF "100FD" \in common \/ (fast = {} /\ "10FD" \in common) THEN 1 ELSE 0)

\* Both registers are read; a reading that fails has every bit.
ParseLink ==
    \/ lnkPhydev' = Resolved(lnkAdv \cap lnkLpa) /\ UNCHANGED lnkFailed
    \/ /\ \E common \in {lnkAdv, lnkLpa, Modes} : lnkPhydev' = Resolved(common)
       /\ lnkFailed' = 1

\* sun8i_adjust_link
AdjustLink == lnkMac' = lnkPhydev'

EthInit ==
    /\ lnkPc = "init" /\ lnkPc' = "poll"
    /\ ParseLink
    /\ AdjustLink
    /\ lnkFresh' = lnkUp
    /\ UNCHANGED <<lnkPartner, lnkUp, lnkAdv, lnkLpa, lnkSeen, lnkPlugs, lnkStarts>>

\* phy_thread_entry: the link is read, as down if the bus fails ...
PollLink ==
    /\ lnkPc = "poll" /\ lnkPc' = "status"
    /\ lnkSeen' \in {lnkUp, 0}
    /\ UNCHANGED <<lnkPartner, lnkUp, lnkAdv, lnkLpa, lnkPhydev, lnkMac,
                   lnkPlugs, lnkStarts, lnkFailed, lnkFresh>>

\* ... and the MAC set up again if there was a DMA error.
PollStatus ==
    /\ lnkPc = "status"
    /\ \/ lnkPc' = "poll" /\ UNCHANGED lnkStarts
       \/ lnkStarts < MaxStarts /\ lnkStarts' = lnkStarts + 1 /\ lnkPc' = "init"
    /\ UNCHANGED <<lnkPartner, lnkUp, lnkAdv, lnkLpa, lnkPhydev, lnkMac, lnkSeen,
                   lnkPlugs, lnkFailed, lnkFresh>>

LnkNext ==
    \/ Plug \/ Unplug \/ Negotiate
    \/ Connect \/ Config \/ EthInit \/ PollLink \/ PollStatus

LnkSpec == LnkInit /\ [][LnkNext]_lnkVars

-----------------------------------------------------------------------------
(* Properties *)

\* The order of 802.3: the mode two ends work in.
Best(modes) ==
    IF "100FD" \in modes THEN Mode(100, 1) ELSE IF "100HD" \in modes THEN Mode(100, 0)
    ELSE IF "10FD" \in modes THEN Mode(10, 1) ELSE Mode(10, 0)

\* A MAC that was set up on a link that is up, and has not gone down since,
\* works in the best mode both ends have -- however often it was set up before
\* for other partners -- unless the MDIO bus failed.
MacAsNegotiated ==
    lnkFresh = 1 /\ lnkUp = 1 /\ lnkFailed = 0 => lnkMac = Best(Own \cap lnkPartner)

\* "partner speed & duplex & pause (autoneg)" (include/phy.h): while the link
\* is reported to lwIP as up, and is, phydev has the speed of the partner.
PhydevAsPartner ==
    lnkPc = "status" /\ lnkSeen = 1 /\ lnkUp = 1 /\ lnkFailed = 0
       => lnkPhydev = Best(Own \cap lnkPartner)
=============================================================================
