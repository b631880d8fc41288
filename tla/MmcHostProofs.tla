---------------------------- MODULE MmcHostProofs ----------------------------
(***************************************************************************)
(* That sunxi_mmc_send_cmd succeeds only for a command the card completed, *)
(* that no word crosses from one command into another, and that the        *)
(* configuration remembered is the one set, for any number of polls, any   *)
(* FIFO and block size and any commands.                                   *)
(*                                                                         *)
(* The invariant says how far the controller is for every bit it has       *)
(* raised, as long as no clock update was given up, and that a read's      *)
(* words are counted: moved by the card, taken by the CPU or in the FIFO.  *)
(***************************************************************************)
EXTENDS MmcHost, TLAPS

Flag == {0, 1}
Waits == {"WaitCmd", "WaitData", "WaitBusy"}
InCommand == {"Fifo"} \cup Waits
InUpdate == {"Update", "IoOff", "IoOn"}
Config == [clock : Nat, width : Nat]

Types ==
    /\ pc \in {"Idle", "Reset", "Out"} \cup InCommand \cup InUpdate
    /\ hw \in {"Silent", "Response", "Data", "AutoStop", "Busy", "Done"}
    /\ kind \in Kind /\ id \in Nat /\ i \in Nat /\ moved \in Nat /\ error \in Flag
    /\ rint \subseteq IntBits \X Nat /\ fifo \in Seq(Nat)
    /\ update \in Flag /\ late \in Flag /\ fatal \in Flag
    /\ mci \in Config /\ want \in Config /\ regs \in Config

\* A read moves no more words than it has, and all of them before it is done.
Transferred ==
    /\ OwnWords
    /\ pc \in {"Idle", "IoOff", "IoOn"} => fifo = <<>>
    /\ pc = "Fifo" /\ kind \in Reads => moved >= i + Len(fifo)
    /\ pc \in Waits /\ kind \in Reads => moved >= Total(kind)
    /\ pc \in {"Out", "Idle"} /\ kind \in Reads => hw = "Silent" \/ moved >= Total(kind)
    /\ pc \in InUpdate \/ fatal = 1 => hw = "Silent"

Configured ==
    /\ pc \notin {"IoOff", "IoOn"} /\ fatal = 0 =>
          /\ mci.clock # 0 => regs.clock = mci.clock
          /\ regs.width = mci.width
    /\ pc = "IoOn" => regs.clock = want.clock

\* What the controller has done when it has raised a bit for the command, and
\* what it must have raised to stop.
Progress ==
    /\ rint \subseteq IntBits \X {id}
    /\ Raised("COMMAND_DONE") => hw # "Response"
    /\ Raised("DATA_OVER") => hw \in {"AutoStop", "Done", "Silent"}
    /\ Raised("DATA_OVER") /\ kind \notin Several => hw \in {"Done", "Silent"}
    /\ Raised("AUTO_COMMAND_DONE") => hw \in {"Done", "Silent"}
    /\ hw = "Silent" => Raised("ERROR")
    /\ hw = "Busy" => kind = "busy"
    /\ hw = "Data" => kind \in Data
    /\ hw = "AutoStop" => kind \in Several
    /\ hw \in {"Done", "AutoStop"} => moved = Total(kind)
    /\ kind \notin Data => i = 0 /\ moved = 0
    /\ error = 0 /\ update = 0

Answered ==
    late = 0 =>
       /\ update = 1 => pc \in InUpdate
       /\ pc = "Idle" => hw \in {"Silent", "Done"} /\ rint = {}
       /\ pc \in InCommand => Progress
       /\ pc \in Waits => i = Total(kind)
       /\ pc = "WaitData" => kind \in Data
       /\ pc = "WaitBusy" => hw \in {"Busy", "Done"} /\ kind = "busy"
       /\ pc = "Out" /\ error = 0 => hw = "Done" /\ i = Total(kind) /\ moved = Total(kind)
       /\ pc \in {"Reset", "Update"} => error = 1
       /\ pc = "Out" /\ error = 1 => hw = "Silent"

Inv == Types /\ Transferred /\ Configured /\ Answered

\* A bit raised is raised, and no other.
LEMMA Raising ==
    ASSUME NEW b, rint' = rint \cup Own(b)
    PROVE  /\ Raised(b)'
           /\ \A c : c # b => (Raised(c)' <=> Raised(c))
<1>1. <<b, id>> \in rint' /\ \A p \in rint' : p \in rint \/ p = <<b, id>>
  BY DEF Own
<1>2. rint \subseteq rint'
  OBVIOUS
<1> QED
  BY <1>1, <1>2 DEF Raised

\* Nothing is under way at start-up.
LEMMA InitInv == Init => Inv
BY DEF Init, Inv, Types, Transferred, OwnWords, Configured, Answered, Flag, Waits,
   InCommand, Config, Kind

\* The card accepts a command: the controller is past its response.
LEMMA RespondStep ==
    ASSUME Inv, Respond
    PROVE  Inv'
<1>1. Types'
  BY DEF Respond, cmdVars, ioVars, HwMoves, Inv, Types, Own, IntBits
<1>2. Transferred'
  BY DEF Respond, cmdVars, ioVars, HwMoves, Inv, Types, Transferred, OwnWords
<1>3. Configured'
  BY DEF Respond, ioVars, HwMoves, Inv, Types, Configured
<1>4. Answered'
  BY HostAssumption, Raising DEF Respond, cmdVars, ioVars, HwMoves, Inv, Types,
     Answered, Progress, Flag, Own, Total, IntBits
<1> QED
  BY <1>1, <1>2, <1>3, <1>4 DEF Inv

\* An error is raised, and the controller falls silent.
LEMMA FailStep ==
    ASSUME Inv, Fail
    PROVE  Inv'
<1>1. Types'
  BY DEF Fail, cmdVars, ioVars, HwMoves, Inv, Types, Own, IntBits
<1>2. Transferred'
  BY DEF Fail, cmdVars, HwMoves, Inv, Types, Transferred, OwnWords
<1>3. Configured'
  BY DEF Fail, ioVars, HwMoves, Inv, Types, Configured
<1>4. Answered'
  BY Raising DEF Fail, cmdVars, HwMoves, Inv, Types, Answered, Progress, Own, IntBits
<1> QED
  BY <1>1, <1>2, <1>3, <1>4 DEF Inv

\* A word moved is counted, and is the command's own.
LEMMA MoveStep ==
    ASSUME Inv, Move
    PROVE  Inv'
<1>1. Types'
  <2>1. fifo' \in Seq(Nat)
    <3>1. CASE kind \in Reads
      BY <3>1 DEF Move, Inv, Types
    <3>2. CASE kind \notin Reads
      <4>1. fifo \in Seq(Nat) /\ fifo # <<>> /\ fifo' = Tail(fifo)
        BY <3>2 DEF Move, Inv, Types
      <4> QED
        BY <4>1
    <3> QED
      BY <3>1, <3>2
  <2>2. moved' \in Nat
    BY DEF Move, Inv, Types
  <2> QED
    BY <2>1, <2>2 DEF Move, Inv, Types, HwMoves, cmdVars, ioVars
<1>2. Transferred'
  <2>1. /\ moved < Total(kind) /\ moved' = moved + 1
        /\ UNCHANGED <<pc, cmdVars, hw, fatal>> /\ hw = "Data"
    BY DEF Move, HwMoves, ioVars
  <2>2. /\ fifo \in Seq(Nat) /\ moved \in Nat /\ id \in Nat /\ i \in Nat
        /\ Total(kind) \in Nat
    BY HostAssumption DEF Inv, Types, Total
  <2>3. pc \notin {"Idle", "IoOff", "IoOn"}
    <3>1. pc \notin InUpdate /\ (pc = "Idle" => kind \notin Reads /\ fifo = <<>>)
      BY <2>1, <2>2 DEF Inv, Transferred, InUpdate
    <3>2. kind \notin Reads => fifo # <<>>
      BY DEF Move
    <3> QED
      BY <2>1, <3>1, <3>2 DEF InUpdate
  <2>4. CASE kind \in Reads
    <3>1. fifo' = Append(fifo, id)
      BY <2>4 DEF Move
    <3>2. /\ Len(fifo') = Len(fifo) + 1
          /\ \A j \in DOMAIN fifo' : (j \in DOMAIN fifo /\ fifo'[j] = fifo[j]) \/ fifo'[j] = id
      BY <2>2, <3>1
    <3> QED
      BY <2>1, <2>2, <2>3, <3>2 DEF Inv, Transferred, OwnWords, cmdVars
  <2>5. CASE kind \notin Reads
    <3>1. fifo # <<>> /\ fifo' = Tail(fifo)
      BY <2>5 DEF Move
    <3>2. \A j \in DOMAIN fifo' : j + 1 \in DOMAIN fifo /\ fifo'[j] = fifo[j + 1]
      BY <2>2, <3>1
    <3> QED
      BY <2>1, <2>2, <2>3, <2>5, <3>2 DEF Inv, Transferred, OwnWords, cmdVars, InUpdate
  <2> QED
    BY <2>4, <2>5
<1>3. Configured'
  BY DEF Move, ioVars, HwMoves, Inv, Types, Configured
<1>4. Answered'
  BY DEF Move, cmdVars, HwMoves, Inv, Types, Transferred, Answered, Progress, Raised
<1> QED
  BY <1>1, <1>2, <1>3, <1>4 DEF Inv

\* The end of the data is raised when all words have moved.
LEMMA DataOverStep ==
    ASSUME Inv, DataOver
    PROVE  Inv'
<1>1. Types'
  BY DEF DataOver, cmdVars, ioVars, HwMoves, Inv, Types, Own, IntBits
<1>2. Transferred'
  BY DEF DataOver, cmdVars, ioVars, HwMoves, Inv, Types, Transferred, OwnWords
<1>3. Configured'
  BY DEF DataOver, ioVars, HwMoves, Inv, Types, Configured
<1>4. Answered'
  <2>1. /\ hw = "Data" /\ moved = Total(kind)
        /\ hw' = IF kind \in Several THEN "AutoStop" ELSE "Done"
        /\ rint' = rint \cup Own("DATA_OVER")
        /\ UNCHANGED <<pc, kind, id, i, error, moved, update, late>>
    BY DEF DataOver, HwMoves, cmdVars
  <2>2. Raised("DATA_OVER")' /\ \A b : b # "DATA_OVER" => (Raised(b)' <=> Raised(b))
    BY <2>1, Raising
  <2>3. Progress => Progress'
    <3>1. rint \subseteq IntBits \X {id} => rint' \subseteq IntBits \X {id}'
      BY <2>1 DEF Own, IntBits
    <3> QED
      BY <2>1, <2>2, <3>1 DEF Progress, Several, Data
  <2> QED
    BY <2>1, <2>3 DEF Inv, Types, Answered, Waits, InCommand
<1> QED
  BY <1>1, <1>2, <1>3, <1>4 DEF Inv

\* The end of the automatic stop command is raised last.
LEMMA AutoStopStep ==
    ASSUME Inv, AutoStop
    PROVE  Inv'
<1>1. Types'
  BY DEF AutoStop, cmdVars, ioVars, HwMoves, Inv, Types, Own, IntBits
<1>2. Transferred'
  BY DEF AutoStop, cmdVars, ioVars, HwMoves, Inv, Types, Transferred, OwnWords
<1>3. Configured'
  BY DEF AutoStop, ioVars, HwMoves, Inv, Types, Configured
<1>4. Answered'
  BY Raising DEF AutoStop, cmdVars, HwMoves, Inv, Types, Answered, Progress, Own, IntBits
<1> QED
  BY <1>1, <1>2, <1>3, <1>4 DEF Inv

\* The card is no longer busy.
LEMMA BusyOverStep ==
    ASSUME Inv, BusyOver
    PROVE  Inv'
<1>1. Types'
  BY DEF BusyOver, cmdVars, ioVars, HwMoves, Inv, Types
<1>2. Transferred'
  BY DEF BusyOver, cmdVars, ioVars, HwMoves, Inv, Types, Transferred, OwnWords
<1>3. Configured'
  BY DEF BusyOver, ioVars, HwMoves, Inv, Types, Configured
<1>4. Answered'
  BY DEF BusyOver, cmdVars, HwMoves, Inv, Types, Transferred, Answered, Progress,
     Several, Data, Total
<1> QED
  BY <1>1, <1>2, <1>3, <1>4 DEF Inv

\* A clock update ends with bits of no command, while the driver waits for it.
LEMMA UpdateDoneStep ==
    ASSUME Inv, UpdateDone
    PROVE  Inv'
<1>1. Types'
  <2>1. PICK bs \in SUBSET (IntBits \ {"ERROR"}) : rint' = rint \cup (bs \X {0})
    BY DEF UpdateDone
  <2>2. rint' \subseteq IntBits \X Nat
    BY <2>1 DEF Inv, Types
  <2> QED
    BY <2>2 DEF UpdateDone, Inv, Types, Flag, HwMoves, hwVars, cmdVars, ioVars
<1>2. Transferred'
  BY DEF UpdateDone, cmdVars, hwVars, ioVars, HwMoves, Inv, Types, Transferred, OwnWords
<1>3. Configured'
  BY DEF UpdateDone, ioVars, HwMoves, Inv, Types, Configured
<1>4. Answered'
  BY DEF UpdateDone, cmdVars, HwMoves, Inv, Types, Transferred, Answered, InCommand,
     InUpdate, Waits
<1> QED
  BY <1>1, <1>2, <1>3, <1>4 DEF Inv

\* mmc_trans_data_by_cpu takes a word of its own command, or gives up.
LEMMA CpuTransferStep ==
    ASSUME Inv, CpuTransfer
    PROVE  Inv'
<1>1. Types'
  <2>1. fifo' \in Seq(Nat)
    <3>1. fifo \in Seq(Nat) /\ id \in Nat
      BY DEF Inv, Types
    <3>2. CASE i < Total(kind) /\ FifoReady /\ kind \in Reads /\ fifo' = Tail(fifo)
      <4>1. fifo # <<>>
        BY <3>2 DEF FifoReady
      <4> QED
        BY <3>1, <3>2, <4>1
    <3>3. CASE fifo' = Append(fifo, id)
      BY <3>1, <3>3
    <3>4. CASE fifo' = fifo
      BY <3>1, <3>4
    <3> QED
      BY <3>2, <3>3, <3>4 DEF CpuTransfer
  <2>2. i' \in Nat /\ error' \in Flag /\ pc' \in {"Fifo", "WaitCmd", "Reset"}
    BY DEF CpuTransfer, Inv, Types, Flag
  <2> QED
    BY <2>1, <2>2 DEF CpuTransfer, Inv, Types, ioVars, InCommand, Waits
<1>2. Transferred'
  <2>1. /\ pc = "Fifo" /\ fifo \in Seq(Nat) /\ id \in Nat /\ i \in Nat /\ moved \in Nat
        /\ UNCHANGED <<kind, id, hw, moved, fatal>>
    BY DEF CpuTransfer, Inv, Types, ioVars
  <2>2. CASE i = Total(kind) /\ pc' = "WaitCmd" /\ UNCHANGED <<i, fifo>>
    BY <2>1, <2>2 DEF Inv, Transferred, OwnWords, Waits, InUpdate
  <2>3. CASE i < Total(kind) /\ FifoReady /\ i' = i + 1 /\ UNCHANGED pc
    <3>1. CASE kind \in Reads
      <4>1. fifo # <<>> /\ fifo' = Tail(fifo)
        BY <2>1, <2>3, <3>1 DEF CpuTransfer, FifoReady
      <4>2. /\ Len(fifo') = Len(fifo) - 1
            /\ \A j \in DOMAIN fifo' : j + 1 \in DOMAIN fifo /\ fifo'[j] = fifo[j + 1]
        BY <2>1, <4>1
      <4> QED
        BY <2>1, <2>3, <4>2 DEF Inv, Transferred, OwnWords, Waits, InUpdate
    <3>2. CASE kind \notin Reads
      <4>1. fifo' = Append(fifo, id)
        BY <2>1, <2>3, <3>2 DEF CpuTransfer
      <4>2. \A j \in DOMAIN fifo' : (j \in DOMAIN fifo /\ fifo'[j] = fifo[j]) \/ fifo'[j] = id
        BY <2>1, <4>1
      <4> QED
        BY <2>1, <2>3, <3>2, <4>2 DEF Inv, Transferred, OwnWords, Waits, InUpdate
    <3> QED
      BY <3>1, <3>2
  <2>4. CASE UNCHANGED <<pc, i, fifo>>
    BY <2>1, <2>4 DEF Inv, Transferred, OwnWords, Waits, InUpdate
  <2>5. CASE pc' = "Reset" /\ UNCHANGED <<i, fifo>>
    BY <2>1, <2>5 DEF Inv, Transferred, OwnWords, Waits, InUpdate
  <2> QED
    BY <2>2, <2>3, <2>4, <2>5 DEF CpuTransfer
<1>3. Configured'
  BY DEF CpuTransfer, ioVars, Inv, Types, Configured
<1>4. Answered'
  BY DEF CpuTransfer, Inv, Types, Transferred, Answered, Progress, Raised, InCommand,
     Waits, Total
<1> QED
  BY <1>1, <1>2, <1>3, <1>4 DEF Inv

\* mmc_rint_wait for the response.
LEMMA WaitCmdStep ==
    ASSUME Inv, WaitCmd
    PROVE  Inv'
<1>1. Types'
  BY DEF WaitCmd, RintWait, hwVars, ioVars, WaitVars, Inv, Types, Flag, InCommand, Waits
<1>2. Transferred'
  BY DEF WaitCmd, RintWait, hwVars, ioVars, WaitVars, Inv, Types, Transferred, OwnWords,
     InUpdate, Waits
<1>3. Configured'
  BY DEF WaitCmd, RintWait, ioVars, WaitVars, Inv, Types, Configured
<1>4. Answered'
  BY DEF WaitCmd, RintWait, hwVars, WaitVars, Inv, Types, Transferred, Answered,
     Progress, Raised, InCommand, Waits, Data
<1> QED
  BY <1>1, <1>2, <1>3, <1>4 DEF Inv

\* mmc_rint_wait for the end of the data, or of the stop command.
LEMMA WaitDataStep ==
    ASSUME Inv, WaitData
    PROVE  Inv'
<1>1. Types'
  BY DEF WaitData, RintWait, hwVars, ioVars, WaitVars, Inv, Types, Flag
<1>2. Transferred'
  BY DEF WaitData, RintWait, hwVars, ioVars, WaitVars, Inv, Types, Transferred,
     OwnWords, InUpdate, Waits
<1>3. Configured'
  BY DEF WaitData, RintWait, ioVars, WaitVars, Inv, Types, Configured
<1>4. Answered'
  BY DEF WaitData, RintWait, DoneBit, hwVars, WaitVars, Inv, Types, Transferred,
     Answered, Progress, Raised, InCommand, Waits
<1> QED
  BY <1>1, <1>2, <1>3, <1>4 DEF Inv

\* The wait for a busy card.
LEMMA WaitBusyStep ==
    ASSUME Inv, WaitBusy
    PROVE  Inv'
<1>1. Types'
  BY DEF WaitBusy, hwVars, ioVars, WaitVars, Inv, Types, Flag
<1>2. Transferred'
  BY DEF WaitBusy, hwVars, ioVars, WaitVars, Inv, Types, Transferred, OwnWords,
     InUpdate, Waits
<1>3. Configured'
  BY DEF WaitBusy, ioVars, WaitVars, Inv, Types, Configured
<1>4. Answered'
  BY DEF WaitBusy, hwVars, WaitVars, Inv, Types, Transferred, Answered, Progress,
     Raised, InCommand, Waits
<1> QED
  BY <1>1, <1>2, <1>3, <1>4 DEF Inv

\* The reset of the controller after an error.
LEMMA ResetAfterErrorStep ==
    ASSUME Inv, ResetAfterError
    PROVE  Inv'
<1>1. Types'
  BY DEF ResetAfterError, cmdVars, ioVars, Inv, Types, Flag, InUpdate
<1>2. Transferred'
  BY DEF ResetAfterError, Inv, Types, Transferred, OwnWords, Waits
<1>3. Configured'
  BY DEF ResetAfterError, ioVars, Inv, Types, Configured
<1>4. Answered'
  BY DEF ResetAfterError, cmdVars, Inv, Types, Transferred, Answered, InCommand,
     InUpdate, Waits
<1> QED
  BY <1>1, <1>2, <1>3, <1>4 DEF Inv

\* The clock update after a reset, waited for or given up.
LEMMA UpdateAfterResetStep ==
    ASSUME Inv, UpdateAfterReset
    PROVE  Inv'
<1>1. Types'
  BY DEF UpdateAfterReset, cmdVars, hwVars, ioVars, Inv, Types
<1>2. Transferred'
  BY DEF UpdateAfterReset, hwVars, Inv, Types, Transferred, OwnWords, InUpdate, Waits
<1>3. Configured'
  BY DEF UpdateAfterReset, ioVars, Inv, Types, Configured
<1>4. Answered'
  BY DEF UpdateAfterReset, cmdVars, hwVars, Inv, Types, Transferred, Answered,
     InCommand, Waits
<1> QED
  BY <1>1, <1>2, <1>3, <1>4 DEF Inv

\* The interrupts are cleared and the FIFO is emptied: nothing is left behind.
LEMMA OutStep ==
    ASSUME Inv, Out
    PROVE  Inv'
<1>1. Types'
  BY DEF Out, cmdVars, ioVars, Inv, Types
<1>2. Transferred'
  BY DEF Out, cmdVars, ioVars, Inv, Types, Transferred, OwnWords, InUpdate, Waits
<1>3. Configured'
  BY DEF Out, ioVars, Inv, Types, Configured
<1>4. Answered'
  BY DEF Out, Inv, Types, Transferred, Answered, Flag, InCommand, InUpdate, Waits
<1> QED
  BY <1>1, <1>2, <1>3, <1>4 DEF Inv

\* mmc_config_clock, the clock gated.
LEMMA IoOffStep ==
    ASSUME Inv, IoOff
    PROVE  Inv'
<1>1. Types'
  BY DEF IoOff, IoFails, IoGivesUp, IoPolls, cmdVars, hwVars, Inv, Types, Flag, Config,
     InUpdate
<1>2. Transferred'
  BY DEF IoOff, IoFails, IoGivesUp, IoPolls, hwVars, Inv, Types, Transferred, OwnWords,
     InUpdate, Waits
<1>3. Configured'
  BY DEF IoOff, IoFails, IoGivesUp, IoPolls, Inv, Types, Configured, Config
<1>4. Answered'
  BY DEF IoOff, IoFails, IoGivesUp, IoPolls, hwVars, Inv, Types, Transferred, Answered,
     InCommand, InUpdate, Waits
<1> QED
  BY <1>1, <1>2, <1>3, <1>4 DEF Inv

\* mmc_config_clock, the clock running again.
LEMMA IoOnStep ==
    ASSUME Inv, IoOn
    PROVE  Inv'
<1>1. Types'
  BY DEF IoOn, IoFails, IoGivesUp, IoPolls, cmdVars, hwVars, Inv, Types, Config
<1>2. Transferred'
  BY DEF IoOn, IoFails, IoGivesUp, IoPolls, hwVars, Inv, Types, Transferred, OwnWords,
     InUpdate, Waits
<1>3. Configured'
  BY DEF IoOn, IoFails, IoGivesUp, IoPolls, Inv, Types, Configured, Config
<1>4. Answered'
  BY DEF IoOn, IoGivesUp, IoPolls, hwVars, Inv, Types, Transferred, Answered, InCommand,
     Waits
<1> QED
  BY <1>1, <1>2, <1>3, <1>4 DEF Inv

\* sunxi_mmc_send_cmd begins with no bit raised and an empty FIFO.
LEMMA SendCmdStep ==
    ASSUME Inv, NEW k \in Kinds, SendCmd(k)
    PROVE  Inv'
<1>1. Types'
  BY HostAssumption DEF SendCmd, ioVars, Inv, Types, Flag, InCommand, Waits
<1>2. Transferred'
  BY DEF SendCmd, ioVars, Inv, Types, Transferred, OwnWords, InUpdate, Waits, Several,
     Data, Total
<1>3. Configured'
  BY DEF SendCmd, ioVars, Inv, Types, Configured
<1>4. Answered'
  BY DEF SendCmd, Inv, Types, Transferred, Answered, Progress, Raised, Flag, InCommand,
     InUpdate, Waits, Total
<1> QED
  BY <1>1, <1>2, <1>3, <1>4 DEF Inv

\* mmc_mci_set_iocfg with another clock resets the controller.
LEMMA NewClockStep ==
    ASSUME Inv, NEW c \in Clocks, NEW w \in Widths, NewClock(c, w)
    PROVE  Inv'
<1>1. Types'
  <2>1. c \in Nat /\ w \in Nat
    BY HostAssumption
  <2>2. mci' \in Config /\ want' \in Config /\ regs' \in Config
    BY <2>1 DEF NewClock, Inv, Types, Config
  <2> QED
    BY <2>2 DEF NewClock, cmdVars, Inv, Types, Flag, InUpdate
<1>2. Transferred'
  BY DEF NewClock, Inv, Types, Transferred, OwnWords, Waits
<1>3. Configured'
  BY DEF NewClock, Inv, Types, Configured, Config
<1>4. Answered'
  BY DEF NewClock, Inv, Types, Transferred, Answered, InCommand, InUpdate, Waits
<1> QED
  BY <1>1, <1>2, <1>3, <1>4 DEF Inv

\* mmc_mci_set_iocfg with another width only.
LEMMA NewWidthStep ==
    ASSUME Inv, NEW w \in Widths, NewWidth(w)
    PROVE  Inv'
<1>1. Types'
  <2>1. w \in Nat
    BY HostAssumption
  <2>2. mci' \in Config /\ regs' \in Config
    BY <2>1 DEF NewWidth, Inv, Types, Config
  <2> QED
    BY <2>2 DEF NewWidth, cmdVars, hwVars, Inv, Types
<1>2. Transferred'
  BY DEF NewWidth, cmdVars, hwVars, Inv, Types, Transferred, OwnWords
<1>3. Configured'
  BY DEF NewWidth, Inv, Types, Configured
<1>4. Answered'
  BY DEF NewWidth, hwVars, Inv, Types, Transferred, Answered, InCommand, Waits
<1> QED
  BY <1>1, <1>2, <1>3, <1>4 DEF Inv

\* No step of the controller, the driver or the block layer breaks the
\* invariant.
LEMMA NextInv == Inv /\ [Next]_vars => Inv'
<1> SUFFICES ASSUME Inv, [Next]_vars PROVE Inv'
  OBVIOUS
<1>1. CASE Controller
  BY <1>1, RespondStep, FailStep, MoveStep, DataOverStep, AutoStopStep, BusyOverStep,
     UpdateDoneStep DEF Controller
<1>2. CASE Driver
  BY <1>2, CpuTransferStep, WaitCmdStep, WaitDataStep, WaitBusyStep, ResetAfterErrorStep,
     UpdateAfterResetStep, OutStep, IoOffStep, IoOnStep DEF Driver
<1>3. CASE Caller
  BY <1>3, SendCmdStep, NewClockStep, NewWidthStep DEF Caller
<1>4. CASE UNCHANGED vars
  <2>1. Types'
    BY <1>4 DEF vars, cmdVars, hwVars, ioVars, Inv, Types
  <2>2. Transferred' /\ Configured'
    BY <1>4 DEF vars, cmdVars, hwVars, ioVars, Inv, Transferred, OwnWords, Configured
  <2>3. Answered'
    BY <1>4 DEF vars, cmdVars, hwVars, ioVars, Inv, Answered, Progress, Raised
  <2> QED
    BY <2>1, <2>2, <2>3 DEF Inv
<1> QED
  BY <1>1, <1>2, <1>3, <1>4 DEF Next

\* It holds throughout.
LEMMA Invariant == Spec => []Inv
BY InitInv, NextInv, PTL DEF Spec

\* sunxi_mmc_send_cmd, for any number of polls: it returns 0 only for a command
\* the card completed, to the last word and the automatic stop, unless
\* mmc_update_clk had given up before.
THEOREM OwnAnswerSafe == Spec => []OwnAnswer
<1>1. Inv => OwnAnswer
  BY DEF Inv, Answered, OwnAnswer
<1> QED
  BY Invariant, <1>1, PTL

\* mmc_trans_data_by_cpu, for any FIFO and block: no word crosses from one
\* command into another.
THEOREM OwnWordsSafe == Spec => []OwnWords
<1>1. Inv => OwnWords
  BY DEF Inv, Transferred
<1> QED
  BY Invariant, <1>1, PTL

\* mmc_mci_set_iocfg, for any clocks and widths: what struct mmc_mci remembers is
\* what the controller has, unless the last change of clock failed.
THEOREM ConfigSafe == Spec => []ConfigInStep
<1>1. Inv => ConfigInStep
  BY DEF Inv, Configured, ConfigInStep
<1> QED
  BY Invariant, <1>1, PTL
=============================================================================
