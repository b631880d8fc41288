------------------------------ MODULE MmcHost ------------------------------
(***************************************************************************)
(* The SD/MMC host: uboot/sunxi_mmc.c, with mmc_mci_set_iocfg of           *)
(* driver/drv_tf.c, on a controller that answers late, in error, or never. *)
(*                                                                         *)
(* The block layer holds the host mutex over a request and over a change   *)
(* of clock or bus width, so the driver is one sequence of calls; the      *)
(* controller runs beside it.  Interrupt status bits and FIFO words carry  *)
(* the number of the command they belong to (0 for a clock update), so     *)
(* that an answer can be told from one left over.                          *)
(***************************************************************************)
EXTENDS Integers, Sequences

CONSTANTS MaxCmds,      \* bound on the commands given to the controller
          Polls,        \* polls of a register before a wait gives up
          Kinds,        \* commands the block layer issues
          Words,        \* words of a block
          FifoCap,      \* words the FIFO holds
          Clocks,       \* clock rates the block layer asks for, 0 among them
          Reachable,    \* those mmc_set_mod_clk can set
          Widths        \* bus widths the block layer asks for

\* CMD12; without data; with busy response; one block and several, each way.
Kind == {"stop", "plain", "busy", "read", "reads", "write", "writes"}

ASSUME HostAssumption ==
    /\ Kinds \subseteq Kind
    /\ MaxCmds \in Nat /\ Polls \in Nat
    /\ Words \in Nat \ {0} /\ FifoCap \in Nat \ {0}
    /\ Clocks \subseteq Nat /\ 0 \in Clocks
    /\ Reachable \subseteq Clocks \ {0}
    /\ Widths \subseteq {1, 4, 8}

VARIABLES pc,       \* where the driver is
          kind,     \* the command it executes or executed last
          id,       \* commands given to the controller
          i,        \* words transferred by the CPU
          left,     \* polls left
          error,    \* error of sunxi_mmc_send_cmd: 0 or 1
          rint,     \* interrupt status: <<bit, command>> pairs
          fifo,     \* commands the FIFO words belong to
          hw,       \* phase of the controller; Silent after an error or a reset
          moved,    \* words the card sent or took
          update,   \* 1 while a clock update is pending
          late,     \* history: 1 once the driver gave up a clock update
          fatal,    \* fatal_err
          mci,      \* clock and bus_width of struct mmc_mci
          want,     \* the configuration being set
          regs      \* clock (0 when gated) and width the controller has

cmdVars == <<kind, id, i, error>>
hwVars == <<hw, moved, fifo>>
ioVars == <<fatal, mci, want, regs>>
vars == <<pc, cmdVars, left, rint, hwVars, update, late, ioVars>>

Reads == {"read", "reads"}
Several == {"reads", "writes"}
Data == {"read", "write"} \cup Several

Total(k) == IF k \notin Data THEN 0 ELSE IF k \in Several THEN 2 * Words ELSE Words

IntBits == {"COMMAND_DONE", "DATA_OVER", "AUTO_COMMAND_DONE", "ERROR"}

Raised(b) == \E p \in rint : p[1] = b
Own(b) == {<<b, id>>}

Init == /\ pc = "Idle" /\ kind = "plain" /\ id = 0 /\ i = 0 /\ error = 0
        /\ left = 0 /\ rint = {} /\ fifo = <<>>
        /\ hw = "Silent" /\ moved = 0 /\ update = 0 /\ late = 0
        /\ fatal = 0
        /\ mci = [clock |-> 0, width |-> 1]
        /\ want = [clock |-> 0, width |-> 1]
        /\ regs = [clock |-> 0, width |-> 1]

-----------------------------------------------------------------------------
(* The controller and the card. *)

HwMoves == UNCHANGED <<pc, cmdVars, left, late, ioVars>>

\* The card accepts the command.
Respond ==
    /\ hw = "Response"
    /\ rint' = rint \cup Own("COMMAND_DONE")
    /\ hw' = IF kind \in Data THEN "Data" ELSE IF kind = "busy" THEN "Busy" ELSE "Done"
    /\ UNCHANGED <<moved, fifo, update>> /\ HwMoves

\* A response or data error ends the command.
Fail ==
    /\ hw \in {"Response", "Data", "AutoStop"}
    /\ rint' = rint \cup Own("ERROR")
    /\ hw' = "Silent"
    /\ UNCHANGED <<moved, fifo, update>> /\ HwMoves

\* A word moves between the card and the FIFO.
Move ==
    /\ hw = "Data" /\ moved < Total(kind)
    /\ IF kind \in Reads
       THEN Len(fifo) < FifoCap /\ fifo' = Append(fifo, id)
       ELSE fifo # <<>> /\ fifo' = Tail(fifo)
    /\ moved' = moved + 1
    /\ UNCHANGED <<rint, hw, update>> /\ HwMoves

DataOver ==
    /\ hw = "Data" /\ moved = Total(kind)
    /\ rint' = rint \cup Own("DATA_OVER")
    /\ hw' = IF kind \in Several THEN "AutoStop" ELSE "Done"
    /\ UNCHANGED <<moved, fifo, update>> /\ HwMoves

\* The controller itself ends a transfer of several blocks (AUTO_STOP).
AutoStop ==
    /\ hw = "AutoStop"
    /\ rint' = rint \cup Own("AUTO_COMMAND_DONE")
    /\ hw' = "Done"
    /\ UNCHANGED <<moved, fifo, update>> /\ HwMoves

BusyOver ==
    /\ hw = "Busy" /\ hw' = "Done"
    /\ UNCHANGED <<rint, moved, fifo, update>> /\ HwMoves

\* A clock update ends and "sets various irq status bits".
UpdateDone ==
    /\ update = 1 /\ update' = 0
    /\ \E bs \in SUBSET (IntBits \ {"ERROR"}) : rint' = rint \cup (bs \X {0})
    /\ UNCHANGED hwVars /\ HwMoves

-----------------------------------------------------------------------------
(* sunxi_mmc_send_cmd *)

\* Fault: waits for the end of the data and not for the stop command.
DoneBitEarly(k) == "DATA_OVER"
DoneBit(k) == IF k \in Several THEN "AUTO_COMMAND_DONE" ELSE "DATA_OVER"

\* Entry.  A command given to the controller may be the MaxCmds-th at most.
SendCmd(k) ==
    /\ pc = "Idle"
    /\ kind' = k
    /\ i' = 0
    /\ \/ /\ fatal = 1
          /\ error' = 1
          /\ UNCHANGED <<pc, id, left, hw, moved>>
       \/ /\ fatal = 0 /\ k = "stop"
          /\ error' = 0
          /\ UNCHANGED <<pc, id, left, hw, moved>>
       \/ /\ fatal = 0 /\ k \in Data    \* the buffer is not aligned
          /\ error' = 1
          /\ pc' = "Reset"
          /\ UNCHANGED <<id, left, hw, moved>>
       \/ /\ fatal = 0 /\ k # "stop" /\ id < MaxCmds
          /\ error' = 0
          /\ id' = id + 1
          /\ hw' = "Response" /\ moved' = 0
          /\ pc' = IF k \in Data THEN "Fifo" ELSE "WaitCmd"
          /\ left' = Polls
    /\ UNCHANGED <<rint, fifo, update, late, ioVars>>

FifoReady == IF kind \in Reads THEN fifo # <<>> ELSE Len(fifo) < FifoCap

\* mmc_trans_data_by_cpu: the polls are shared by all words.
CpuTransfer ==
    /\ pc = "Fifo"
    /\ \/ /\ i = Total(kind)
          /\ pc' = "WaitCmd" /\ left' = Polls
          /\ UNCHANGED <<i, fifo, error>>
       \/ /\ i < Total(kind) /\ FifoReady
          /\ i' = i + 1
          /\ fifo' = IF kind \in Reads THEN Tail(fifo) ELSE Append(fifo, id)
          /\ UNCHANGED <<pc, left, error>>
       \/ /\ i < Total(kind) /\ ~FifoReady /\ left > 0
          /\ left' = left - 1
          /\ UNCHANGED <<pc, i, fifo, error>>
       \/ /\ i < Total(kind) /\ ~FifoReady /\ left = 0
          /\ pc' = "Reset" /\ error' = 1
          /\ UNCHANGED <<left, i, fifo>>
    /\ UNCHANGED <<kind, id, rint, hw, moved, update, late, ioVars>>

\* Fault: the polls are not counted.
RintWaitForever(bit, next) ==
    \/ Raised("ERROR") /\ pc' = "Reset" /\ error' = 1 /\ UNCHANGED left
    \/ ~Raised("ERROR") /\ Raised(bit) /\ pc' = next /\ UNCHANGED <<left, error>>
    \/ ~Raised("ERROR") /\ ~Raised(bit) /\ UNCHANGED <<left, pc, error>>
\* One round of mmc_rint_wait: the last poll fails whatever it reads.
RintWait(bit, next) ==
    \/ /\ left = 0 \/ Raised("ERROR")
       /\ pc' = "Reset" /\ error' = 1
       /\ UNCHANGED left
    \/ /\ left > 0 /\ ~Raised("ERROR") /\ Raised(bit)
       /\ pc' = next /\ left' = Polls
       /\ UNCHANGED error
    \/ /\ left > 0 /\ ~Raised("ERROR") /\ ~Raised(bit)
       /\ left' = left - 1
       /\ UNCHANGED <<pc, error>>

WaitVars == UNCHANGED <<kind, id, i, rint, hwVars, update, late, ioVars>>

WaitCmd ==
    /\ pc = "WaitCmd"
    /\ RintWait("COMMAND_DONE",
                IF kind \in Data THEN "WaitData"
                ELSE IF kind = "busy" THEN "WaitBusy" ELSE "Out")
    /\ WaitVars

WaitData ==
    /\ pc = "WaitData"
    /\ RintWait(DoneBit(kind), "Out")
    /\ WaitVars

WaitBusy ==
    /\ pc = "WaitBusy"
    /\ \/ left = 0 /\ pc' = "Reset" /\ error' = 1 /\ UNCHANGED left
       \/ left > 0 /\ hw # "Busy" /\ pc' = "Out" /\ UNCHANGED <<left, error>>
       \/ left > 0 /\ hw = "Busy" /\ left' = left - 1 /\ UNCHANGED <<pc, error>>
    /\ WaitVars

\* out: with an error, the controller is reset and its clock updated.
ResetAfterError ==
    /\ pc = "Reset"
    /\ hw' = "Silent" /\ update' = 1
    /\ pc' = "Update" /\ left' = Polls
    /\ UNCHANGED <<cmdVars, rint, moved, fifo, late, ioVars>>

\* mmc_update_clk, whose result is ignored here.
UpdateAfterReset ==
    /\ pc = "Update"
    /\ \/ /\ update = 0
          /\ rint' = {}
          /\ pc' = "Out"
          /\ UNCHANGED <<left, late>>
       \/ /\ update = 1 /\ left = 0
          /\ late' = 1
          /\ pc' = "Out"
          /\ UNCHANGED <<left, rint>>
       \/ /\ update = 1 /\ left > 0
          /\ left' = left - 1
          /\ UNCHANGED <<pc, rint, late>>
    /\ UNCHANGED <<cmdVars, hwVars, update, ioVars>>

\* Fault: the FIFO keeps its words.
OutKeepsFifo ==
    /\ pc = "Out"
    /\ rint' = {}
    /\ pc' = "Idle"
    /\ UNCHANGED <<cmdVars, left, hw, moved, fifo, update, late, ioVars>>
\* All interrupts cleared, the FIFO emptied.
Out ==
    /\ pc = "Out"
    /\ rint' = {} /\ fifo' = <<>>
    /\ pc' = "Idle"
    /\ UNCHANGED <<cmdVars, left, hw, moved, update, late, ioVars>>

-----------------------------------------------------------------------------
(* mmc_mci_set_iocfg with sunxi_mmc_core_init and sunxi_mmc_set_ios *)

\* A clock that differs resets the controller; the clock is gated first.
NewClock(c, w) ==
    /\ pc = "Idle" /\ c # mci.clock
    /\ hw' = "Silent"
    /\ fatal' = 0
    /\ \/ /\ c = 0
          /\ mci' = [clock |-> 0, width |-> w]
          /\ regs' = [regs EXCEPT !.width = w]
          /\ update' = 0
          /\ UNCHANGED <<pc, want, left>>
       \/ /\ c # 0
          /\ want' = [clock |-> c, width |-> w]
          /\ regs' = [regs EXCEPT !.clock = 0]
          /\ update' = 1
          /\ pc' = "IoOff" /\ left' = Polls
          /\ UNCHANGED mci
    /\ UNCHANGED <<cmdVars, rint, moved, fifo, late>>

\* Only the width differs: sunxi_mmc_set_ios with clock 0.
NewWidth(w) ==
    /\ pc = "Idle" /\ w # mci.width
    /\ mci' = [mci EXCEPT !.width = w]
    /\ regs' = [regs EXCEPT !.width = w]
    /\ UNCHANGED <<pc, cmdVars, left, rint, hwVars, update, late, fatal, want>>

\* set_ios failed: the width is not set, mmc->clock and bus_width are.
IoFails == /\ fatal' = 1
           /\ mci' = want
           /\ pc' = "Idle"

IoGivesUp == /\ update = 1 /\ left = 0
             /\ late' = 1
             /\ IoFails
             /\ UNCHANGED <<left, rint, update, regs>>

IoPolls == /\ update = 1 /\ left > 0
           /\ left' = left - 1
           /\ UNCHANGED <<pc, rint, update, late, fatal, mci, regs>>

\* mmc_config_clock up to the second update.
IoOff ==
    /\ pc = "IoOff"
    /\ \/ /\ update = 0 /\ want.clock \in Reachable
          /\ rint' = {}
          /\ regs' = [regs EXCEPT !.clock = want.clock]
          /\ update' = 1
          /\ pc' = "IoOn" /\ left' = Polls
          /\ UNCHANGED <<late, fatal, mci>>
       \/ /\ update = 0 /\ want.clock \notin Reachable
          /\ rint' = {}
          /\ IoFails
          /\ UNCHANGED <<left, update, late, regs>>
       \/ IoGivesUp
       \/ IoPolls
    /\ UNCHANGED <<cmdVars, hwVars, want>>

\* Fault: the width is left to the second comparison of set_iocfg.
IoOnNoWidth ==
    /\ pc = "IoOn"
    /\ \/ /\ update = 0 /\ rint' = {} /\ mci' = want /\ pc' = "Idle"
          /\ UNCHANGED <<left, update, late, fatal, regs>>
       \/ IoGivesUp
       \/ IoPolls
    /\ UNCHANGED <<cmdVars, hwVars, want>>
IoOn ==
    /\ pc = "IoOn"
    /\ \/ /\ update = 0
          /\ rint' = {}
          /\ regs' = [regs EXCEPT !.width = want.width]
          /\ mci' = want
          /\ pc' = "Idle"
          /\ UNCHANGED <<left, update, late, fatal>>
       \/ IoGivesUp
       \/ IoPolls
    /\ UNCHANGED <<cmdVars, hwVars, want>>

-----------------------------------------------------------------------------
Controller == Respond \/ Fail \/ Move \/ DataOver \/ AutoStop \/ BusyOver \/ UpdateDone
Driver == CpuTransfer \/ WaitCmd \/ WaitData \/ WaitBusy \/ ResetAfterError
          \/ UpdateAfterReset \/ Out \/ IoOff \/ IoOn
Caller == \/ \E k \in Kinds : SendCmd(k)
          \/ \E c \in Clocks, w \in Widths : NewClock(c, w)
          \/ \E w \in Widths : NewWidth(w)

Next == Controller \/ Driver \/ Caller
Spec == Init /\ [][Next]_vars
\* The thread that called the driver is scheduled; the controller need not
\* answer at all.
FairSpec == Spec /\ WF_vars(Driver)

-----------------------------------------------------------------------------
(* Properties *)

\* sunxi_mmc_send_cmd returns 0 only for a command that the card itself
\* completed, to the last word and the automatic stop: never on the strength
\* of a bit an earlier command or a clock update left behind.  A clock
\* update that was given up may end later, in the middle of a command.
OwnAnswer ==
    (pc = "Out" /\ error = 0 /\ late = 0)
        => hw = "Done" /\ i = Total(kind) /\ moved = Total(kind)

\* Each word the CPU takes from the FIFO was sent for the command being
\* executed, and each word the card takes was written for it, whatever was
\* aborted before.
OwnWords ==
    \A j \in DOMAIN fifo : pc \notin {"Reset", "Update", "Out"} => fifo[j] = id

\* Between calls, unless a clock change failed, the controller has the clock
\* and the width that struct mmc_mci remembers, so that set_iocfg may skip
\* what does not differ.
ConfigInStep ==
    (pc = "Idle" /\ fatal = 0)
        => /\ mci.clock # 0 => regs.clock = mci.clock
           /\ regs.width = mci.width

\* Each call of the driver returns, also when the controller falls silent in
\* the middle of a transfer.
Returns == pc # "Idle" ~> pc = "Idle"
=============================================================================
