------------------------------- MODULE TfCard -------------------------------
(***************************************************************************)
(* The TF card driver, driver/drv_tf.c: mounting the card at start-up, the *)
(* monitor thread sd_mon that looks for a card every ten seconds and drops *)
(* the card after more than ErrLimit failed commands, and the requests     *)
(* that count the failures.                                                *)
(*                                                                         *)
(* External, as the driver uses them: the detection thread of the block    *)
(* layer, which mmcsd_change asks to register the card of an empty host or *)
(* to remove the card of a host that has one, and which posts an answer    *)
(* that mmcsd_wait_cd_changed(5000) waits for; dfs_mount.                  *)
(***************************************************************************)
EXTENDS Integers

CONSTANTS ErrLimit,     \* 10 in the code
          Sizes,        \* requests of "one" block, of "several", or both
          MaxSwaps,     \* bound on insertions and removals of the card
          MaxLate       \* bound on waits that end while the detection runs

ASSUME TfAssumption == ErrLimit \in Nat /\ Sizes \subseteq {"one", "several"} /\ MaxSwaps \in Nat /\ MaxLate \in Nat

VARIABLES slot,     \* 1 while a card is in the slot
          swaps,    \* number of insertions and removals
          asked,    \* detections asked for and not started
          detect,   \* detection thread
          answers,  \* answers posted and not received
          card,     \* host->card: 1 when registered
          mounted,  \* 1 while /mmc is mounted
          mon,      \* where the monitor (before it, the start-up) is
          plug,     \* mmc->plug
          status,   \* status of sd_thread_entry
          err,      \* mmc->err
          fails,    \* history: commands failed since the last transfer done
          bad,      \* history: 1 when the monitor drops a card that failed
                    \* more than ErrLimit commands
          refused,  \* history: 1 once a mount failed
          late      \* history: waits that ended while the detection ran

slotVars == <<slot, swaps>>
detectVars == <<asked, detect, answers, card>>
monVars == <<mon, plug, status>>
errVars == <<err, fails>>
history == <<bad, refused, late>>
vars == <<slotVars, detectVars, mounted, monVars, errVars, history>>

Bit == {0, 1}
Plug == {"PLUGED", "UNPLUGED", "TIMEOUT"}
Mon == {"Start", "StartWait", "Mount", "Loop", "FindWait", "DropWait"}

Init == /\ slot \in Bit /\ swaps = 0
        /\ asked = 0 /\ detect = "Idle" /\ answers = 0 /\ card = 0
        /\ mounted = 0
        /\ mon = "Start" /\ plug = "UNPLUGED" /\ status = "UNPLUGED"
        /\ err = 0 /\ fails = 0
        /\ bad = 0 /\ refused = 0 /\ late = 0

-----------------------------------------------------------------------------
(* The slot and the detection thread. *)

\* The card is inserted or pulled out.
Swap ==
    /\ swaps < MaxSwaps
    /\ slot' = 1 - slot /\ swaps' = swaps + 1
    /\ UNCHANGED <<detectVars, mounted, monVars, errVars, history>>

\* The detection thread takes what mmcsd_change asked for.
DetectStart ==
    /\ detect = "Idle" /\ asked > 0
    /\ asked' = asked - 1
    /\ detect' = IF card = 1 THEN "Remove" ELSE "Probe"
    /\ UNCHANGED <<slotVars, answers, card, mounted, monVars, errVars, history>>

\* A card that answers is registered.  An empty slot may or may not be
\* answered for.  The first command of a probe asks for no response, so that
\* it succeeds and resets mmc->err; the next fails in an empty slot.
DetectProbe ==
    /\ detect = "Probe"
    /\ detect' = "Idle"
    /\ card' = slot
    /\ answers' \in IF slot = 1 THEN {answers + 1} ELSE {answers, answers + 1}
    /\ err' = 1 - slot /\ fails' = 1 - slot
    /\ UNCHANGED <<slotVars, asked, mounted, monVars, history>>

\* The card is removed with its file system.
DetectRemove ==
    /\ detect = "Remove"
    /\ detect' = "Idle"
    /\ card' = 0 /\ mounted' = 0
    /\ answers' = answers + 1
    /\ UNCHANGED <<slotVars, asked, monVars, errVars, history>>

-----------------------------------------------------------------------------
(* mmc_mci_request, called with the host locked. *)

\* One failure more.  Counters are compared with ErrLimit only and stop
\* beyond it.
Counted(n) == IF n > ErrLimit + 1 THEN n ELSE n + 1
\* Fault: a success does not end the row of failures.
CountTotal(ok, n) == IF ok THEN n ELSE Counted(n)
\* Fault: a failure after a failure is not counted.
CountOnce(ok, n) == IF ok THEN 0 ELSE 1
\* What the result of a command leaves in mmc->err.
Count(ok, n) == IF ok THEN 0 ELSE Counted(n)

\* A request of several blocks is followed by CMD12, which the host answers
\* with success without asking the card, unless it met a fatal error.
Request(size) ==
    /\ card = 1 /\ detect = "Idle"
    /\ \E ok, stop \in BOOLEAN :
          /\ ok => slot = 1 /\ stop
          /\ err' = IF size = "one" THEN Count(ok, err) ELSE Count(stop, Count(ok, err))
          /\ fails' = IF ok THEN 0
                      ELSE IF size = "several" /\ ~stop THEN Counted(Counted(fails))
                      ELSE Counted(fails)
    /\ UNCHANGED <<slotVars, detectVars, mounted, monVars, history>>

-----------------------------------------------------------------------------
(* rt_hw_tf_init and sd_thread_entry *)

Running == asked > 0 \/ detect # "Idle"

\* mmcsd_wait_cd_changed: an answer tells whether the host has a card; with
\* no answer the wait ends after five seconds.
Wait(p) ==
    \/ /\ answers > 0
       /\ answers' = answers - 1
       /\ p = IF card = 1 THEN "PLUGED" ELSE "UNPLUGED"
       /\ UNCHANGED late
    \/ /\ answers = 0
       /\ p = "TIMEOUT"
       /\ Running => late < MaxLate
       /\ late' = IF Running THEN late + 1 ELSE late
       /\ UNCHANGED answers

Ask(next) ==
    /\ asked' = asked + 1
    /\ mon' = next
    /\ UNCHANGED <<slotVars, detect, answers, card, mounted, plug, status, errVars,
                   refused, late>>

\* rt_hw_tf_init asks; a file system of /mmc is mounted when a card is found.
Start == mon = "Start" /\ Ask("StartWait") /\ UNCHANGED bad

\* sd_thread_entry starts with status = mmc->plug.
StartWait ==
    /\ mon = "StartWait"
    /\ \E p \in Plug :
          /\ Wait(p)
          /\ plug' = p /\ status' = p
          /\ mon' = IF p = "PLUGED" THEN "Mount" ELSE "Loop"
    /\ UNCHANGED <<slotVars, asked, detect, card, mounted, errVars, bad, refused>>

\* dfs_mount fails when the card does not answer.
Mount ==
    /\ mon = "Mount"
    /\ IF card = 1 /\ slot = 1
       THEN mounted' = 1 /\ UNCHANGED refused
       ELSE refused' = 1 /\ UNCHANGED mounted
    /\ status' = plug
    /\ mon' = "Loop"
    /\ UNCHANGED <<slotVars, detectVars, plug, errVars, bad, late>>

\* The loop of sd_thread_entry, every ten seconds: look for a card,
Find ==
    /\ mon = "Loop"
    /\ status # "PLUGED" /\ card = 0
    /\ Ask("FindWait")
    /\ bad' = 0

\* Fault: a card that was found is not mounted.
FindWaitOnly ==
    /\ mon = "FindWait"
    /\ \E p \in Plug : Wait(p) /\ plug' = p /\ status' = p
    /\ mon' = "Loop"
    /\ UNCHANGED <<slotVars, asked, detect, card, mounted, errVars, bad, refused>>
FindWait ==
    /\ mon = "FindWait"
    /\ \E p \in Plug :
          /\ Wait(p)
          /\ plug' = p
          /\ mon' = IF p = "PLUGED" THEN "Mount" ELSE "Loop"
    /\ UNCHANGED <<slotVars, asked, detect, card, mounted, status, errVars, bad, refused>>

\* or drop the card there is.
Drop ==
    /\ mon = "Loop"
    /\ ~(status # "PLUGED" /\ card = 0)
    /\ err > ErrLimit /\ card = 1
    /\ Ask("DropWait")
    /\ bad' = IF fails > ErrLimit THEN 1 ELSE 0

\* Fault: status keeps its value.
DropWaitKeeps ==
    /\ mon = "DropWait"
    /\ \E p \in Plug : Wait(p) /\ plug' = p
    /\ err' = 0
    /\ mon' = "Loop"
    /\ UNCHANGED <<slotVars, asked, detect, card, mounted, status, fails, bad, refused>>
DropWait ==
    /\ mon = "DropWait"
    /\ \E p \in Plug : Wait(p) /\ plug' = p /\ status' = p
    /\ err' = 0
    /\ mon' = "Loop"
    /\ UNCHANGED <<slotVars, asked, detect, card, mounted, fails, bad, refused>>

-----------------------------------------------------------------------------
Detection == DetectStart \/ DetectProbe \/ DetectRemove
Monitor == Start \/ StartWait \/ Mount \/ Find \/ FindWait \/ Drop \/ DropWait
Use == \E size \in Sizes : Request(size)

Next == Swap \/ Detection \/ Monitor \/ Use
Spec == Init /\ [][Next]_vars
\* Both threads are scheduled.
FairSpec == Spec /\ WF_vars(Detection) /\ WF_vars(Monitor)

-----------------------------------------------------------------------------
(* Properties *)

Counter == 0..(ErrLimit + 2)

\* Types; never more than one detection is asked for unless a wait ended
\* before its answer.
TypeOK ==
    /\ slot \in Bit /\ swaps \in 0..MaxSwaps
    /\ asked \in 0..(late + 1) /\ answers \in 0..(late + 1)
    /\ detect \in {"Idle", "Probe", "Remove"} /\ card \in Bit /\ mounted \in Bit
    /\ mon \in Mon /\ plug \in Plug /\ status \in Plug
    /\ err \in Counter /\ fails \in Counter
    /\ bad \in Bit /\ refused \in Bit /\ late \in 0..MaxLate

\* The two copies of what was detected, status of the monitor and the card
\* of the host, agree whenever the monitor looks at them: PLUGED without a
\* card would never be looked for again, a card without PLUGED never be
\* mounted.  They part when a detection outlasts a wait of five seconds.
StatusInStep ==
    (mon = "Loop" /\ late = 0) => (status = "PLUGED" <=> card = 1)

\* A registered card is removed only after more than ErrLimit commands
\* failed with no transfer done in between: the question "is there a card?"
\* of the monitor, asked twice because the first answer was late, removes
\* the card that the first question found.
DropJustified == [][(card = 1 /\ card' = 0) => (bad = 1 \/ late > 0)]_vars

\* A card that stays in the slot is mounted again and again, whatever was
\* pulled out and inserted and failed before, except after a late answer or
\* a failed mount, which the monitor does not try again.
CardMounted ==
    <>[](slot = 1) => ([]<>(mounted = 1) \/ <>(late > 0 \/ refused = 1))

\* When the slot stays empty, and the users of the card go on with requests,
\* in the end of one block only, the host gives up the card and its file
\* system.
RemovalNoticed ==
    (/\ <>[](slot = 0)
     /\ WF_vars("one" \in Sizes /\ Request("one"))
     /\ <>[][~("several" \in Sizes /\ Request("several"))]_vars)
    => (<>[](card = 0 /\ mounted = 0) \/ <>(late > 0))
=============================================================================
