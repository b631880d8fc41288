---------------------------- MODULE TfCardProofs ----------------------------
(***************************************************************************)
(* That the monitor and the host agree on the card, and that a card is     *)
(* dropped only for cause, for every ErrLimit and every number of swaps,   *)
(* until a wait ends before its answer.                                    *)
(*                                                                         *)
(* The invariant follows the one question a monitor has under way: asked,  *)
(* taken by the detection thread, or answered and not yet received.        *)
(***************************************************************************)
EXTENDS TfCard, TLAPS

Quiet == asked = 0 /\ detect = "Idle" /\ answers = 0

\* The question of a host without card.
Probing == \/ asked = 1 /\ detect = "Idle" /\ answers = 0 /\ card = 0
           \/ asked = 0 /\ detect = "Probe" /\ answers = 0 /\ card = 0
           \/ asked = 0 /\ detect = "Idle" /\ answers = 1
           \/ Quiet /\ card = 0

\* The question of a host with a card.
Removing == \/ asked = 1 /\ detect = "Idle" /\ answers = 0 /\ card = 1
            \/ asked = 0 /\ detect = "Remove" /\ answers = 0 /\ card = 1
            \/ asked = 0 /\ detect = "Idle" /\ answers = 1 /\ card = 0

OneQuestion ==
    /\ mon = "Start" => Quiet /\ card = 0
    /\ mon \in {"StartWait", "FindWait"} => Probing
    /\ mon = "FindWait" => status # "PLUGED"
    /\ mon = "DropWait" => Removing /\ bad = 1
    /\ mon = "Mount" => Quiet /\ card = 1 /\ plug = "PLUGED"
    /\ mon = "Loop" => Quiet /\ (status = "PLUGED" <=> card = 1)

Types == /\ mon \in Mon /\ card \in Bit /\ slot \in Bit
         /\ late \in Nat /\ err \in Nat /\ fails \in Nat

Inv == /\ Types
       /\ err <= fails
       /\ late = 0 => OneQuestion

\* Counting keeps counters natural and their order.
LEMMA Counting ==
    ASSUME NEW m \in Nat, NEW n \in Nat, m <= n
    PROVE  Counted(m) \in Nat /\ Counted(n) \in Nat /\ Counted(m) <= Counted(n)
BY TfAssumption DEF Counted

LEMMA InitInv == Init => Inv
BY DEF Init, Inv, Types, Mon, Bit, OneQuestion, Quiet

LEMMA SwapStep == Inv /\ Swap => Inv'
<1>. SUFFICES ASSUME Inv, Swap PROVE Inv'
  OBVIOUS
<1>1. UNCHANGED <<detectVars, mounted, monVars, errVars, history>> /\ slot' \in Bit
  BY DEF Swap, Inv, Types, Bit
<1>. QED
  BY <1>1 DEF detectVars, monVars, errVars, history, Inv, Types, OneQuestion,
              Quiet, Probing, Removing

\* What the detection thread does moves the question on.
LEMMA DetectionStep == Inv /\ Detection => Inv'
<1>. SUFFICES ASSUME Inv, Detection PROVE Inv'
  OBVIOUS
<1>. USE DEF Inv, Types, slotVars, detectVars, monVars, errVars, history
<1>1. CASE DetectStart
  BY <1>1 DEF DetectStart, OneQuestion, Quiet, Probing, Removing, Mon
<1>2. CASE DetectProbe
  <2>1. /\ detect = "Probe" /\ detect' = "Idle" /\ card' = slot
        /\ UNCHANGED <<slot, asked, mon, plug, status, bad, late>>
        /\ err' = 1 - slot /\ fails' = 1 - slot
    BY <1>2 DEF DetectProbe
  <2>2. slot = 1 \/ slot = 0
    BY DEF Bit
  <2>3. Types' /\ err' <= fails'
    BY <2>1, <2>2 DEF Bit
  <2>4. ASSUME late' = 0 PROVE OneQuestion'
    <3>1. mon \in {"StartWait", "FindWait"} /\ Probing
      BY <2>1, <2>4 DEF OneQuestion, Quiet, Removing, Mon
    <3>2. asked = 0 /\ answers = 0 /\ (mon = "FindWait" => status # "PLUGED")
      BY <2>1, <2>4, <3>1 DEF Probing, Quiet, OneQuestion
    <3>3. answers' = 1 \/ (answers' = 0 /\ card' = 0)
      BY <1>2, <2>1, <2>2, <3>2 DEF DetectProbe
    <3>4. Probing'
      BY <2>1, <3>2, <3>3 DEF Probing, Quiet
    <3>. QED
      BY <2>1, <3>1, <3>2, <3>4 DEF OneQuestion
  <2>. QED
    BY <2>3, <2>4
<1>3. CASE DetectRemove
  <2>1. /\ detect = "Remove" /\ detect' = "Idle" /\ card' = 0
        /\ answers' = answers + 1
        /\ UNCHANGED <<slot, asked, mon, plug, status, bad, late, err, fails>>
    BY <1>3 DEF DetectRemove
  <2>2. Types' /\ err' <= fails'
    BY <2>1 DEF Bit
  <2>3. ASSUME late' = 0 PROVE OneQuestion'
    <3>1. mon = "DropWait" /\ Removing /\ bad = 1
      BY <2>1, <2>3 DEF OneQuestion, Quiet, Probing, Mon
    <3>2. Removing'
      BY <2>1, <3>1 DEF Removing
    <3>. QED
      BY <2>1, <3>1, <3>2 DEF OneQuestion
  <2>. QED
    BY <2>2, <2>3
<1>. QED
  BY <1>1, <1>2, <1>3 DEF Detection

\* mmc->err never runs ahead of the commands that failed.
LEMMA UseStep == Inv /\ Use => Inv'
<1>. SUFFICES ASSUME Inv, Use PROVE Inv'
  OBVIOUS
<1>1. PICK size \in Sizes : Request(size)
  BY DEF Use
<1>2. UNCHANGED <<slotVars, detectVars, mounted, monVars, history>>
  BY <1>1 DEF Request
<1>3. PICK ok \in BOOLEAN, stop \in BOOLEAN :
          /\ ok => stop
          /\ err' = IF size = "one" THEN Count(ok, err) ELSE Count(stop, Count(ok, err))
          /\ fails' = IF ok THEN 0
                      ELSE IF size = "several" /\ ~stop THEN Counted(Counted(fails))
                      ELSE Counted(fails)
  BY <1>1 DEF Request
<1>4. size = "one" \/ size = "several"
  BY TfAssumption
<1>5. err \in Nat /\ fails \in Nat /\ err <= fails
  BY DEF Inv, Types
<1>6. Counted(err) \in Nat /\ Counted(fails) \in Nat /\ Counted(err) <= Counted(fails)
  BY <1>5, Counting
<1>7. /\ Counted(Counted(err)) \in Nat /\ Counted(Counted(fails)) \in Nat
      /\ Counted(Counted(err)) <= Counted(Counted(fails))
  BY <1>6, Counting
<1>8. err' \in Nat /\ fails' \in Nat /\ err' <= fails'
  BY <1>3, <1>4, <1>5, <1>6, <1>7 DEF Count
<1>. QED
  BY <1>2, <1>8 DEF slotVars, detectVars, monVars, history, Inv, Types,
                    OneQuestion, Quiet, Probing, Removing

\* A wait that ends with no answer ends a question nobody works on.
LEMMA WaitEnds ==
    ASSUME Inv, NEW p, Wait(p), UNCHANGED <<asked, detect, card>>, late' = 0
    PROVE  /\ late = 0
           /\ Probing => Quiet' /\ (p = "PLUGED" <=> card = 1)
           /\ Removing => Quiet' /\ p = "UNPLUGED" /\ card = 0
<1>1. late \in Nat
  BY DEF Inv, Types
<1>2. late = 0
  BY <1>1 DEF Wait
<1>3. CASE answers > 0
  BY <1>2, <1>3 DEF Wait, Probing, Removing, Quiet
<1>4. CASE answers = 0
  <2>1. ~Running
    BY <1>1, <1>2, <1>4 DEF Wait
  <2>. QED
    BY <1>2, <1>4, <2>1 DEF Wait, Probing, Removing, Quiet, Running
<1>. QED
  BY <1>2, <1>3, <1>4 DEF Wait

LEMMA MonitorStep == Inv /\ Monitor => Inv'
<1>. SUFFICES ASSUME Inv, Monitor PROVE Inv'
  OBVIOUS
<1>. USE DEF slotVars, detectVars, monVars, errVars
<1>0. Types /\ err <= fails /\ (late = 0 => OneQuestion)
  BY DEF Inv
<1>1. CASE Start
  BY <1>0, <1>1 DEF Start, Ask, Types, Mon, OneQuestion, Quiet, Probing, Inv
<1>2. CASE Find
  BY <1>0, <1>2 DEF Find, Ask, Types, Mon, OneQuestion, Quiet, Probing, Inv
<1>3. CASE Drop
  <2>1. mon = "Loop" /\ card = 1 /\ err > ErrLimit
    BY <1>3 DEF Drop
  <2>2. bad' = 1
    BY <1>0, <1>3, <2>1, TfAssumption DEF Drop, Types
  <2>. QED
    BY <1>0, <1>3, <2>1, <2>2 DEF Drop, Ask, Types, Mon, OneQuestion, Quiet, Removing, Inv
<1>4. CASE Mount
  BY <1>0, <1>4 DEF Mount, Types, Mon, OneQuestion, Quiet, Inv
<1>5. CASE StartWait \/ FindWait
  <2>1. PICK p \in Plug : /\ Wait(p) /\ plug' = p
                          /\ mon' = IF p = "PLUGED" THEN "Mount" ELSE "Loop"
                          /\ status' = IF mon = "StartWait" THEN p ELSE status
    BY <1>5 DEF StartWait, FindWait
  <2>2. /\ mon \in {"StartWait", "FindWait"}
        /\ UNCHANGED <<slot, asked, detect, card, err, fails, bad>>
    BY <1>5 DEF StartWait, FindWait
  <2>3. late' \in Nat
    BY <1>0, <2>1 DEF Wait, Types
  <2>4. Types' /\ err' <= fails'
    BY <1>0, <2>1, <2>2, <2>3 DEF Types, Mon
  <2>5. ASSUME late' = 0 PROVE OneQuestion'
    <3>1. late = 0 /\ (Probing => Quiet' /\ (p = "PLUGED" <=> card = 1))
      BY <2>1, <2>2, <2>5, WaitEnds
    <3>2. Probing /\ (mon = "FindWait" => status # "PLUGED")
      BY <1>0, <2>2, <3>1 DEF OneQuestion
    <3>3. Quiet' /\ (p = "PLUGED" <=> card' = 1)
      BY <2>2, <3>1, <3>2
    <3>4. (mon' = "Mount" <=> p = "PLUGED") /\ (mon' = "Loop" <=> p # "PLUGED")
          /\ mon' \in {"Mount", "Loop"}
      BY <2>1
    <3>5. mon' = "Loop" => status' # "PLUGED"
      BY <2>1, <2>2, <3>2, <3>4
    <3>. QED
      BY <2>1, <3>3, <3>4, <3>5 DEF OneQuestion
  <2>. QED
    BY <2>4, <2>5 DEF Inv
<1>6. CASE DropWait
  <2>1. PICK p \in Plug : Wait(p) /\ plug' = p /\ status' = p
    BY <1>6 DEF DropWait
  <2>2. /\ mon = "DropWait" /\ mon' = "Loop" /\ err' = 0
        /\ UNCHANGED <<slot, asked, detect, card, fails, bad>>
    BY <1>6 DEF DropWait
  <2>3. late' \in Nat
    BY <1>0, <2>1 DEF Wait, Types
  <2>4. Types' /\ err' <= fails'
    BY <1>0, <2>1, <2>2, <2>3 DEF Types, Mon
  <2>5. ASSUME late' = 0 PROVE OneQuestion'
    <3>1. late = 0 /\ (Removing => Quiet' /\ p = "UNPLUGED" /\ card = 0)
      BY <2>1, <2>2, <2>5, WaitEnds
    <3>2. Removing
      BY <1>0, <2>2, <3>1 DEF OneQuestion
    <3>. QED
      BY <2>1, <2>2, <3>1, <3>2 DEF OneQuestion
  <2>. QED
    BY <2>4, <2>5 DEF Inv
<1>. QED
  BY <1>1, <1>2, <1>3, <1>4, <1>5, <1>6 DEF Monitor

LEMMA Stutter == Inv /\ UNCHANGED vars => Inv'
BY DEF vars, slotVars, detectVars, monVars, errVars, history, Inv, Types,
       OneQuestion, Quiet, Probing, Removing

LEMMA Invariance == Spec => []Inv
<1>1. Inv /\ [Next]_vars => Inv'
  BY SwapStep, DetectionStep, MonitorStep, UseStep, Stutter DEF Next
<1>. QED
  BY <1>1, InitInv, PTL DEF Spec

\* The monitor and the host agree on the card whenever the monitor looks,
\* until a wait ends before its answer.
THEOREM MonitorInStep == Spec => []StatusInStep
<1>1. Inv => StatusInStep
  BY DEF Inv, OneQuestion, StatusInStep
<1>. QED
  BY <1>1, Invariance, PTL

\* Only the detection thread removes a card, and only when the monitor asked
\* it to drop one that failed more than ErrLimit commands.
THEOREM DroppedForCause == Spec => DropJustified
<1>1. Inv /\ [Next]_vars => [(card = 1 /\ card' = 0) => (bad = 1 \/ late > 0)]_vars
  <2>. SUFFICES ASSUME Inv, Next, card = 1, card' = 0, ~(late > 0) PROVE bad = 1
    OBVIOUS
  <2>1. late = 0 /\ OneQuestion /\ mon \in Mon
    BY DEF Inv, Types
  <2>2. CASE DetectProbe
    BY <2>1, <2>2 DEF DetectProbe, OneQuestion, Quiet, Probing, Removing, Mon
  <2>3. CASE DetectRemove
    BY <2>1, <2>3 DEF DetectRemove, OneQuestion, Quiet, Probing, Removing, Mon
  <2>4. Next => DetectProbe \/ DetectRemove \/ card' = card
    BY DEF Next, Swap, Detection, DetectStart, Use, Request, Monitor, Start, Find, Drop,
           Ask, StartWait, FindWait, DropWait, Mount, detectVars
  <2>. QED
    BY <2>2, <2>3, <2>4
<1>. QED
  BY <1>1, Invariance, PTL DEF Spec, DropJustified
=============================================================================
