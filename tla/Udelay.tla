------------------------------- MODULE Udelay -------------------------------
(***************************************************************************)
(* Busy waiting on the tick timer: udelay and __udelay of uboot/timer.c.   *)
(*                                                                         *)
(* The timer counts TIMER_LOAD_VAL down to 0 and starts again; a reading   *)
(* is its inverse.  Between two readings the caller may be interrupted and *)
(* preempted, for whole periods of the timer, which no reading shows.      *)
(***************************************************************************)
EXTENDS Integers

CONSTANTS Load,         \* TIMER_LOAD_VAL
          Period,       \* counts from one reload to the next
          Rate,         \* counts of a microsecond
          WdPeriod,     \* CONFIG_WD_PERIOD: microseconds waited for at once
          MaxUsec,      \* bound on the argument of udelay
          MaxTurns      \* bound on the reloads between two readings

\* Whether the reload itself takes a count is left open.
ASSUME UdelayAssumption ==
    /\ Load \in Nat \ {0} /\ (Period = Load \/ Period = Load + 1)
    /\ Rate \in Nat \ {0} /\ WdPeriod \in Nat \ {0}
    /\ MaxUsec \in Nat /\ MaxTurns \in Nat

VARIABLES pc,       \* "Chunk", "Poll" or "Done"
          usec,     \* usec of udelay: microseconds left to wait for
          tmo,      \* counts left of the chunk
          last,     \* last reading
          request,  \* history: the argument of udelay
          elapsed,  \* history: counts since the call
          slack     \* history: counts no reading could show, and the last gap
                    \* of each chunk

vars == <<pc, usec, tmo, last, request, elapsed, slack>>

Reading == 0..(Period - 1)

Init == /\ pc = "Chunk"
        /\ usec \in 0..MaxUsec
        /\ request = usec
        /\ tmo = 0 /\ last \in Reading
        /\ elapsed = 0 /\ slack = 0

Least(a, b) == IF a < b THEN a ELSE b

\* Counts from one reading to the next, with turns reloads in between.
Gap(now, turns) == turns * Period + now - last

\* The next reading is taken at least one count later.
Advance(now, turns) ==
    /\ Gap(now, turns) > 0
    /\ last' = now
    /\ elapsed' = elapsed + Gap(now, turns)

\* The reloads beyond the one that shows, and the count that one may take.
Unseen(now, turns) ==
    IF now > last THEN turns * Period ELSE (turns - 1) * Period + (Period - Load)

\* A round of udelay, up to the first reading of __udelay.
Chunk ==
    /\ pc = "Chunk"
    /\ tmo' = Rate * Least(usec, WdPeriod)
    /\ usec' = usec - Least(usec, WdPeriod)
    /\ \E now \in Reading, turns \in 0..MaxTurns :
          /\ Advance(now, turns)
          /\ slack' = slack + Gap(now, turns)
    /\ pc' = "Poll"
    /\ UNCHANGED request

\* Fault: a reload in between is forgotten.
PassedNoReload(now, prev) == IF now > prev THEN now - prev ELSE prev - now
\* Fault: a reload passes for a full period.
PassedPeriod(now, prev) == IF now > prev THEN now - prev ELSE Load
\* What __udelay takes for the counts since the reading before.
Passed(now, prev) == IF now > prev THEN now - prev ELSE Load - prev + now

\* The test of the loop, and one reading.
Poll ==
    /\ pc = "Poll" /\ tmo > 0
    /\ \E now \in Reading, turns \in 0..MaxTurns :
          /\ Advance(now, turns)
          /\ tmo' = tmo - Passed(now, last)
          /\ slack' = slack + Unseen(now, turns)
                            + IF tmo' > 0 THEN 0 ELSE Gap(now, turns)
    /\ UNCHANGED <<pc, usec, request>>

\* __udelay returns; udelay goes on while microseconds are left.
Return ==
    /\ pc = "Poll" /\ tmo <= 0
    /\ pc' = IF usec > 0 THEN "Chunk" ELSE "Done"
    /\ tmo' = 0
    /\ UNCHANGED <<usec, last, request, elapsed, slack>>

Next == Chunk \/ Poll \/ Return
Spec == Init /\ [][Next]_vars

-----------------------------------------------------------------------------
(* Properties *)

\* Types; what is left to wait for never exceeds what was asked.
TypeOK ==
    /\ pc \in {"Chunk", "Poll", "Done"}
    /\ usec \in Nat /\ request \in Nat /\ usec <= request
    /\ tmo \in Int /\ last \in Reading
    /\ elapsed \in Nat /\ slack \in Nat

\* udelay never returns early: "delay x useconds" holds however often the
\* caller was preempted and however many chunks the delay is cut into, as
\* long as the timer counts between two readings.
DelayedEnough == pc = "Done" => elapsed >= Rate * request

\* And it returns no later than its readings can tell: the excess is at most
\* the periods that passed unseen, the gaps between chunks and the last gap
\* of each chunk.
DelayedNoMore == pc = "Done" => elapsed <= Rate * request + slack

=============================================================================
