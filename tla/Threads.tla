------------------------------ MODULE Threads ------------------------------
(***************************************************************************)
(* What the processor port promises to the threads above it: each of them  *)
(* is a sequential program of its own.  It moves only while it runs, it    *)
(* goes on from where it stopped, and inside a critical section (between   *)
(* rt_hw_interrupt_disable and the matching rt_hw_interrupt_enable) it     *)
(* loses the processor only by asking for it.                              *)
(***************************************************************************)
EXTENDS Naturals

CONSTANTS
  Thread,     \* the threads of the system
  First,      \* the one the scheduler starts
  MaxSteps,   \* bound: steps of a thread's program
  MaxNest     \* bound: critical sections inside one another

VARIABLES
  running,    \* the thread that has the processor
  at,         \* how far the program of every thread has come
  depth       \* critical sections every thread is in

threadVars == <<running, at, depth>>

ThreadsInit ==
  /\ running = First
  /\ at = [t \in Thread |-> 0]
  /\ depth = [t \in Thread |-> 0]

Move ==
  /\ at[running] < MaxSteps
  /\ at' = [at EXCEPT ![running] = @ + 1]
  /\ UNCHANGED <<running, depth>>

Enter ==
  /\ depth[running] < MaxNest
  /\ depth' = [depth EXCEPT ![running] = @ + 1]
  /\ UNCHANGED <<running, at>>

Leave ==
  /\ depth[running] > 0
  /\ depth' = [depth EXCEPT ![running] = @ - 1]
  /\ UNCHANGED <<running, at>>

\* A thread gives way from inside a critical section and is preempted only
\* outside of one: both ways the next one goes on.
GiveWay == running' \in Thread \ {running} /\ UNCHANGED <<at, depth>>
Yield   == depth[running] > 0 /\ GiveWay
Preempt == depth[running] = 0 /\ GiveWay

ThreadsNext == Move \/ Enter \/ Leave \/ Yield \/ Preempt

ThreadsSpec == ThreadsInit /\ [][ThreadsNext]_threadVars
=============================================================================
