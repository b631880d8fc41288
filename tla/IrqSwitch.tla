----------------------------- MODULE IrqSwitch -----------------------------
(***************************************************************************)
(* Interrupts and context switches on the ARM core: vector_irq of          *)
(* cpu/start_gcc.S, rt_hw_context_switch, rt_hw_context_switch_interrupt,  *)
(* rt_hw_interrupt_disable and _enable of cpu/context_gcc.S, the first     *)
(* frame of rt_hw_stack_init in cpu/port.c.                                *)
(*                                                                         *)
(* A thread switches at once by rt_hw_context_switch. A handler only notes *)
(* the switch (flag, from, to); it is made after the last handler, from    *)
(* the frame vector_irq pushed on the IRQ stack. rt_schedule of the kernel *)
(* is outside this code: it takes any thread other than rt_current_thread, *)
(* makes it the current one and calls one of the two.                      *)
(*                                                                         *)
(* A stack is known by the thread it was made for, a saved sp by the stack *)
(* it points into.                                                         *)
(***************************************************************************)
EXTENDS Integers, Sequences

CONSTANTS
  Thread,     \* the threads of the system
  First,      \* the one rt_hw_context_switch_to starts
  MaxSteps,   \* bound: steps of a thread's program
  MaxNest     \* bound: critical sections inside one another

ASSUME SwitchConstants ==
  /\ First \in Thread
  /\ MaxSteps \in Nat
  /\ MaxNest \in Nat \ {0}

VARIABLES
  cpu,      \* r0-r12, lr, pc and cpsr
  sp,       \* sp of SVC mode
  stack,    \* the frame on top of every thread's stack
  tcb,      \* thread->sp
  irqstk,   \* the frame on the IRQ stack, with spsr
  mode,     \* where in vector_irq the core is; "thread" outside of it
  nest,     \* rt_interrupt_nest
  flag,     \* rt_thread_switch_interrupt_flag
  from,     \* rt_interrupt_from_thread
  to,       \* rt_interrupt_to_thread
  current   \* rt_current_thread of the kernel

vars == <<cpu, sp, stack, tcb, irqstk, mode, nest, flag, from, to, current>>

Bit == {0, 1}

\* A program's state: whose it is, how far it has come, the I bit, and the
\* levels its open calls of rt_hw_interrupt_disable returned.
Ctx == [who : Thread, at : 0 .. MaxSteps, mask : Bit, levels : Seq(Bit)]

\* rt_hw_stack_init: r0 = parameter, pc = entry, cpsr = SVCMODE.
FirstFrame(t) == [who |-> t, at |-> 0, mask |-> 0, levels |-> <<>>]

Init ==
  /\ cpu = FirstFrame(First)
  /\ sp = First
  /\ stack = [t \in Thread |-> FirstFrame(t)]
  /\ tcb = [t \in Thread |-> t]
  /\ irqstk = FirstFrame(First)
  /\ mode = "thread"
  /\ nest = 0
  /\ flag = 0
  /\ from = First
  /\ to = First
  /\ current = First

switchVars == <<flag, from, to>>
memory == <<sp, stack, tcb>>

-----------------------------------------------------------------------------
(* The running thread.                                                     *)

Step ==
  /\ mode = "thread"
  /\ cpu.at < MaxSteps
  /\ cpu' = [cpu EXCEPT !.at = @ + 1]
  /\ UNCHANGED <<memory, irqstk, mode, nest, switchVars, current>>

\* mrs r0, cpsr; cpsid i
Disable ==
  /\ mode = "thread"
  /\ Len(cpu.levels) < MaxNest
  /\ cpu' = [cpu EXCEPT !.levels = Append(@, cpu.mask), !.mask = 1]
  /\ UNCHANGED <<memory, irqstk, mode, nest, switchVars, current>>

\* msr cpsr, r0
Enable ==
  /\ mode = "thread"
  /\ cpu.levels # <<>>
  /\ cpu' = [cpu EXCEPT !.levels = SubSeq(@, 1, Len(@) - 1), !.mask = cpu.levels[Len(cpu.levels)]]
  /\ UNCHANGED <<memory, irqstk, mode, nest, switchVars, current>>

\* rt_schedule in a thread, which has disabled interrupts, and
\* rt_hw_context_switch(&from->sp, &to->sp).
Switch ==
  /\ mode = "thread"
  /\ cpu.mask = 1
  /\ \E t \in Thread \ {current} :
       /\ current' = t
       /\ stack' = [stack EXCEPT ![sp] = cpu]
       /\ tcb' = [tcb EXCEPT ![current] = sp]
       /\ sp' = tcb[t]
       /\ cpu' = stack[tcb[t]]
  /\ UNCHANGED <<irqstk, mode, nest, switchVars>>

-----------------------------------------------------------------------------
(* vector_irq. The core masks interrupts on entry and the handlers leave   *)
(* them masked.                                                            *)

\* What the handlers leave in the registers is of no thread.
Scratch == FirstFrame(First)

IrqEnter ==
  /\ mode = "thread"
  /\ cpu.mask = 0
  /\ irqstk' = cpu
  /\ cpu' = Scratch
  /\ nest' = nest + 1
  /\ mode' = "irq"
  /\ UNCHANGED <<memory, switchVars, current>>

\* Fault: from taken from the last call, not from the first.
IrqScheduleLastFrom ==
  /\ mode = "irq"
  /\ \E t \in Thread \ {current} : current' = t /\ to' = t
  /\ flag' = 1
  /\ from' = current
  /\ UNCHANGED <<cpu, memory, irqstk, mode, nest>>

\* rt_schedule in a handler, and rt_hw_context_switch_interrupt: the first
\* call fixes from, every call sets to.
IrqSchedule ==
  /\ mode = "irq"
  /\ \E t \in Thread \ {current} : current' = t /\ to' = t
  /\ flag' = 1
  /\ from' = IF flag = 1 THEN from ELSE current
  /\ UNCHANGED <<cpu, memory, irqstk, mode, nest>>

IrqLeave ==
  /\ mode = "irq"
  /\ nest' = nest - 1
  /\ mode' = "exit"
  /\ UNCHANGED <<cpu, memory, irqstk, switchVars, current>>

\* flag clear: ldmfd sp!, {r0-r12,lr}; subs pc, lr, #4
IrqReturn ==
  /\ mode = "exit"
  /\ flag = 0
  /\ cpu' = irqstk
  /\ mode' = "thread"
  /\ UNCHANGED <<memory, irqstk, nest, switchVars, current>>

\* Fault: the flag stays set.
IrqSwitchKeepsFlag ==
  /\ mode = "exit"
  /\ flag = 1
  /\ stack' = [stack EXCEPT ![sp] = irqstk]
  /\ tcb' = [tcb EXCEPT ![from] = sp]
  /\ sp' = tcb'[to]
  /\ cpu' = stack'[tcb'[to]]
  /\ mode' = "thread"
  /\ UNCHANGED <<irqstk, nest, switchVars, current>>

\* rt_hw_context_switch_interrupt_do: the frame moves from the IRQ stack to
\* the stack SVC mode was using.
IrqSwitch ==
  /\ mode = "exit"
  /\ flag = 1
  /\ flag' = 0
  /\ stack' = [stack EXCEPT ![sp] = irqstk]
  /\ tcb' = [tcb EXCEPT ![from] = sp]
  /\ sp' = tcb'[to]
  /\ cpu' = stack'[tcb'[to]]
  /\ mode' = "thread"
  /\ UNCHANGED <<irqstk, nest, from, to, current>>

Next ==
  \/ Step \/ Disable \/ Enable \/ Switch
  \/ IrqEnter \/ IrqSchedule \/ IrqLeave \/ IrqReturn \/ IrqSwitch

Spec == Init /\ [][Next]_vars

-----------------------------------------------------------------------------
(* The program state of every thread, wherever it is kept: in the core, on *)
(* the IRQ stack, or on its own stack.                                     *)

Live == IF mode = "thread" THEN cpu ELSE irqstk
StateOf(t) == IF t = Live.who THEN Live ELSE stack[tcb[t]]

TypeOK ==
  /\ cpu \in Ctx
  /\ sp \in Thread
  /\ stack \in [Thread -> Ctx]
  /\ tcb \in [Thread -> Thread]
  /\ irqstk \in Ctx
  /\ mode \in {"thread", "irq", "exit"}
  /\ nest \in Bit
  /\ flag \in Bit
  /\ from \in Thread
  /\ to \in Thread
  /\ current \in Thread

(***************************************************************************)
(* OwnContext: a thread's stack holds that thread's frame and its TCB      *)
(* points there; the core works on the stack of the thread it runs, which  *)
(* outside vector_irq is rt_current_thread. However often rt_schedule is   *)
(* called in one interrupt, from names the interrupted thread and to the   *)
(* current one.                                                            *)
(***************************************************************************)
OwnContext ==
  /\ \A t \in Thread : tcb[t] = t /\ stack[t].who = t
  /\ sp = Live.who
  /\ sp = IF flag = 1 THEN from ELSE current
  /\ flag = 1 => to = current /\ mode # "thread"

(***************************************************************************)
(* MaskedInside: interrupts are masked exactly in the threads inside a     *)
(* critical section, running or not: neither a switch in the middle nor an *)
(* inner rt_hw_interrupt_enable opens the outer section.                   *)
(***************************************************************************)
MaskedInside ==
  \A t \in Thread : StateOf(t).mask = 1 <=> StateOf(t).levels # <<>>

(***************************************************************************)
(* ImplementsThreads: every thread sees a processor of its own. No step of *)
(* any program is lost, repeated or made by another thread.                *)
(***************************************************************************)
Abstract == INSTANCE Threads WITH
  running <- Live.who,
  at <- [t \in Thread |-> StateOf(t).at],
  depth <- [t \in Thread |-> Len(StateOf(t).levels)]

ImplementsThreads == Abstract!ThreadsSpec
=============================================================================
