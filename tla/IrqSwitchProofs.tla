-------------------------- MODULE IrqSwitchProofs --------------------------
(***************************************************************************)
(* The safety of the context switch, for every set of threads and every    *)
(* bound: types, OwnContext, MaskedInside, and that IrqSwitch implements   *)
(* Threads.                                                                *)
(*                                                                         *)
(* The invariants are not inductive by themselves. Two facts are added: in *)
(* every frame the saved levels read 0, 1, 1, ... from the outside in; and *)
(* the frame on the IRQ stack has interrupts enabled, because only such a  *)
(* thread can be interrupted.                                              *)
(***************************************************************************)
EXTENDS IrqSwitch, SequenceTheorems, TLAPS

Nested(c) ==
  /\ c.mask = IF c.levels = <<>> THEN 0 ELSE 1
  /\ \A i \in 1 .. Len(c.levels) : c.levels[i] = IF i = 1 THEN 0 ELSE 1

NestedFrames ==
  /\ Nested(Live)
  /\ \A t \in Thread : Nested(stack[t])
  /\ mode # "thread" => irqstk.mask = 0
  /\ nest = IF mode = "irq" THEN 1 ELSE 0

IInv == TypeOK /\ OwnContext /\ NestedFrames

-----------------------------------------------------------------------------
(* Frames.                                                                 *)

\* The frame rt_hw_stack_init builds.
LEMMA FirstFrameOK ==
  ASSUME NEW t \in Thread
  PROVE  FirstFrame(t) \in Ctx /\ FirstFrame(t).who = t /\ Nested(FirstFrame(t))
BY SwitchConstants, EmptySeq DEF FirstFrame, Ctx, Bit, Nested

\* A frame after rt_hw_interrupt_disable.
LEMMA DisableFrame ==
  ASSUME NEW c \in Ctx, NEW d, Nested(c),
         d = [c EXCEPT !.levels = Append(@, c.mask), !.mask = 1]
  PROVE  d \in Ctx /\ d.who = c.who /\ d.at = c.at /\ Nested(d)
         /\ Len(d.levels) = Len(c.levels) + 1
<1>1. c.levels \in Seq(Bit) /\ c.mask \in Bit
  BY DEF Ctx
<1>2. /\ Append(c.levels, c.mask) \in Seq(Bit)
      /\ Append(c.levels, c.mask) # <<>>
      /\ Len(Append(c.levels, c.mask)) = Len(c.levels) + 1
      /\ \A i \in 1 .. Len(c.levels) : Append(c.levels, c.mask)[i] = c.levels[i]
      /\ Append(c.levels, c.mask)[Len(c.levels) + 1] = c.mask
  BY <1>1, AppendProperties
<1>3. d.levels = Append(c.levels, c.mask) /\ d.mask = 1 /\ d.who = c.who /\ d.at = c.at
  BY DEF Ctx
<1>4. d \in Ctx
  BY <1>2 DEF Ctx, Bit
<1>5. Len(c.levels) \in Nat /\ (c.levels = <<>> <=> Len(c.levels) = 0)
  BY <1>1, EmptySeq
<1>6. \A i \in 1 .. Len(c.levels) + 1 : d.levels[i] = IF i = 1 THEN 0 ELSE 1
  BY <1>2, <1>3, <1>5 DEF Nested
<1>7. QED
  BY <1>2, <1>3, <1>4, <1>6 DEF Nested

\* A frame after rt_hw_interrupt_enable.
LEMMA EnableFrame ==
  ASSUME NEW c \in Ctx, NEW d, Nested(c), c.levels # <<>>,
         d = [c EXCEPT !.levels = SubSeq(@, 1, Len(@) - 1), !.mask = c.levels[Len(c.levels)]]
  PROVE  d \in Ctx /\ d.who = c.who /\ d.at = c.at /\ Nested(d)
         /\ Len(d.levels) = Len(c.levels) - 1 /\ Len(c.levels) > 0
<1> DEFINE n == Len(c.levels)
<1>1. c.levels \in Seq(Bit)
  BY DEF Ctx
<1>2. n \in Nat /\ n > 0
  BY <1>1, EmptySeq
<1>3. /\ SubSeq(c.levels, 1, n - 1) \in Seq(Bit)
      /\ Len(SubSeq(c.levels, 1, n - 1)) = n - 1
      /\ \A i \in 1 .. n - 1 : SubSeq(c.levels, 1, n - 1)[i] = c.levels[i]
  BY <1>1, <1>2, SubSeqProperties
<1>4. c.levels[n] \in Bit /\ c.levels[n] = IF n = 1 THEN 0 ELSE 1
  <2>1. n \in 1 .. Len(c.levels)
    BY <1>2
  <2>2. c.levels[n] = IF n = 1 THEN 0 ELSE 1
    BY <2>1 DEF Nested
  <2>3. QED
    BY <2>2 DEF Bit
<1>5. /\ d.levels = SubSeq(c.levels, 1, n - 1) /\ d.mask = c.levels[n]
      /\ d.who = c.who /\ d.at = c.at
  BY DEF Ctx
<1>6. d \in Ctx
  BY <1>3, <1>4 DEF Ctx
<1>7. d.levels = <<>> <=> n = 1
  <2>1. d.levels \in Seq(Bit) /\ Len(d.levels) = n - 1
    BY <1>3, <1>5
  <2>2. d.levels = <<>> => Len(d.levels) = 0
    BY EmptySeq
  <2>3. d.levels # <<>> => Len(d.levels) \in Nat \ {0}
    BY <2>1, EmptySeq
  <2>4. Len(d.levels) = 0 <=> n = 1
    <3> HIDE DEF n
    <3>1. n - 1 = 0 <=> n = 1
      BY <1>2
    <3>2. QED
      BY <2>1, <3>1
  <2>5. QED
    BY <2>2, <2>3, <2>4
<1>8. Nested(d)
  BY <1>2, <1>3, <1>4, <1>5, <1>7 DEF Nested
<1>9. QED
  BY <1>2, <1>3, <1>5, <1>6, <1>8

-----------------------------------------------------------------------------

LEMMA Initially == Init => IInv
<1> SUFFICES ASSUME Init PROVE IInv
  OBVIOUS
<1>1. First \in Thread
  BY SwitchConstants
<1>2. TypeOK
  BY <1>1, FirstFrameOK DEF Init, TypeOK, Bit
<1>3. OwnContext
  BY <1>1, FirstFrameOK DEF Init, OwnContext, Live
<1>4. NestedFrames
  BY <1>1, FirstFrameOK DEF Init, NestedFrames, Live
<1>5. QED
  BY <1>2, <1>3, <1>4 DEF IInv

\* The steps of the running thread that leave its stack alone.
LEMMA ThreadStepInv ==
  ASSUME IInv, Step \/ Disable \/ Enable
  PROVE  IInv' /\ cpu'.who = cpu.who
<1> USE DEF IInv
<1>1. /\ mode = "thread" /\ cpu \in Ctx /\ Nested(cpu)
      /\ UNCHANGED <<sp, stack, tcb, irqstk, mode, nest, flag, from, to, current>>
  BY DEF TypeOK, NestedFrames, Live, Step, Disable, Enable, memory, switchVars
<1>2. cpu' \in Ctx /\ cpu'.who = cpu.who /\ Nested(cpu')
  <2>1. CASE Step
    BY <2>1, <1>1, SwitchConstants DEF Step, Ctx, Nested
  <2>2. CASE Disable
    BY <2>2, <1>1, DisableFrame DEF Disable
  <2>3. CASE Enable
    BY <2>3, <1>1, EnableFrame DEF Enable
  <2>4. QED
    BY <2>1, <2>2, <2>3
<1>3. TypeOK'
  BY <1>1, <1>2 DEF TypeOK
<1>4. OwnContext'
  BY <1>1, <1>2 DEF OwnContext, Live
<1>5. NestedFrames'
  BY <1>1, <1>2 DEF NestedFrames, Live
<1>6. QED
  BY <1>2, <1>3, <1>4, <1>5

\* rt_hw_context_switch: the old thread's frame is saved, the new one's loaded.
LEMMA SwitchInv ==
  ASSUME IInv, NEW t \in Thread \ {current},
         mode = "thread",
         current' = t,
         stack' = [stack EXCEPT ![sp] = cpu],
         tcb' = [tcb EXCEPT ![current] = sp],
         sp' = tcb[t],
         cpu' = stack[tcb[t]],
         UNCHANGED <<irqstk, mode, nest, switchVars>>
  PROVE  IInv'
<1> USE DEF IInv
<1>1. /\ flag = 0 /\ cpu.who = current /\ sp = current /\ tcb[t] = t /\ stack[t].who = t
      /\ tcb[current] = current
  BY DEF OwnContext, Live, TypeOK, Bit
<1>2. stack' = [stack EXCEPT ![current] = cpu] /\ tcb' = tcb /\ sp' = t /\ cpu' = stack[t]
  BY <1>1 DEF TypeOK
<1>3. UNCHANGED <<irqstk, mode, nest, flag, from, to>>
  BY DEF switchVars
<1>4. TypeOK'
  BY <1>2, <1>3 DEF TypeOK
<1>5. OwnContext'
  BY <1>1, <1>2, <1>3 DEF OwnContext, Live, TypeOK
<1>6. NestedFrames'
  BY <1>1, <1>2, <1>3 DEF NestedFrames, Live, TypeOK
<1>7. QED
  BY <1>4, <1>5, <1>6

\* rt_hw_context_switch_interrupt_do.
LEMMA IrqSwitchInv ==
  ASSUME IInv, IrqSwitch
  PROVE  /\ IInv'
         /\ stack' = [stack EXCEPT ![irqstk.who] = irqstk]
         /\ tcb' = tcb
         /\ cpu' = IF current = irqstk.who THEN irqstk ELSE stack[current]
         /\ mode # "thread" /\ mode' = "thread"
<1> USE DEF IInv
<1>1. /\ mode = "exit" /\ flag = 1 /\ sp = irqstk.who /\ from = irqstk.who /\ to = current
      /\ \A t \in Thread : tcb[t] = t /\ stack[t].who = t
  BY DEF IrqSwitch, OwnContext, Live
<1>2. /\ stack' = [stack EXCEPT ![irqstk.who] = irqstk] /\ tcb' = tcb
      /\ irqstk.who \in Thread /\ current \in Thread
  BY <1>1 DEF IrqSwitch, TypeOK
<1>3. sp' = current /\ cpu' = stack'[current] /\ mode' = "thread" /\ flag' = 0
  BY <1>1, <1>2 DEF IrqSwitch
<1>4. UNCHANGED <<irqstk, nest, from, to, current>>
  BY DEF IrqSwitch
<1>5. cpu' = IF current = irqstk.who THEN irqstk ELSE stack[current]
  BY <1>2, <1>3 DEF TypeOK
<1>6. TypeOK'
  BY <1>2, <1>3, <1>4, <1>5 DEF TypeOK, Bit
<1>7. OwnContext'
  BY <1>1, <1>2, <1>3, <1>4, <1>5 DEF OwnContext, Live, TypeOK
<1>8. NestedFrames'
  BY <1>1, <1>2, <1>3, <1>4, <1>5 DEF NestedFrames, Live, TypeOK
<1>9. QED
  BY <1>1, <1>2, <1>3, <1>5, <1>6, <1>7, <1>8

LEMMA Inductive == IInv /\ [Next]_vars => IInv'
<1> SUFFICES ASSUME IInv, [Next]_vars PROVE IInv'
  OBVIOUS
<1> USE DEF IInv
<1>1. CASE Step \/ Disable \/ Enable
  BY <1>1, ThreadStepInv
<1>2. CASE Switch
  BY <1>2, SwitchInv DEF Switch
<1>3. CASE IrqEnter
  <2>1. /\ mode = "thread" /\ mode' = "irq" /\ irqstk' = cpu /\ cpu' = Scratch /\ cpu.mask = 0
        /\ nest' = nest + 1
        /\ UNCHANGED <<sp, stack, tcb, flag, from, to, current>>
    BY <1>3 DEF IrqEnter, memory, switchVars
  <2>2. Scratch \in Ctx
    BY SwitchConstants, FirstFrameOK DEF Scratch
  <2>3. TypeOK'
    BY <2>1, <2>2 DEF TypeOK, Bit, NestedFrames
  <2>4. OwnContext' /\ NestedFrames'
    BY <2>1 DEF OwnContext, NestedFrames, Live
  <2>5. QED
    BY <2>3, <2>4
<1>4. CASE IrqSchedule
  <2>1. /\ mode = "irq" /\ flag' = 1 /\ from' = IF flag = 1 THEN from ELSE current
        /\ to' = current' /\ current' \in Thread
        /\ UNCHANGED <<cpu, sp, stack, tcb, irqstk, mode, nest>>
    BY <1>4 DEF IrqSchedule, memory
  <2>2. TypeOK'
    BY <2>1 DEF TypeOK, Bit
  <2>3. OwnContext' /\ NestedFrames'
    BY <2>1 DEF OwnContext, NestedFrames, Live, TypeOK, Bit
  <2>4. QED
    BY <2>2, <2>3
<1>5. CASE IrqLeave
  <2>1. /\ mode = "irq" /\ mode' = "exit" /\ nest' = nest - 1
        /\ UNCHANGED <<cpu, sp, stack, tcb, irqstk, flag, from, to, current>>
    BY <1>5 DEF IrqLeave, memory, switchVars
  <2>2. TypeOK'
    BY <2>1 DEF TypeOK, Bit, NestedFrames
  <2>3. OwnContext' /\ NestedFrames'
    BY <2>1 DEF OwnContext, NestedFrames, Live
  <2>4. QED
    BY <2>2, <2>3
<1>6. CASE IrqReturn
  <2>1. /\ mode = "exit" /\ mode' = "thread" /\ flag = 0 /\ cpu' = irqstk
        /\ UNCHANGED <<sp, stack, tcb, irqstk, nest, flag, from, to, current>>
    BY <1>6 DEF IrqReturn, memory, switchVars
  <2>2. TypeOK'
    BY <2>1 DEF TypeOK
  <2>3. OwnContext' /\ NestedFrames'
    BY <2>1 DEF OwnContext, NestedFrames, Live
  <2>4. QED
    BY <2>2, <2>3
<1>7. CASE IrqSwitch
  BY <1>7, IrqSwitchInv
<1>8. CASE UNCHANGED vars
  BY <1>8 DEF vars, TypeOK, OwnContext, NestedFrames, Live
<1>9. QED
  BY <1>1, <1>2, <1>3, <1>4, <1>5, <1>6, <1>7, <1>8 DEF Next

THEOREM Invariant == Spec => []IInv
<1>1. QED
  BY Initially, Inductive, PTL DEF Spec

(***************************************************************************)
(* TypeCorrect: type correctness; in particular rt_interrupt_nest never    *)
(* exceeds 1, since vector_irq leaves interrupts masked.                   *)
(***************************************************************************)
THEOREM TypeCorrect == Spec => []TypeOK
<1>1. IInv => TypeOK
  BY DEF IInv
<1>2. QED
  BY <1>1, Invariant, PTL

(***************************************************************************)
(* ContextsSafe: every thread's frame is its own, and the core works for   *)
(* rt_current_thread (vector_irq, rt_hw_context_switch).                   *)
(***************************************************************************)
THEOREM ContextsSafe == Spec => []OwnContext
<1>1. IInv => OwnContext
  BY DEF IInv
<1>2. QED
  BY <1>1, Invariant, PTL

\* Where the state of a thread is kept when the invariant holds.
LEMMA StateOfWhere ==
  ASSUME IInv, NEW t \in Thread
  PROVE  /\ StateOf(t) = IF t = Live.who THEN Live ELSE stack[t]
         /\ StateOf(t) \in Ctx /\ Live \in Ctx
         /\ Nested(StateOf(t))
BY DEF IInv, TypeOK, OwnContext, NestedFrames, StateOf, Live

(***************************************************************************)
(* SectionsSafe: interrupts are masked exactly inside critical sections    *)
(* (rt_hw_interrupt_disable, rt_hw_interrupt_enable).                      *)
(***************************************************************************)
THEOREM SectionsSafe == Spec => []MaskedInside
<1>1. ASSUME IInv PROVE MaskedInside
  <2> SUFFICES ASSUME NEW t \in Thread
               PROVE  StateOf(t).mask = 1 <=> StateOf(t).levels # <<>>
    BY DEF MaskedInside
  <2>1. Nested(StateOf(t))
    BY <1>1, StateOfWhere
  <2>2. QED
    BY <2>1 DEF Nested
<1>2. QED
  BY <1>1, Invariant, PTL

-----------------------------------------------------------------------------
(* Refinement.                                                             *)

At == [t \in Thread |-> StateOf(t).at]
Depth == [t \in Thread |-> Len(StateOf(t).levels)]

LEMMA InitRefines == Init => Abstract!ThreadsInit
<1> SUFFICES ASSUME Init PROVE Abstract!ThreadsInit
  OBVIOUS
<1>1. IInv
  BY Initially
<1>2. \A t \in Thread : StateOf(t) = FirstFrame(t)
  BY DEF Init, StateOf, Live, FirstFrame
<1>3. \A t \in Thread : StateOf(t).at = 0 /\ Len(StateOf(t).levels) = 0
  <2> TAKE t \in Thread
  <2>1. FirstFrame(t).at = 0 /\ FirstFrame(t).levels = <<>>
    BY DEF FirstFrame
  <2>2. StateOf(t).at = 0 /\ StateOf(t).levels = <<>>
    BY <1>2, <2>1, Zenon
  <2>3. Len(<<>>) = 0
    BY EmptySeq
  <2>4. QED
    BY <2>2, <2>3, Zenon
<1>4. Live.who = First
  BY DEF Init, Live, FirstFrame
<1>5. QED
  BY <1>3, <1>4 DEF Abstract!ThreadsInit

\* A step of the running thread changes its own state only.
LEMMA OwnStep ==
  ASSUME IInv, IInv', mode = "thread", mode' = "thread",
         UNCHANGED <<stack, tcb>>, cpu'.who = cpu.who
  PROVE  /\ Live.who = cpu.who /\ Live'.who = cpu.who /\ cpu.who \in Thread
         /\ At' = [At EXCEPT ![cpu.who] = cpu'.at]
         /\ Depth' = [Depth EXCEPT ![cpu.who] = Len(cpu'.levels)]
         /\ At[cpu.who] = cpu.at
         /\ Depth[cpu.who] = Len(cpu.levels)
<1>1. Live = cpu /\ Live' = cpu' /\ cpu.who \in Thread
  BY DEF Live, IInv, TypeOK, Ctx
<1>2. \A t \in Thread :
        /\ StateOf(t) = IF t = cpu.who THEN cpu ELSE stack[tcb[t]]
        /\ StateOf(t)' = IF t = cpu.who THEN cpu' ELSE stack[tcb[t]]
  BY <1>1 DEF StateOf
<1>3. QED
  BY <1>1, <1>2 DEF At, Depth

\* A step that moves states around without changing them.
LEMMA SameStates ==
  ASSUME \A t \in Thread : StateOf(t)' = StateOf(t)
  PROVE  UNCHANGED <<At, Depth>>
BY DEF At, Depth

LEMMA ThreadStepRefines ==
  ASSUME IInv, IInv', Step \/ Disable \/ Enable
  PROVE  Abstract!Move \/ Abstract!Enter \/ Abstract!Leave
<1>1. /\ mode = "thread" /\ mode' = "thread" /\ UNCHANGED <<stack, tcb>>
      /\ cpu \in Ctx /\ Nested(cpu)
  BY DEF IInv, TypeOK, NestedFrames, Live, Step, Disable, Enable, memory
<1>2. cpu'.who = cpu.who
  BY ThreadStepInv
<1>3. /\ Live.who = cpu.who /\ Live'.who = cpu.who /\ cpu.who \in Thread
      /\ At' = [At EXCEPT ![cpu.who] = cpu'.at]
      /\ Depth' = [Depth EXCEPT ![cpu.who] = Len(cpu'.levels)]
      /\ At[cpu.who] = cpu.at
      /\ Depth[cpu.who] = Len(cpu.levels)
  BY <1>1, <1>2, OwnStep
<1>4. At = [At EXCEPT ![cpu.who] = cpu.at] /\ Depth = [Depth EXCEPT ![cpu.who] = Len(cpu.levels)]
  BY <1>3 DEF At, Depth
<1>5. CASE Step
  <2>1. cpu'.at = cpu.at + 1 /\ cpu'.levels = cpu.levels /\ cpu.at < MaxSteps
    BY <1>1, <1>5 DEF Step, Ctx
  <2>2. QED
    BY <1>3, <1>4, <2>1 DEF Abstract!Move, At, Depth
<1>6. CASE Disable
  <2>1. cpu'.at = cpu.at /\ Len(cpu'.levels) = Len(cpu.levels) + 1 /\ Len(cpu.levels) < MaxNest
    BY <1>1, <1>6, DisableFrame DEF Disable
  <2>2. QED
    BY <1>3, <1>4, <2>1 DEF Abstract!Enter, At, Depth
<1>7. CASE Enable
  <2>1. cpu'.at = cpu.at /\ Len(cpu'.levels) = Len(cpu.levels) - 1 /\ Len(cpu.levels) > 0
    BY <1>1, <1>7, EnableFrame DEF Enable
  <2>2. QED
    BY <1>3, <1>4, <2>1 DEF Abstract!Leave, At, Depth
<1>8. QED
  BY <1>5, <1>6, <1>7

LEMMA SwitchRefines ==
  ASSUME IInv, IInv', Switch
  PROVE  Abstract!Yield
<1> PICK t \in Thread \ {current} :
      /\ current' = t
      /\ stack' = [stack EXCEPT ![sp] = cpu]
      /\ tcb' = [tcb EXCEPT ![current] = sp]
      /\ sp' = tcb[t]
      /\ cpu' = stack[tcb[t]]
  BY DEF Switch
<1>1. /\ mode = "thread" /\ mode' = "thread" /\ cpu.mask = 1
      /\ Live = cpu /\ Live' = cpu' /\ cpu \in Ctx /\ Nested(cpu)
  BY DEF Switch, IInv, TypeOK, NestedFrames, Live
<1>2. flag = 0 /\ cpu.who = current /\ sp = current /\ current \in Thread
  BY <1>1 DEF IInv, TypeOK, OwnContext, Bit
<1>3. \A u \in Thread : tcb[u] = u /\ stack[u].who = u
  BY DEF IInv, OwnContext
<1>4. /\ cpu' = stack[t] /\ cpu'.who = t
      /\ \A u \in Thread : tcb'[u] = u /\ stack'[u] = IF u = current THEN cpu ELSE stack[u]
  BY <1>2, <1>3 DEF IInv, TypeOK
<1>5. \A u \in Thread : StateOf(u)' = StateOf(u)
  BY <1>1, <1>2, <1>3, <1>4 DEF StateOf
<1>6. UNCHANGED <<At, Depth>>
  BY <1>5, SameStates
<1>7. Depth[current] > 0
  <2>1. StateOf(current) = cpu
    BY <1>1, <1>2 DEF StateOf
  <2>2. cpu.levels \in Seq(Bit) /\ cpu.levels # <<>>
    BY <1>1 DEF Ctx, Nested
  <2>3. Len(cpu.levels) \in Nat \ {0}
    BY <2>2, EmptySeq
  <2>4. QED
    BY <1>2, <2>1, <2>3 DEF Depth
<1>8. QED
  BY <1>1, <1>2, <1>4, <1>6, <1>7 DEF Abstract!Yield, Abstract!GiveWay, At, Depth

LEMMA IrqSwitchRefines ==
  ASSUME IInv, IInv', IrqSwitch
  PROVE  Abstract!Preempt \/ UNCHANGED Abstract!threadVars
<1>1. /\ stack' = [stack EXCEPT ![irqstk.who] = irqstk]
      /\ tcb' = tcb
      /\ cpu' = IF current = irqstk.who THEN irqstk ELSE stack[current]
      /\ mode # "thread" /\ mode' = "thread"
  BY IrqSwitchInv
<1>2. Live = irqstk /\ Live' = cpu' /\ irqstk.who \in Thread /\ current \in Thread
  BY <1>1 DEF Live, IInv, TypeOK, Ctx
<1>3. \A u \in Thread : tcb[u] = u /\ stack[u].who = u
  BY DEF IInv, OwnContext
<1>4. cpu'.who = current
  BY <1>1, <1>2, <1>3
<1>5. \A u \in Thread : stack'[u] = IF u = irqstk.who THEN irqstk ELSE stack[u]
  BY <1>1, <1>2 DEF IInv, TypeOK
<1>6. \A u \in Thread : StateOf(u)' = StateOf(u)
  BY <1>1, <1>2, <1>3, <1>4, <1>5 DEF StateOf
<1>7. UNCHANGED <<At, Depth>>
  BY <1>6, SameStates
<1>8. CASE current = irqstk.who
  BY <1>2, <1>4, <1>7, <1>8 DEF Abstract!threadVars, At, Depth
<1>9. CASE current # irqstk.who
  <2>1. StateOf(irqstk.who) = irqstk
    BY <1>2 DEF StateOf
  <2>2. irqstk.mask = 0 /\ Nested(irqstk)
    BY <1>1, <1>2 DEF IInv, NestedFrames
  <2>3. Len(irqstk.levels) = 0
    BY <2>2, EmptySeq DEF Nested
  <2>4. Depth[irqstk.who] = 0
    BY <1>2, <2>1, <2>3 DEF Depth
  <2>5. QED
    BY <1>2, <1>4, <1>7, <1>9, <2>4 DEF Abstract!Preempt, Abstract!GiveWay, At, Depth
<1>10. QED
  BY <1>8, <1>9

LEMMA NextRefines ==
  ASSUME IInv, IInv', [Next]_vars
  PROVE  [Abstract!ThreadsNext]_Abstract!threadVars
<1>1. CASE Step \/ Disable \/ Enable
  BY <1>1, ThreadStepRefines DEF Abstract!ThreadsNext
<1>2. CASE Switch
  BY <1>2, SwitchRefines DEF Abstract!ThreadsNext
<1>3. CASE IrqSwitch
  BY <1>3, IrqSwitchRefines DEF Abstract!ThreadsNext
<1>4. CASE IrqEnter \/ IrqSchedule \/ IrqLeave \/ IrqReturn \/ UNCHANGED vars
  <2>1. Live' = Live /\ UNCHANGED <<stack, tcb>>
    BY <1>4 DEF Live, IrqEnter, IrqSchedule, IrqLeave, IrqReturn, vars, memory
  <2>2. \A t \in Thread : StateOf(t)' = StateOf(t)
    BY <2>1 DEF StateOf
  <2>3. UNCHANGED <<At, Depth>>
    BY <2>2, SameStates
  <2>4. QED
    BY <2>1, <2>3 DEF Abstract!threadVars, At, Depth
<1>5. QED
  BY <1>1, <1>2, <1>3, <1>4 DEF Next

(***************************************************************************)
(* RefinesThreads: however interrupts, switches and critical sections      *)
(* fall, every thread runs as if alone (vector_irq, rt_hw_context_switch). *)
(***************************************************************************)
THEOREM RefinesThreads == Spec => ImplementsThreads
<1>1. QED
  BY InitRefines, Invariant, NextRefines, PTL
     DEF Spec, ImplementsThreads, Abstract!ThreadsSpec
=============================================================================
