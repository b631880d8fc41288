---------------------------- MODULE IrqDispatch ----------------------------
(***************************************************************************)
(* Dispatch of device interrupts: the GIC as cpu/gic.c drives it,          *)
(* isr_table of cpu/interrupt.c and rt_hw_trap_irq of cpu/trap.c.          *)
(*                                                                         *)
(* Each vector belongs to one driver, which installs its handler, unmasks  *)
(* the vector and may mask and unmask it later (the console when it is     *)
(* opened and closed), while its device raises interrupts at any moment,   *)
(* also before the driver is ready.  A handler serves its device.          *)
(***************************************************************************)
EXTENDS Integers

CONSTANTS Irqs,         \* vectors
          None,         \* no handler, no parameter, no vector
          MaxRaised     \* bound on the interrupts of a device

ASSUME DispatchAssumption == None \notin Irqs /\ MaxRaised \in Nat

VARIABLES step,     \* per vector: where its driver is
          handler,  \* per vector: the driver whose handler is installed
          param,    \* per vector: the driver whose parameter is installed
          enabled,  \* per vector: set-enable bit
          target,   \* per vector: bit of the core in ITARGETSRn
          group,    \* per vector: bit in IGROUPRn, 1 for non-secure
          active,   \* per vector: acknowledged and not ended
          device,   \* per vector: 1 while the device asks for service
          raised,   \* per vector: number of times it did
          core,     \* "Thread", "Entered", "Handle", "Served"
          vect      \* vectNum of rt_hw_trap_irq, None when spurious

driverVars == <<step, handler, param>>
gicVars == <<enabled, target, group, active>>
deviceVars == <<device, raised>>
coreVars == <<core, vect>>
vars == <<driverVars, gicVars, deviceVars, coreVars>>

Bit == {0, 1}

\* rt_hw_interrupt_init: memset of isr_table, gic_init, which puts every vector
\* in group 0.  It leaves the enable bits and the targets alone: that they are 0
\* is the reset state of the distributor, and assumed here.
Init == /\ step = [i \in Irqs |-> "New"]
        /\ handler = [i \in Irqs |-> None] /\ param = [i \in Irqs |-> None]
        /\ enabled = [i \in Irqs |-> 0] /\ target = [i \in Irqs |-> 0]
        /\ group = [i \in Irqs |-> 0] /\ active = [i \in Irqs |-> 0]
        /\ device = [i \in Irqs |-> 0] /\ raised = [i \in Irqs |-> 0]
        /\ core = "Thread" /\ vect = None

\* The distributor signals the vector to the core.
Signalled(i) == device[i] = 1 /\ enabled[i] = 1 /\ target[i] = 1 /\ active[i] = 0

-----------------------------------------------------------------------------
(* Devices *)

Raise(i) ==
    /\ raised[i] < MaxRaised /\ device[i] = 0
    /\ device' = [device EXCEPT ![i] = 1]
    /\ raised' = [raised EXCEPT ![i] = @ + 1]
    /\ UNCHANGED <<driverVars, gicVars, coreVars>>

\* The device takes its request back, as the UART does when a thread reads
\* the character by polling.
Withdraw(i) ==
    /\ device[i] = 1
    /\ device' = [device EXCEPT ![i] = 0]
    /\ UNCHANGED <<driverVars, gicVars, raised, coreVars>>

-----------------------------------------------------------------------------
(* Drivers, in thread mode.  Interrupts may come between any two stores. *)

Store(i, from, to) ==
    /\ core = "Thread" /\ step[i] = from
    /\ step' = [step EXCEPT ![i] = to]
    /\ UNCHANGED <<deviceVars, coreVars>>

\* rt_hw_interrupt_install stores the handler, then its parameter.
InstallHandler(i) ==
    /\ Store(i, "New", "Param")
    /\ handler' = [handler EXCEPT ![i] = i]
    /\ UNCHANGED <<param, gicVars>>

InstallParam(i) ==
    /\ Store(i, "Param", "Masked")
    /\ param' = [param EXCEPT ![i] = i]
    /\ UNCHANGED <<handler, gicVars>>

\* The bit of IGROUPRn that gic_set_irq_security writes.
GroupBit(isSecure) == IF isSecure THEN 1 ELSE 0

\* enable_interrupt: priority and group, the core as target, then the enable
\* bit.
SetSecurity(i) ==
    /\ Store(i, "Masked", "Target")
    /\ group' = [group EXCEPT ![i] = GroupBit(FALSE)]
    /\ UNCHANGED <<handler, param, enabled, target, active>>

SetTarget(i) ==
    /\ Store(i, "Target", "Enable")
    /\ target' = [target EXCEPT ![i] = 1]
    /\ UNCHANGED <<handler, param, enabled, group, active>>

\* Fault: the vector is enabled before the parameter is stored.
EnableEarly(i) ==
    /\ Store(i, "Param", "Unmasked")
    /\ enabled' = [enabled EXCEPT ![i] = 1]
    /\ target' = [target EXCEPT ![i] = 1]
    /\ UNCHANGED <<handler, param, group, active>>
Enable(i) ==
    /\ Store(i, "Enable", "Unmasked")
    /\ enabled' = [enabled EXCEPT ![i] = 1]
    /\ UNCHANGED <<handler, param, target, group, active>>

\* Fault: only the target is cleared.
DisableTarget(i) ==
    /\ Store(i, "Unmasked", "Untarget")
    /\ UNCHANGED <<handler, param, enabled, target, group, active>>
\* disable_interrupt
Disable(i) ==
    /\ Store(i, "Unmasked", "Untarget")
    /\ enabled' = [enabled EXCEPT ![i] = 0]
    /\ UNCHANGED <<handler, param, target, group, active>>

ClearTarget(i) ==
    /\ Store(i, "Untarget", "Masked")
    /\ target' = [target EXCEPT ![i] = 0]
    /\ UNCHANGED <<handler, param, enabled, group, active>>

-----------------------------------------------------------------------------
(* rt_hw_trap_irq, with interrupts masked. *)

\* The core takes the interrupt exception.
Enter ==
    /\ core = "Thread" /\ \E i \in Irqs : Signalled(i)
    /\ core' = "Entered"
    /\ UNCHANGED <<driverVars, gicVars, deviceVars, vect>>

\* gic_read_irq_ack: a signalled vector, of which it becomes active, or a
\* spurious one when the device took its request back.
Acknowledge ==
    /\ core = "Entered"
    /\ core' = "Handle"
    /\ \/ \E i \in Irqs : /\ Signalled(i)
                          /\ vect' = i
                          /\ active' = [active EXCEPT ![i] = 1]
       \/ /\ ~\E i \in Irqs : Signalled(i)
          /\ vect' = None
          /\ UNCHANGED active
    /\ UNCHANGED <<driverVars, enabled, target, group, deviceVars>>

\* The handler of the vector, if there is one, is called with its parameter
\* and serves the device.
Handle ==
    /\ core = "Handle"
    /\ core' = "Served"
    /\ device' = IF vect # None /\ handler[vect] # None
                 THEN [device EXCEPT ![vect] = 0] ELSE device
    /\ UNCHANGED <<driverVars, gicVars, raised, vect>>

\* Fault: only the end of a spurious interrupt is signalled.
EndOfSpurious ==
    /\ core = "Served"
    /\ core' = "Thread" /\ vect' = None
    /\ UNCHANGED <<driverVars, gicVars, deviceVars>>
\* gic_write_end_of_irq, which leaves a spurious interrupt alone.
EndOfIrq ==
    /\ core = "Served"
    /\ core' = "Thread" /\ vect' = None
    /\ active' = IF vect = None THEN active ELSE [active EXCEPT ![vect] = 0]
    /\ UNCHANGED <<driverVars, enabled, target, group, deviceVars>>

-----------------------------------------------------------------------------
Device(i) == Raise(i) \/ Withdraw(i)
Install(i) == InstallHandler(i) \/ InstallParam(i)
Unmask(i) == SetSecurity(i) \/ SetTarget(i) \/ Enable(i)
Mask(i) == Disable(i) \/ ClearTarget(i)
Trap == Enter \/ Acknowledge \/ Handle \/ EndOfIrq

Next == Trap \/ \E i \in Irqs : Device(i) \/ Install(i) \/ Unmask(i) \/ Mask(i)
Spec == Init /\ [][Next]_vars
\* The core takes a signalled interrupt and goes on with its program.
FairSpec == Spec /\ WF_vars(Trap)

-----------------------------------------------------------------------------
(* Properties *)

Step == {"New", "Param", "Masked", "Target", "Enable", "Unmasked", "Untarget"}

\* Types; a vector is active exactly while rt_hw_trap_irq serves it.
TypeOK ==
    /\ step \in [Irqs -> Step]
    /\ handler \in [Irqs -> Irqs \cup {None}] /\ param \in [Irqs -> Irqs \cup {None}]
    /\ enabled \in [Irqs -> Bit] /\ target \in [Irqs -> Bit]
    /\ group \in [Irqs -> Bit] /\ active \in [Irqs -> Bit]
    /\ device \in [Irqs -> Bit] /\ raised \in [Irqs -> Nat]
    /\ core \in {"Thread", "Entered", "Handle", "Served"}
    /\ vect \in Irqs \cup {None}
    /\ \A i \in Irqs : active[i] = 1 <=> vect = i

\* rt_hw_trap_irq takes a vector only between its driver's unmask and mask,
\* finds the driver's handler there and the parameter that goes with it: no
\* interrupt, however early its device raises it, meets a handler with the
\* parameter of nobody.
HandlerReady ==
    (core = "Handle" /\ vect # None)
        => step[vect] = "Unmasked" /\ handler[vect] = vect /\ param[vect] = vect

\* Each interrupt of an unmasked vector is served unless the device or the
\* driver takes it back: none is lost to an earlier one of its own vector,
\* to a spurious one or to one raised while the vector was masked.
Answered ==
    \A i \in Irqs : (device[i] = 1 /\ step[i] = "Unmasked")
                        ~> (device[i] = 0 \/ step[i] # "Unmasked")
=============================================================================
