------------------------- MODULE IrqDispatchProofs -------------------------
(***************************************************************************)
(* That rt_hw_trap_irq meets only handlers that are ready, for every set   *)
(* of vectors.  The invariant ties the enable bit, which lets a vector     *)
(* through, to the place its driver has reached, and that place to what    *)
(* isr_table holds.                                                        *)
(***************************************************************************)
EXTENDS IrqDispatch, TLAPS

\* What the driver of a vector has stored by each of its steps.
Stored(i) == /\ step[i] # "New" => handler[i] = i
             /\ step[i] \notin {"New", "Param"} => param[i] = i
             /\ enabled[i] = 1 => step[i] = "Unmasked"

\* There is a vector in service only in the trap, where drivers stand still.
Taken == vect # None => core \in {"Handle", "Served"} /\ step[vect] = "Unmasked"

Inv == TypeOK /\ (\A i \in Irqs : Stored(i)) /\ Taken

LEMMA InitInv == Init => Inv
<1>. SUFFICES ASSUME Init PROVE Inv
  OBVIOUS
<1>1. TypeOK
  BY DispatchAssumption DEF Init, TypeOK, Step, Bit
<1>2. ASSUME NEW i \in Irqs PROVE Stored(i)
  BY DEF Init, Stored
<1>3. Taken
  BY DEF Init, Taken
<1>. QED
  BY <1>1, <1>2, <1>3 DEF Inv

\* A device changes nothing the invariant speaks of but its own request.
LEMMA DeviceStep == ASSUME Inv, NEW j \in Irqs, Device(j) PROVE Inv'
<1>1. TypeOK'
  <2>1. CASE Raise(j)
    BY <2>1 DEF Inv, TypeOK, Raise, driverVars, gicVars, coreVars, Bit
  <2>2. CASE Withdraw(j)
    BY <2>2 DEF Inv, TypeOK, Withdraw, driverVars, gicVars, coreVars, Bit
  <2>. QED
    BY <2>1, <2>2 DEF Device
<1>2. UNCHANGED <<step, handler, param, enabled, core, vect>>
  BY DEF Device, Raise, Withdraw, driverVars, gicVars, coreVars
<1>. QED
  BY <1>1, <1>2 DEF Inv, Stored, Taken

\* A store of a driver moves its own vector only, in thread mode.
LEMMA DriverStep ==
    ASSUME Inv, NEW j \in Irqs, Install(j) \/ Unmask(j) \/ Mask(j)
    PROVE  Inv'
<1>. USE DEF Inv, TypeOK, Step, Store, deviceVars, coreVars, gicVars, Stored, Taken
<1>1. CASE InstallHandler(j)
  BY <1>1 DEF InstallHandler
<1>2. CASE InstallParam(j)
  BY <1>2 DEF InstallParam
<1>3. CASE SetSecurity(j)
  BY <1>3 DEF SetSecurity, GroupBit, Bit
<1>4. CASE SetTarget(j)
  BY <1>4 DEF SetTarget, Bit
<1>5. CASE Enable(j)
  BY <1>5 DEF Enable, Bit
<1>6. CASE Disable(j)
  BY <1>6 DEF Disable, Bit
<1>7. CASE ClearTarget(j)
  BY <1>7 DEF ClearTarget, Bit
<1>. QED
  BY <1>1, <1>2, <1>3, <1>4, <1>5, <1>6, <1>7 DEF Install, Unmask, Mask

\* The trap takes an enabled vector, whose driver is therefore ready, and
\* leaves the drivers alone.
LEMMA TrapStep == ASSUME Inv, Trap PROVE Inv'
<1>. USE DEF Inv, TypeOK, driverVars, deviceVars, gicVars, Stored, Taken
<1>1. CASE Enter
  BY <1>1 DEF Enter
<1>2. CASE Acknowledge
  <2>1. CASE vect' = None
    BY <1>2, <2>1, DispatchAssumption DEF Acknowledge, Bit
  <2>2. CASE vect' # None
    <3>1. PICK i \in Irqs : /\ Signalled(i) /\ vect' = i
                            /\ active' = [active EXCEPT ![i] = 1]
      BY <1>2, <2>2 DEF Acknowledge
    <3>2. step[i] = "Unmasked"
      BY <3>1 DEF Signalled
    <3>3. /\ vect = None /\ core' = "Handle"
          /\ UNCHANGED <<step, handler, param, enabled, target, group, device, raised>>
      BY <1>2 DEF Acknowledge
    <3>4. \A k \in Irqs : active'[k] = 1 <=> vect' = k
      BY <3>1, <3>3, DispatchAssumption
    <3>5. active' \in [Irqs -> Bit]
      BY <3>1 DEF Bit
    <3>. QED
      BY <3>1, <3>2, <3>3, <3>4, <3>5
  <2>. QED
    BY <2>1, <2>2
<1>3. CASE Handle
  BY <1>3 DEF Handle, Bit
<1>4. CASE EndOfIrq
  BY <1>4, DispatchAssumption DEF EndOfIrq, Bit
<1>. QED
  BY <1>1, <1>2, <1>3, <1>4 DEF Trap

LEMMA Invariance == Spec => []Inv
<1>1. Inv /\ [Next]_vars => Inv'
  <2>. SUFFICES ASSUME Inv, [Next]_vars PROVE Inv'
    OBVIOUS
  <2>1. CASE Next
    BY <2>1, DeviceStep, DriverStep, TrapStep DEF Next
  <2>2. CASE UNCHANGED vars
    BY <2>2 DEF vars, driverVars, gicVars, deviceVars, coreVars,
                Inv, TypeOK, Stored, Taken
  <2>. QED
    BY <2>1, <2>2
<1>. QED
  BY <1>1, InitInv, PTL DEF Spec

\* Types, for every set of vectors.
THEOREM TypeCorrect == Spec => []TypeOK
<1>1. Inv => TypeOK
  BY DEF Inv
<1>. QED
  BY <1>1, Invariance, PTL

\* No interrupt meets a vector whose handler and parameter are not both
\* installed, or whose driver has masked it.
THEOREM AlwaysReady == Spec => []HandlerReady
<1>1. Inv => HandlerReady
  BY DEF Inv, TypeOK, Stored, Taken, HandlerReady
<1>. QED
  BY <1>1, Invariance, PTL
=============================================================================
