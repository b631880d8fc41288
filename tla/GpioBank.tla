------------------------------ MODULE GpioBank ------------------------------
(***************************************************************************)
(* The pins of a bank (uboot/sunxi_gpio.c, uboot/pinmux.c): every register *)
(* holds a field of every pin, and a call reads it, changes its pin's      *)
(* field and writes it back, without a lock.  The two bit-banged I2C buses *)
(* of driver/drv_i2c.c have their pins in one bank; the lock of a bus      *)
(* keeps apart the calls on that bus, not those of the other.              *)
(*                                                                         *)
(* The data register of the bank shows the level of a pin that is an       *)
(* input, and what was last written of one that is an output.  A call that *)
(* sets some other pin therefore writes the level of every input into what *)
(* that pin will drive once it is an output again.                         *)
(***************************************************************************)
EXTENDS Sequences

CONSTANTS Buses,  \* the I2C buses of the bank
          BusLines \* the lines of a bus

VARIABLES bank,         \* what was written: cfg (1 for output) and dat
          bankTodo,     \* the steps a bus still has to make in its call
          bankRead,     \* the register as a bus has read it for the first of them
          bankGot,      \* the level a bus read last, beside what the devices drove then
          bankAsked,    \* history: what every pin was set to last
          bankCrossed   \* history: fields written while another bus was between
                        \* its reading and its writing of the register

bankVars == <<bank, bankTodo, bankRead, bankGot, bankAsked, bankCrossed>>

Pins == Buses \X BusLines
Registers == {"cfg", "dat"}

Nothing == <<>>  \* no copy of a register, no level read

\* rt_hw_i2c_init: outputs, and high, with the pull-up on.
BankInit ==
    /\ bank = [reg \in Registers |-> [pin \in Pins |-> 1]]
    /\ bankAsked = bank
    /\ bankTodo = [bus \in Buses |-> <<>>]
    /\ bankRead = [bus \in Buses |-> Nothing]
    /\ bankGot = [bus \in Buses |-> Nothing]
    /\ bankCrossed = {}

\* The level of a pin while devices hold the lines of some of the pins low,
\* which they may do or stop doing at any time.
Driven(pin, held) == IF pin \in held THEN 0 ELSE 1

Level(pin, held) == IF bank["cfg"][pin] = 1 THEN bank["dat"][pin] ELSE Driven(pin, held)

\* What a register reads as.
Shown(register, held) ==
    [pin \in Pins |-> IF register = "dat" THEN Level(pin, held) ELSE bank[register][pin]]

Update(register, pin, field) == [reg |-> register, pin |-> pin, field |-> field]
LevelOf(pin) == [reg |-> "level", pin |-> pin, field |-> 0]

Begin(bus, steps) ==
    /\ bankTodo[bus] = <<>>
    /\ bankTodo' = [bankTodo EXCEPT ![bus] = steps]
    /\ bankGot' = [bankGot EXCEPT ![bus] = Nothing]
    /\ UNCHANGED <<bank, bankRead, bankAsked, bankCrossed>>

\* gpio_set_sda and gpio_set_scl: gpio_direction_output.
SetLine(bus) ==
    \E line \in BusLines, level \in {0, 1} :
       Begin(bus, <<Update("cfg", <<bus, line>>, 1), Update("dat", <<bus, line>>, level)>>)

\* gpio_get_sda and gpio_get_scl: gpio_direction_input, then the level.
GetLine(bus) ==
    \E line \in BusLines :
       Begin(bus, <<Update("cfg", <<bus, line>>, 0), LevelOf(<<bus, line>>)>>)

StepOf(bus) == Head(bankTodo[bus])  \* the step at which a bus is

\* readl
ReadRegister(bus) ==
    /\ bankTodo[bus] # <<>> /\ StepOf(bus).reg \in Registers
    /\ bankRead[bus] = Nothing
    /\ \E held \in SUBSET Pins :
          bankRead' = [bankRead EXCEPT ![bus] = Shown(StepOf(bus).reg, held)]
    /\ UNCHANGED <<bank, bankTodo, bankGot, bankAsked, bankCrossed>>

\* Fault: the register is written with the field of this pin alone.
ChangedAlone(copy, u) == [pin \in Pins |-> IF pin = u.pin THEN u.field ELSE 0]

\* The fields of the other pins are written as they were read.
Changed(copy, u) == [copy EXCEPT ![u.pin] = u.field]

Between(bus, register) == bankRead[bus] # Nothing /\ StepOf(bus).reg = register

\* writel
WriteRegister(bus) ==
    /\ bankRead[bus] # Nothing
    /\ LET u == StepOf(bus)
           crossing == \E other \in Buses \ {bus} : Between(other, u.reg)
           here == {<<u.reg, u.pin>>}
       IN /\ bank' = [bank EXCEPT ![u.reg] = Changed(bankRead[bus], u)]
          /\ bankAsked' = [bankAsked EXCEPT ![u.reg][u.pin] = u.field]
          /\ bankCrossed' = IF crossing THEN bankCrossed \cup here ELSE bankCrossed \ here
    /\ bankTodo' = [bankTodo EXCEPT ![bus] = Tail(@)]
    /\ bankRead' = [bankRead EXCEPT ![bus] = Nothing]
    /\ UNCHANGED bankGot

\* gpio_get_value: the level of the pin is what the call returns.
ReadLevel(bus) ==
    /\ bankTodo[bus] # <<>> /\ StepOf(bus).reg = "level"
    /\ LET pin == StepOf(bus).pin IN
       \E held \in SUBSET {pin} :
          bankGot' = [bankGot EXCEPT ![bus] =
             [pin |-> pin, level |-> Level(pin, held), driven |-> Driven(pin, held)]]
    /\ bankTodo' = [bankTodo EXCEPT ![bus] = Tail(@)]
    /\ UNCHANGED <<bank, bankRead, bankAsked, bankCrossed>>

BankNext ==
    \E bus \in Buses :
       \/ SetLine(bus) \/ GetLine(bus)
       \/ ReadRegister(bus) \/ WriteRegister(bus) \/ ReadLevel(bus)

BankSpec == BankInit /\ [][BankNext]_bankVars

-----------------------------------------------------------------------------
(* Properties *)

NotLost(register, pin) == <<register, pin>> \notin bankCrossed

UnderWay(pin) == bankTodo[pin[1]] # <<>> /\ StepOf(pin[1]).pin = pin

\* An output no call on which is under way, its direction and level not lost.
Settled(pin) ==
    /\ bankAsked["cfg"][pin] = 1 /\ ~UnderWay(pin)
    /\ NotLost("cfg", pin) /\ NotLost("dat", pin)

DirectionsAsSet ==
    \A pin \in Pins : NotLost("cfg", pin) => bank["cfg"][pin] = bankAsked["cfg"][pin]

LevelsAsSet == \A pin \in Pins : Settled(pin) => bank["dat"][pin] = bankAsked["dat"][pin]

LevelsAsDriven ==
    \A bus \in Buses :
       LET got == bankGot[bus] IN
       got # Nothing /\ NotLost("cfg", got.pin) => got.level = got.driven

\* A line is an input or an output as its own bus last asked, an output whose
\* call is over drives the level asked for, and the level that is read of a
\* line is the one the devices on it drive, although every write of a register
\* rewrites the fields of all the other pins and a pin that was an input may
\* have any level left in its field.  A write of the direction or the level is
\* at risk only when it falls between the reading and the writing of the same
\* register by the other bus (the code has no lock against that), and only
\* until the same line is set again: the other lines are not.
LinesAsSet == DirectionsAsSet /\ LevelsAsSet /\ LevelsAsDriven

=============================================================================
