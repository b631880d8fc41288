---------------------------- MODULE SharedProofs ----------------------------
(***************************************************************************)
(* That the three memories several parties share without a lock keep what  *)
(* each of them put there, for any number of parties: the registers of a   *)
(* GPIO bank, the frame buffers of the display, and memory that the CPU    *)
(* reaches through its cache and the DMA does not.                         *)
(*                                                                         *)
(* Each part has an inductive invariant of its own.  For the bank, a copy  *)
(* that a bus has read has every direction as asked and every output that  *)
(* nobody is setting at its level, and what inputs show in it matters to   *)
(* nobody; for the display, the buffer of the index is or will be the one  *)
(* given to the mixer, and a single update has everything to itself; for   *)
(* the cache, every word of the buffer is followed along its way to the    *)
(* DMA and back.                                                           *)
(***************************************************************************)
EXTENDS GpioBank, LcdBuffers, CacheRange, TLAPS

-----------------------------------------------------------------------------
(* The registers of a GPIO bank *)

\* What is left of a call of gpio_set_sda, gpio_get_sda and their like.
SetsLeft(pin, level) ==
    {<<Update("cfg", pin, 1), Update("dat", pin, level)>>, <<Update("dat", pin, level)>>}
GetsLeft(pin) == {<<Update("cfg", pin, 0), LevelOf(pin)>>, <<LevelOf(pin)>>}

BankTypes ==
    /\ bank \in [Registers -> [Pins -> {0, 1}]]
    /\ bankAsked \in [Registers -> [Pins -> {0, 1}]]
    /\ DOMAIN bankTodo = Buses /\ DOMAIN bankRead = Buses /\ DOMAIN bankGot = Buses
    /\ \A bus \in Buses : bankTodo[bus] # <<>> =>
          \E line \in BusLines, level \in {0, 1} :
             bankTodo[bus] \in SetsLeft(<<bus, line>>, level) \cup GetsLeft(<<bus, line>>)
    /\ \A bus \in Buses : bankRead[bus] # Nothing =>
          /\ bankTodo[bus] # <<>> /\ StepOf(bus).reg \in Registers
          /\ bankRead[bus] \in [Pins -> {0, 1}]

\* A register as a bus has read it shows what was asked but for fields another
\* bus has written since, whatever the levels of the inputs.
CopiesAsSet ==
    \A bus \in Buses : bankRead[bus] # Nothing =>
       /\ StepOf(bus).reg = "cfg" =>
             \A pin \in Pins : NotLost("cfg", pin) => bankRead[bus][pin] = bankAsked["cfg"][pin]
       /\ StepOf(bus).reg = "dat" =>
             \A pin \in Pins : Settled(pin) => bankRead[bus][pin] = bankAsked["dat"][pin]

\* A line whose level is about to be read was made an input.
InputsAsked ==
    \A bus \in Buses : bankTodo[bus] # <<>> /\ StepOf(bus).reg = "level" =>
       bankAsked["cfg"][StepOf(bus).pin] = 0

\* A level read is of a line of the bus, and is there until the next call.
LevelsOwn ==
    \A bus \in Buses : bankGot[bus] # Nothing =>
       /\ bankTodo[bus] = <<>>
       /\ bankGot[bus].pin \in Pins /\ bankGot[bus].pin[1] = bus

BankInv == BankTypes /\ LinesAsSet /\ CopiesAsSet /\ InputsAsked /\ LevelsOwn

\* rt_hw_i2c_init leaves every line as asked.
LEMMA BankInitInv == BankInit => BankInv
BY DEF BankInit, BankInv, BankTypes, LinesAsSet, DirectionsAsSet, LevelsAsSet, LevelsAsDriven,
       CopiesAsSet, InputsAsked, LevelsOwn, Nothing

\* The step at which a call is, and what it leaves to do: the direction of a
\* line is followed by its level, written or read, and nothing follows that.
LEMMA StepsOfCall ==
    ASSUME BankTypes, NEW bus \in Buses, bankTodo[bus] # <<>>
    PROVE  LET u == StepOf(bus)
               rest == Tail(bankTodo[bus])
           IN /\ u.pin \in Pins /\ u.pin[1] = bus
              /\ u.reg \in Registers \cup {"level"} /\ u.field \in {0, 1}
              /\ u.reg # "cfg" => rest = <<>>
              /\ u.reg = "cfg" => rest # <<>> /\ Head(rest).pin = u.pin
              /\ u.reg = "cfg" /\ Head(rest).reg = "level" => u.field = 0
              /\ rest # <<>> => \E line \in BusLines, level \in {0, 1} :
                    rest \in SetsLeft(<<bus, line>>, level) \cup GetsLeft(<<bus, line>>)
<1>1. PICK line \in BusLines, level \in {0, 1} :
         bankTodo[bus] \in SetsLeft(<<bus, line>>, level) \cup GetsLeft(<<bus, line>>)
  BY DEF BankTypes
<1>2. PICK pin : pin = <<bus, line>>
  OBVIOUS
<1>3. pin \in Pins /\ pin[1] = bus
  BY <1>2 DEF Pins
<1>4. CASE bankTodo[bus] = <<Update("cfg", pin, 1), Update("dat", pin, level)>>
  <2>1. /\ StepOf(bus) = Update("cfg", pin, 1)
        /\ Tail(bankTodo[bus]) = <<Update("dat", pin, level)>>
    BY <1>4 DEF StepOf
  <2>2. Tail(bankTodo[bus]) \in SetsLeft(<<bus, line>>, level)
    BY <1>2, <2>1 DEF SetsLeft
  <2>3. /\ StepOf(bus).pin = pin /\ StepOf(bus).reg = "cfg" /\ StepOf(bus).field = 1
        /\ Tail(bankTodo[bus]) # <<>>
        /\ Head(Tail(bankTodo[bus])).pin = pin /\ Head(Tail(bankTodo[bus])).reg = "dat"
    <3>1. \A s : <<s>> # <<>> /\ Head(<<s>>) = s
      OBVIOUS
    <3>2. /\ Tail(bankTodo[bus]) # <<>>
          /\ Head(Tail(bankTodo[bus])) = Update("dat", pin, level)
      BY <2>1, <3>1
    <3> QED
      BY <2>1, <3>2 DEF Update
  <2> QED
    BY <1>3, <1>2, <2>2, <2>3 DEF Registers
<1>5. CASE bankTodo[bus] = <<Update("dat", pin, level)>>
  <2>1. StepOf(bus) = Update("dat", pin, level) /\ Tail(bankTodo[bus]) = <<>>
    BY <1>5 DEF StepOf
  <2> QED
    BY <1>3, <2>1 DEF Update, Registers
<1>6. CASE bankTodo[bus] = <<Update("cfg", pin, 0), LevelOf(pin)>>
  <2>1. /\ StepOf(bus) = Update("cfg", pin, 0)
        /\ Tail(bankTodo[bus]) = <<LevelOf(pin)>>
    BY <1>6 DEF StepOf
  <2>2. Tail(bankTodo[bus]) \in GetsLeft(<<bus, line>>)
    BY <1>2, <2>1 DEF GetsLeft
  <2>3. /\ StepOf(bus).pin = pin /\ StepOf(bus).reg = "cfg" /\ StepOf(bus).field = 0
        /\ Tail(bankTodo[bus]) # <<>> /\ Head(Tail(bankTodo[bus])).pin = pin
    <3>1. \A s : <<s>> # <<>> /\ Head(<<s>>) = s
      OBVIOUS
    <3>2. /\ Tail(bankTodo[bus]) # <<>>
          /\ Head(Tail(bankTodo[bus])) = LevelOf(pin)
      BY <2>1, <3>1
    <3> QED
      BY <2>1, <3>2 DEF Update, LevelOf
  <2> QED
    BY <1>3, <1>2, <2>2, <2>3 DEF Registers
<1>7. CASE bankTodo[bus] = <<LevelOf(pin)>>
  <2>1. StepOf(bus) = LevelOf(pin) /\ Tail(bankTodo[bus]) = <<>>
    BY <1>7 DEF StepOf
  <2> QED
    BY <1>3, <2>1 DEF LevelOf, Registers
<1> QED
  BY <1>1, <1>2, <1>4, <1>5, <1>6, <1>7 DEF SetsLeft, GetsLeft

\* gpio_set_sda, gpio_get_sda and their like only begin: the lines of the others
\* stay as they are, and the line of the call is no longer settled.
LEMMA BeginStep ==
    ASSUME BankInv, NEW bus \in Buses, SetLine(bus) \/ GetLine(bus)
    PROVE  BankInv'
<1>1. PICK line \in BusLines, level \in {0, 1}, steps \in {bankTodo'[bus]} :
         /\ steps \in SetsLeft(<<bus, line>>, level) \cup GetsLeft(<<bus, line>>)
         /\ steps # <<>> /\ Head(steps).reg = "cfg"
         /\ Begin(bus, steps)
  <2>1. \A steps : Begin(bus, steps) => bankTodo'[bus] = steps
    BY DEF Begin, BankInv, BankTypes
  <2>2. CASE SetLine(bus)
    <3>1. PICK line \in BusLines, level \in {0, 1} :
             Begin(bus, <<Update("cfg", <<bus, line>>, 1), Update("dat", <<bus, line>>, level)>>)
      BY <2>2 DEF SetLine
    <3> QED
      BY <2>1, <3>1 DEF SetsLeft, Update
  <2>3. CASE GetLine(bus)
    <3>1. PICK line \in BusLines :
             Begin(bus, <<Update("cfg", <<bus, line>>, 0), LevelOf(<<bus, line>>)>>)
      BY <2>3 DEF GetLine
    <3> QED
      BY <2>1, <3>1 DEF GetsLeft, Update
  <2> QED
    BY <2>2, <2>3
<1>2. /\ bankTodo[bus] = <<>> /\ bankTodo' = [bankTodo EXCEPT ![bus] = steps]
      /\ bankGot' = [bankGot EXCEPT ![bus] = Nothing]
      /\ UNCHANGED <<bank, bankRead, bankAsked, bankCrossed>>
  BY <1>1 DEF Begin
<1>3. bankRead[bus] = Nothing
  BY <1>2 DEF BankInv, BankTypes
<1>4. /\ bankTodo'[bus] = steps /\ bankGot'[bus] = Nothing
      /\ \A b \in Buses : b # bus => bankTodo'[b] = bankTodo[b] /\ bankGot'[b] = bankGot[b]
      /\ DOMAIN bankTodo' = Buses /\ DOMAIN bankGot' = Buses
  BY <1>2 DEF BankInv, BankTypes
<1>5. BankTypes'
  BY <1>1, <1>2, <1>3, <1>4 DEF BankInv, BankTypes, StepOf
<1>6. \A pin \in Pins : Settled(pin)' => Settled(pin)
  <2>1. \A pin \in Pins : UnderWay(pin) => UnderWay(pin)'
    BY <1>2, <1>4 DEF UnderWay, StepOf, Pins
  <2> QED
    BY <1>2, <2>1 DEF Settled, NotLost
<1>7. LinesAsSet'
  BY <1>2, <1>4, <1>6
  DEF BankInv, LinesAsSet, DirectionsAsSet, LevelsAsSet, LevelsAsDriven, NotLost
<1>8. CopiesAsSet'
  BY <1>2, <1>3, <1>4, <1>6 DEF BankInv, CopiesAsSet, NotLost, StepOf
<1>9. InputsAsked'
  BY <1>1, <1>2, <1>4 DEF BankInv, InputsAsked, StepOf
<1>10. LevelsOwn'
  BY <1>4 DEF BankInv, LevelsOwn
<1> QED
  BY <1>5, <1>7, <1>8, <1>9, <1>10 DEF BankInv

\* readl of a bank: a settled line is an output, so its level is what was asked.
LEMMA ReadRegisterStep ==
    ASSUME BankInv, NEW bus \in Buses, ReadRegister(bus)
    PROVE  BankInv'
<1>1. PICK held \in SUBSET Pins :
         /\ bankTodo[bus] # <<>> /\ StepOf(bus).reg \in Registers
         /\ bankRead' = [bankRead EXCEPT ![bus] = Shown(StepOf(bus).reg, held)]
         /\ UNCHANGED <<bank, bankTodo, bankGot, bankAsked, bankCrossed>>
  BY DEF ReadRegister
<1>2. /\ DOMAIN bankRead' = Buses /\ bankRead'[bus] = Shown(StepOf(bus).reg, held)
      /\ \A b \in Buses : b # bus => bankRead'[b] = bankRead[b]
  BY <1>1 DEF BankInv, BankTypes
<1>3. Shown(StepOf(bus).reg, held) \in [Pins -> {0, 1}]
  BY <1>1 DEF BankInv, BankTypes, Shown, Level, Driven, Registers
<1>4. BankTypes'
  BY <1>1, <1>2, <1>3 DEF BankInv, BankTypes, StepOf
<1>5. \A pin \in Pins : Settled(pin)' <=> Settled(pin)
  BY <1>1 DEF Settled, UnderWay, NotLost, StepOf
<1>6. LinesAsSet'
  BY <1>1, <1>5 DEF BankInv, LinesAsSet, DirectionsAsSet, LevelsAsSet, LevelsAsDriven, NotLost
<1>7. CopiesAsSet'
  <2>1. \A pin \in Pins : Settled(pin) => Level(pin, held) = bankAsked["dat"][pin]
    BY DEF BankInv, LinesAsSet, DirectionsAsSet, LevelsAsSet, Settled, Level
  <2>2. \A pin \in Pins : NotLost("cfg", pin) => bank["cfg"][pin] = bankAsked["cfg"][pin]
    BY DEF BankInv, LinesAsSet, DirectionsAsSet
  <2> QED
    BY <1>1, <1>2, <1>5, <2>1, <2>2 DEF BankInv, CopiesAsSet, NotLost, StepOf, Shown
<1>8. InputsAsked' /\ LevelsOwn'
  BY <1>1 DEF BankInv, InputsAsked, LevelsOwn, StepOf
<1> QED
  BY <1>4, <1>6, <1>7, <1>8 DEF BankInv

\* gpio_get_value: the line was made an input, so it is the devices' level.
LEMMA ReadLevelStep ==
    ASSUME BankInv, NEW bus \in Buses, ReadLevel(bus)
    PROVE  BankInv'
<1>1. PICK pin \in Pins, held \in SUBSET Pins :
         /\ bankTodo[bus] # <<>> /\ StepOf(bus).reg = "level"
         /\ pin = StepOf(bus).pin /\ pin[1] = bus
         /\ bankGot' = [bankGot EXCEPT ![bus] =
               [pin |-> pin, level |-> Level(pin, held), driven |-> Driven(pin, held)]]
         /\ bankTodo' = [bankTodo EXCEPT ![bus] = Tail(@)]
         /\ UNCHANGED <<bank, bankRead, bankAsked, bankCrossed>>
  <2>1. bankTodo[bus] # <<>> /\ StepOf(bus).pin \in Pins /\ StepOf(bus).pin[1] = bus
    BY StepsOfCall DEF ReadLevel, BankInv
  <2> QED
    BY <2>1 DEF ReadLevel
<1>2. Tail(bankTodo[bus]) = <<>>
  BY <1>1, StepsOfCall DEF BankInv
<1>3. bankRead[bus] = Nothing
  BY <1>1 DEF BankInv, BankTypes, Registers
<1>4. /\ bankTodo'[bus] = <<>>
      /\ bankGot'[bus] = [pin |-> pin, level |-> Level(pin, held), driven |-> Driven(pin, held)]
      /\ \A b \in Buses : b # bus => bankTodo'[b] = bankTodo[b] /\ bankGot'[b] = bankGot[b]
      /\ DOMAIN bankTodo' = Buses /\ DOMAIN bankGot' = Buses
  BY <1>1, <1>2 DEF BankInv, BankTypes
<1>5. BankTypes'
  BY <1>1, <1>3, <1>4 DEF BankInv, BankTypes, StepOf
<1>6. bankAsked["cfg"][pin] = 0
  BY <1>1 DEF BankInv, InputsAsked
<1>7. \A p \in Pins : Settled(p)' => Settled(p)
  <2>1. \A p \in Pins : p # pin => (UnderWay(p)' <=> UnderWay(p))
    BY <1>1, <1>4 DEF UnderWay, StepOf, Pins
  <2> QED
    BY <1>1, <1>6, <2>1 DEF Settled, NotLost
<1>8. LinesAsSet'
  <2>1. NotLost("cfg", pin) => Level(pin, held) = Driven(pin, held)
    BY <1>6 DEF BankInv, LinesAsSet, DirectionsAsSet, Level
  <2>2. DirectionsAsSet' /\ LevelsAsSet'
    BY <1>1, <1>7 DEF BankInv, LinesAsSet, DirectionsAsSet, LevelsAsSet, NotLost
  <2>3. LevelsAsDriven'
    BY <1>1, <1>4, <2>1 DEF BankInv, LinesAsSet, LevelsAsDriven, NotLost
  <2> QED
    BY <2>2, <2>3 DEF LinesAsSet
<1>9. CopiesAsSet'
  BY <1>1, <1>3, <1>4, <1>7 DEF BankInv, CopiesAsSet, NotLost, StepOf
<1>10. InputsAsked'
  BY <1>1, <1>4 DEF BankInv, InputsAsked, StepOf
<1>11. LevelsOwn'
  BY <1>1, <1>4 DEF BankInv, LevelsOwn
<1> QED
  BY <1>5, <1>8, <1>9, <1>10, <1>11 DEF BankInv

\* writel of a bank: what it undoes of another bus, it marks as crossed.
LEMMA WriteRegisterStep ==
    ASSUME BankInv, NEW bus \in Buses, WriteRegister(bus)
    PROVE  BankInv'
<1>1. PICK u : u = StepOf(bus)
  OBVIOUS
<1>2. PICK crossing \in BOOLEAN : crossing = (\E other \in Buses \ {bus} : Between(other, u.reg))
  OBVIOUS
<1>3. /\ bankRead[bus] # Nothing
      /\ bank' = [bank EXCEPT ![u.reg] = Changed(bankRead[bus], u)]
      /\ bankAsked' = [bankAsked EXCEPT ![u.reg][u.pin] = u.field]
      /\ bankCrossed' = IF crossing THEN bankCrossed \cup {<<u.reg, u.pin>>}
                        ELSE bankCrossed \ {<<u.reg, u.pin>>}
      /\ bankTodo' = [bankTodo EXCEPT ![bus] = Tail(@)]
      /\ bankRead' = [bankRead EXCEPT ![bus] = Nothing]
      /\ UNCHANGED bankGot
  BY <1>1, <1>2 DEF WriteRegister
<1>4. /\ bankTodo[bus] # <<>> /\ bankRead[bus] \in [Pins -> {0, 1}]
      /\ u.reg \in Registers /\ u.pin \in Pins /\ u.pin[1] = bus /\ u.field \in {0, 1}
  BY <1>1, <1>3, StepsOfCall DEF BankInv, BankTypes
<1>5. PICK rest : rest = Tail(bankTodo[bus])
  OBVIOUS
<1>6. /\ u.reg = "dat" => rest = <<>>
      /\ u.reg = "cfg" => rest # <<>> /\ Head(rest).pin = u.pin
      /\ u.reg = "cfg" /\ Head(rest).reg = "level" => u.field = 0
      /\ rest # <<>> => \E line \in BusLines, level \in {0, 1} :
            rest \in SetsLeft(<<bus, line>>, level) \cup GetsLeft(<<bus, line>>)
  BY <1>1, <1>4, <1>5, StepsOfCall DEF BankInv
<1>7. /\ DOMAIN bankRead' = Buses /\ bankRead'[bus] = Nothing
      /\ DOMAIN bankTodo' = Buses /\ bankTodo'[bus] = rest
      /\ \A b \in Buses : b # bus => bankRead'[b] = bankRead[b] /\ bankTodo'[b] = bankTodo[b]
  BY <1>3, <1>5 DEF BankInv, BankTypes
<1>8. Changed(bankRead[bus], u) \in [Pins -> {0, 1}]
  BY <1>4 DEF Changed
<1>9. BankTypes'
  <2>1. bank' \in [Registers -> [Pins -> {0, 1}]] /\ bankAsked' \in [Registers -> [Pins -> {0, 1}]]
    BY <1>3, <1>4, <1>8 DEF BankInv, BankTypes
  <2> QED
    BY <1>3, <1>6, <1>7, <2>1 DEF BankInv, BankTypes, StepOf
<1>10. /\ \A reg \in Registers, pin \in Pins : <<reg, pin>> # <<u.reg, u.pin>> =>
             /\ bankAsked'[reg][pin] = bankAsked[reg][pin]
             /\ NotLost(reg, pin)' <=> NotLost(reg, pin)
       /\ bankAsked'[u.reg][u.pin] = u.field
       /\ crossing => ~NotLost(u.reg, u.pin)'
  BY <1>3, <1>4 DEF BankInv, BankTypes, NotLost
<1>11. /\ \A reg \in Registers : reg # u.reg => bank'[reg] = bank[reg]
       /\ bank'[u.reg][u.pin] = u.field
       /\ \A pin \in Pins : pin # u.pin => bank'[u.reg][pin] = bankRead[bus][pin]
  BY <1>3, <1>4, <1>8 DEF BankInv, BankTypes, Changed
<1>12. \A pin \in Pins : pin # u.pin => (Settled(pin)' => Settled(pin))
  <2>1. \A pin \in Pins : pin # u.pin => (UnderWay(pin) => UnderWay(pin)')
    <3> SUFFICES ASSUME NEW pin \in Pins, pin # u.pin, UnderWay(pin) PROVE UnderWay(pin)'
      OBVIOUS
    <3>1. pin[1] # bus /\ pin[1] \in Buses
      BY <1>1 DEF UnderWay, Pins
    <3> QED
      BY <1>7, <3>1 DEF UnderWay, StepOf
  <2> QED
    BY <1>10, <2>1 DEF Settled, Registers
<1>13. u.reg = "cfg" => ~Settled(u.pin)'
  BY <1>4, <1>6, <1>7 DEF Settled, UnderWay, StepOf
<1>14. LinesAsSet'
  <2>1. DirectionsAsSet'
    <3> SUFFICES ASSUME NEW pin \in Pins, NotLost("cfg", pin)'
                 PROVE  bank'["cfg"][pin] = bankAsked'["cfg"][pin]
      BY DEF DirectionsAsSet
    <3>1. CASE u.reg = "cfg" /\ pin # u.pin
      <4>1. NotLost("cfg", pin) /\ bankAsked'["cfg"][pin] = bankAsked["cfg"][pin]
        BY <1>10, <3>1 DEF Registers
      <4> QED
        BY <1>1, <1>3, <1>11, <3>1, <4>1 DEF BankInv, CopiesAsSet
    <3>2. CASE u.reg # "cfg"
      BY <1>10, <1>11, <3>2 DEF BankInv, LinesAsSet, DirectionsAsSet, Registers
    <3>3. CASE u.reg = "cfg" /\ pin = u.pin
      BY <1>10, <1>11, <3>3
    <3> QED
      BY <3>1, <3>2, <3>3
  <2>2. LevelsAsSet'
    <3> SUFFICES ASSUME NEW pin \in Pins, Settled(pin)'
                 PROVE  bank'["dat"][pin] = bankAsked'["dat"][pin]
      BY DEF LevelsAsSet
    <3>1. CASE pin = u.pin
      <4>1. u.reg = "dat"
        BY <1>4, <1>13, <3>1 DEF Registers
      <4> QED
        BY <1>10, <1>11, <3>1, <4>1
    <3>2. CASE pin # u.pin
      <4>1. Settled(pin) /\ bankAsked'["dat"][pin] = bankAsked["dat"][pin]
        BY <1>10, <1>12, <3>2 DEF Registers
      <4>2. CASE u.reg = "dat"
        BY <1>1, <1>3, <1>11, <3>2, <4>1, <4>2 DEF BankInv, CopiesAsSet
      <4>3. CASE u.reg # "dat"
        BY <1>11, <4>1, <4>3 DEF BankInv, LinesAsSet, LevelsAsSet, Registers
      <4> QED
        BY <4>2, <4>3
    <3> QED
      BY <3>1, <3>2
  <2>3. LevelsAsDriven'
    <3> SUFFICES ASSUME NEW b \in Buses, bankGot[b] # Nothing,
                        NEW pin, pin = bankGot[b].pin, NotLost("cfg", pin)'
                 PROVE  bankGot[b].level = bankGot[b].driven
      BY <1>3 DEF LevelsAsDriven, NotLost
    <3>1. pin \in Pins /\ pin # u.pin
      BY <1>4 DEF BankInv, LevelsOwn
    <3>2. NotLost("cfg", pin)
      BY <1>4, <1>10, <3>1 DEF Registers
    <3> QED
      BY <3>2 DEF BankInv, LinesAsSet, LevelsAsDriven
  <2> QED
    BY <2>1, <2>2, <2>3 DEF LinesAsSet
<1>15. CopiesAsSet'
  <2> SUFFICES ASSUME NEW b \in Buses, bankRead'[b] # Nothing
               PROVE  /\ StepOf(b)'.reg = "cfg" => \A pin \in Pins :
                            NotLost("cfg", pin)' => bankRead'[b][pin] = bankAsked'["cfg"][pin]
                      /\ StepOf(b)'.reg = "dat" => \A pin \in Pins :
                            Settled(pin)' => bankRead'[b][pin] = bankAsked'["dat"][pin]
    BY DEF CopiesAsSet
  <2>1. /\ b # bus /\ bankRead'[b] = bankRead[b] /\ bankRead[b] # Nothing
        /\ StepOf(b)' = StepOf(b)
    BY <1>7 DEF StepOf
  <2>2. u.reg = StepOf(b).reg => ~NotLost(u.reg, u.pin)'
    BY <1>2, <1>10, <2>1 DEF Between
  <2>3. ASSUME StepOf(b).reg = "cfg", NEW pin \in Pins, NotLost("cfg", pin)'
        PROVE  bankRead[b][pin] = bankAsked'["cfg"][pin]
    <3>1. ~(u.reg = "cfg" /\ pin = u.pin)
      BY <2>2, <2>3
    <3>2. NotLost("cfg", pin) /\ bankAsked'["cfg"][pin] = bankAsked["cfg"][pin]
      BY <1>10, <2>3, <3>1 DEF Registers
    <3> QED
      BY <2>1, <2>3, <3>2 DEF BankInv, CopiesAsSet
  <2>4. ASSUME StepOf(b).reg = "dat", NEW pin \in Pins, Settled(pin)'
        PROVE  bankRead[b][pin] = bankAsked'["dat"][pin]
    <3>1. pin # u.pin
      BY <1>4, <1>13, <2>2, <2>4 DEF Registers, Settled
    <3>2. Settled(pin) /\ bankAsked'["dat"][pin] = bankAsked["dat"][pin]
      BY <1>10, <1>12, <2>4, <3>1 DEF Registers
    <3> QED
      BY <2>1, <2>4, <3>2 DEF BankInv, CopiesAsSet
  <2> QED
    BY <2>1, <2>3, <2>4
<1>16. InputsAsked'
  <2> SUFFICES ASSUME NEW b \in Buses, bankTodo'[b] # <<>>, StepOf(b)'.reg = "level"
               PROVE  bankAsked'["cfg"][StepOf(b)'.pin] = 0
    BY DEF InputsAsked
  <2>1. CASE b = bus
    <3>1. rest # <<>> /\ StepOf(b)' = Head(rest) /\ u.reg = "cfg"
      BY <1>4, <1>6, <1>7, <2>1 DEF StepOf, Registers
    <3> QED
      BY <1>6, <1>10, <3>1
  <2>2. CASE b # bus
    <3>1. bankTodo[b] # <<>> /\ StepOf(b)' = StepOf(b)
      BY <1>7, <2>2 DEF StepOf
    <3>2. StepOf(b).pin \in Pins /\ StepOf(b).pin # u.pin
      BY <1>4, <2>2, <3>1, StepsOfCall DEF BankInv
    <3>3. bankAsked["cfg"][StepOf(b).pin] = 0
      BY <3>1 DEF BankInv, InputsAsked
    <3> QED
      BY <1>10, <3>1, <3>2, <3>3 DEF Registers
  <2> QED
    BY <2>1, <2>2
<1>17. LevelsOwn'
  BY <1>3, <1>4, <1>7 DEF BankInv, LevelsOwn
<1> QED
  BY <1>9, <1>14, <1>15, <1>16, <1>17 DEF BankInv

\* No step of the buses breaks the invariant.
LEMMA BankNextInv == BankInv /\ [BankNext]_bankVars => BankInv'
<1> SUFFICES ASSUME BankInv, [BankNext]_bankVars PROVE BankInv'
  OBVIOUS
<1>1. ASSUME NEW bus \in Buses,
             \/ SetLine(bus) \/ GetLine(bus)
             \/ ReadRegister(bus) \/ WriteRegister(bus) \/ ReadLevel(bus)
      PROVE  BankInv'
  BY <1>1, BeginStep, ReadRegisterStep, WriteRegisterStep, ReadLevelStep
<1>2. CASE UNCHANGED bankVars
  BY <1>2 DEF bankVars, BankInv, BankTypes, LinesAsSet, DirectionsAsSet, LevelsAsSet,
              LevelsAsDriven, CopiesAsSet, InputsAsked, LevelsOwn, Settled, UnderWay, NotLost, StepOf
<1> QED
  BY <1>1, <1>2 DEF BankNext

\* sunxi_gpio_set_cfgbank, sunxi_gpio_output and sunxi_gpio_input, whatever the
\* number of buses and of their lines, and whatever the devices drive: a line has
\* the direction its bus gave it, an output whose call is over its level, and the
\* level read of an input is the one driven, unless the write of that field fell
\* between the reading and the writing of its register by another bus.
THEOREM LinesSafe == BankSpec => []LinesAsSet
<1>1. BankInv => LinesAsSet
  BY DEF BankInv
<1> QED
  BY BankInitInv, BankNextInv, <1>1, PTL DEF BankSpec

-----------------------------------------------------------------------------
(* The frame buffers *)

Index == {0, 1}  \* of a buffer
Later == {"copy", "copied", "base"}  \* a painter that has written the index

LcdTypes ==
    /\ lcdIndex \in Index /\ lcdBase \in Index /\ lcdShown \in Index
    /\ lcdBuffer \in [Index -> Nat \cup {Torn}]
    /\ lcdDrawn \in Nat /\ lcdDue \in Nat /\ lcdMixed \in {0, 1}
    /\ lcdCall \in [Painters -> [at : {"idle", "flip"} \cup Later, buffer : Index]]
    /\ \A p \in Painters : At(p, "idle") => lcdCall[p] = AtEase

NobodyLater == \A p \in Painters : ~(lcdCall[p].at \in Later)

\* Whatever the painters do to each other, the buffer of the index is, or will
\* be before the last of them is done, what is given to the mixer.
IndexInStep ==
    IF NobodyLater
    THEN lcdBase = lcdIndex /\ lcdBuffer[lcdIndex] = lcdDue
    ELSE \/ \E p \in Painters : At(p, "copy")
         \/ \E p \in Painters : At(p, "copied") /\ lcdCall[p].buffer = lcdIndex
         \/ lcdBuffer[lcdIndex] = lcdDrawn

\* One update at a time, each begun when the one before was shown.
OneUpdate ==
    /\ FramesWhole
    /\ lcdMixed = 0 =>
       /\ \A p, q \in Painters : ~At(p, "idle") /\ ~At(q, "idle") => p = q
       /\ \A p \in Painters : ~At(p, "idle") =>
             /\ lcdBase = lcdShown
             /\ At(p, "flip") => lcdCall[p].buffer = lcdIndex
             /\ lcdCall[p].at \in Later => lcdIndex # lcdBase
             /\ At(p, "copied") => lcdCall[p].buffer = lcdIndex

LcdInv == LcdTypes /\ IndexInStep /\ OneUpdate

\* lcdfb->index ? 0 : 1 names the other buffer.
LEMMA OtherOne == \A i \in Index : Other(i) \in Index /\ Other(i) # i
BY DEF Other, Index

\* rt_hw_lcd_init clears both buffers and shows the first.
LEMMA LcdInitInv == LcdInit => LcdInv
<1> SUFFICES ASSUME LcdInit PROVE LcdInv
  OBVIOUS
<1>1. \A p \in Painters : lcdCall[p] = AtEase /\ lcdCall[p].at = "idle"
  BY DEF LcdInit, AtEase
<1>2. LcdTypes
  BY <1>1 DEF LcdInit, LcdTypes, Index, Torn, AtEase, Later
<1>3. IndexInStep
  BY <1>1 DEF LcdInit, IndexInStep, NobodyLater, Later
<1>4. OneUpdate
  BY <1>1 DEF LcdInit, OneUpdate, FramesWhole, At, Torn
<1> QED
  BY <1>2, <1>3, <1>4 DEF LcdInv

\* Nobody updates when every painter is at rest.
LEMMA Quiet == LcdTypes => (NobodyUpdates <=> \A p \in Painters : At(p, "idle"))
BY DEF LcdTypes, NobodyUpdates, At, AtEase

\* What a step of a painter does to the places of the painters.
LEMMA Moved ==
    ASSUME LcdTypes, NEW p \in Painters, NEW step \in {"idle", "flip"} \cup Later,
           NEW b \in Index, Then(p, step, b), step = "idle" => b = 0
    PROVE  /\ lcdCall'[p].at = step /\ lcdCall'[p].buffer = b
           /\ \A q \in Painters : q # p => lcdCall'[q] = lcdCall[q]
           /\ lcdCall' \in [Painters -> [at : {"idle", "flip"} \cup Later, buffer : Index]]
           /\ \A q \in Painters : lcdCall'[q].at = "idle" => lcdCall'[q] = AtEase
BY DEF LcdTypes, Then, At, AtEase

\* The application draws between updates only.
LEMMA DrawStep == LcdInv /\ Draw => LcdInv'
<1> SUFFICES ASSUME LcdInv, Draw PROVE LcdInv'
  OBVIOUS
<1>1. \A p \in Painters : lcdCall[p].at = "idle"
  BY Quiet DEF Draw, LcdInv, At
<1>2. LcdTypes'
  BY DEF Draw, LcdInv, LcdTypes, At
<1>3. NobodyLater /\ NobodyLater'
  BY <1>1 DEF Draw, NobodyLater, Later
<1>4. IndexInStep'
  BY <1>3 DEF Draw, LcdInv, IndexInStep
<1>5. OneUpdate'
  BY DEF Draw, LcdInv, OneUpdate, FramesWhole, At
<1> QED
  BY <1>2, <1>4, <1>5 DEF LcdInv

\* A frame takes over the buffer given last, which is whole if nobody updates.
LEMMA FrameStartStep == LcdInv /\ FrameStart => LcdInv'
<1> SUFFICES ASSUME LcdInv, FrameStart PROVE LcdInv'
  OBVIOUS
<1>1. /\ lcdShown' = lcdBase /\ lcdMixed' = IF NobodyUpdates THEN 0 ELSE lcdMixed
      /\ UNCHANGED <<lcdIndex, lcdBuffer, lcdBase, lcdDrawn, lcdCall, lcdDue>>
  BY DEF FrameStart
<1>2. LcdTypes'
  BY <1>1 DEF LcdInv, LcdTypes, At
<1>3. IndexInStep'
  BY <1>1 DEF LcdInv, IndexInStep, NobodyLater, At
<1>4. OneUpdate'
  <2>1. CASE NobodyUpdates
    <3>1. \A p \in Painters : At(p, "idle") /\ At(p, "idle")'
      BY <1>1, <2>1, Quiet DEF LcdInv, At
    <3>2. lcdBuffer[lcdBase] = lcdDue /\ lcdDue # Torn
      BY <3>1 DEF LcdInv, IndexInStep, NobodyLater, Later, At, LcdTypes, Torn
    <3> QED
      BY <1>1, <3>1, <3>2 DEF OneUpdate, FramesWhole
  <2>2. CASE ~NobodyUpdates
    <3>1. PICK p \in Painters : ~At(p, "idle")
      BY <2>2, Quiet DEF LcdInv
    <3>2. lcdMixed = 0 => lcdShown' = lcdShown
      BY <1>1, <3>1 DEF LcdInv, OneUpdate
    <3> QED
      BY <1>1, <2>2, <3>2 DEF LcdInv, OneUpdate, FramesWhole, At
  <2> QED
    BY <2>1, <2>2
<1> QED
  BY <1>2, <1>3, <1>4 DEF LcdInv

\* An update reads the index.
LEMMA UpdateBeginStep ==
    ASSUME LcdInv, NEW p \in Painters, UpdateBegin(p)
    PROVE  LcdInv'
<1>1. /\ At(p, "idle") /\ Then(p, "flip", lcdIndex)
      /\ lcdMixed' = IF NobodyUpdates /\ lcdBase = lcdShown THEN lcdMixed ELSE 1
      /\ UNCHANGED <<lcdIndex, lcdBuffer, lcdBase, lcdShown, lcdDrawn, lcdDue>>
  BY DEF UpdateBegin
<1>2. /\ lcdCall'[p].at = "flip" /\ lcdCall'[p].buffer = lcdIndex
      /\ \A q \in Painters : q # p => lcdCall'[q] = lcdCall[q]
      /\ LcdTypes'
  BY <1>1, Moved DEF LcdInv, LcdTypes, At
<1>3. IndexInStep'
  BY <1>1, <1>2 DEF LcdInv, IndexInStep, NobodyLater, Later, At
<1>4. OneUpdate'
  <2>1. SUFFICES ASSUME lcdMixed' = 0 PROVE OneUpdate'
    BY DEF OneUpdate, FramesWhole
  <2>2. lcdMixed = 0 /\ NobodyUpdates /\ lcdBase = lcdShown
    BY <1>1, <2>1
  <2>3. \A q \in Painters : At(q, "idle") /\ (q # p => At(q, "idle")')
    BY <1>2, <2>2, Quiet DEF LcdInv, At
  <2>4. FramesWhole'
    BY <1>1, <2>2 DEF LcdInv, OneUpdate, FramesWhole
  <2> QED
    BY <1>1, <1>2, <2>2, <2>3, <2>4 DEF OneUpdate, At, Later
<1> QED
  BY <1>2, <1>3, <1>4 DEF LcdInv

\* The index names the buffer that is not shown.
LEMMA UpdateFlipStep ==
    ASSUME LcdInv, NEW p \in Painters, UpdateFlip(p)
    PROVE  LcdInv'
<1>1. /\ At(p, "flip") /\ Then(p, "copy", 0) /\ lcdIndex' = Other(lcdCall[p].buffer)
      /\ UNCHANGED <<lcdBuffer, lcdBase, lcdShown, lcdDrawn, lcdMixed, lcdDue>>
  BY DEF UpdateFlip
<1>2. /\ lcdCall'[p].at = "copy"
      /\ \A q \in Painters : q # p => lcdCall'[q] = lcdCall[q]
      /\ LcdTypes'
  BY <1>1, Moved, OtherOne DEF LcdInv, LcdTypes, At, Later, Index
<1>3. IndexInStep'
  BY <1>2 DEF IndexInStep, NobodyLater, Later, At
<1>4. OneUpdate'
  <2>1. SUFFICES ASSUME lcdMixed' = 0 PROVE OneUpdate'
    BY DEF OneUpdate, FramesWhole
  <2>2. lcdMixed = 0 /\ FramesWhole'
    BY <1>1, <2>1 DEF LcdInv, OneUpdate, FramesWhole
  <2>3. \A q \in Painters : q # p => At(q, "idle")'
    BY <1>1, <1>2, <2>2 DEF LcdInv, OneUpdate, At
  <2>4. lcdBase = lcdShown /\ lcdBase = lcdIndex /\ lcdCall[p].buffer = lcdIndex
    <3>1. NobodyLater
      BY <1>1, <2>2 DEF LcdInv, OneUpdate, NobodyLater, At, Later
    <3> QED
      BY <1>1, <2>2, <3>1 DEF LcdInv, OneUpdate, IndexInStep, At
  <2>5. lcdIndex' # lcdBase
    BY <1>1, <2>4, OtherOne DEF LcdInv, LcdTypes
  <2> QED
    BY <1>1, <1>2, <2>2, <2>3, <2>4, <2>5 DEF OneUpdate, At
<1> QED
  BY <1>2, <1>3, <1>4 DEF LcdInv

\* The copy begins: the buffer of the index is torn.
LEMMA UpdateCopyStep ==
    ASSUME LcdInv, NEW p \in Painters, UpdateCopy(p)
    PROVE  LcdInv'
<1>1. /\ At(p, "copy") /\ Then(p, "copied", lcdIndex)
      /\ lcdBuffer' = [lcdBuffer EXCEPT ![lcdIndex] = Torn]
      /\ UNCHANGED <<lcdIndex, lcdBase, lcdShown, lcdDrawn, lcdMixed, lcdDue>>
  BY DEF UpdateCopy
<1>2. /\ lcdCall'[p].at = "copied" /\ lcdCall'[p].buffer = lcdIndex
      /\ \A q \in Painters : q # p => lcdCall'[q] = lcdCall[q]
      /\ LcdTypes'
  BY <1>1, Moved DEF LcdInv, LcdTypes, At, Later
<1>3. IndexInStep'
  BY <1>1, <1>2 DEF IndexInStep, NobodyLater, Later, At
<1>4. OneUpdate'
  <2>1. SUFFICES ASSUME lcdMixed' = 0 PROVE OneUpdate'
    BY DEF OneUpdate, FramesWhole
  <2>2. /\ lcdMixed = 0 /\ lcdBase = lcdShown /\ lcdIndex # lcdBase
        /\ \A q \in Painters : q # p => At(q, "idle")'
    BY <1>1, <1>2, <2>1 DEF LcdInv, OneUpdate, At, Later
  <2>3. FramesWhole'
    BY <1>1, <2>2 DEF LcdInv, LcdTypes, OneUpdate, FramesWhole
  <2> QED
    BY <1>1, <1>2, <2>2, <2>3 DEF OneUpdate, At
<1> QED
  BY <1>2, <1>3, <1>4 DEF LcdInv

\* The copy ends: the buffer begun holds the frame.
LEMMA UpdateCopiedStep ==
    ASSUME LcdInv, NEW p \in Painters, UpdateCopied(p)
    PROVE  LcdInv'
<1>1. /\ At(p, "copied") /\ Then(p, "base", 0)
      /\ lcdBuffer' = [lcdBuffer EXCEPT ![lcdCall[p].buffer] = lcdDrawn]
      /\ UNCHANGED <<lcdIndex, lcdBase, lcdShown, lcdDrawn, lcdMixed, lcdDue>>
  BY DEF UpdateCopied
<1>2. /\ lcdCall'[p].at = "base"
      /\ \A q \in Painters : q # p => lcdCall'[q] = lcdCall[q]
      /\ LcdTypes' /\ lcdCall[p].buffer \in Index
  BY <1>1, Moved DEF LcdInv, LcdTypes, At, Later, Index
<1>3. IndexInStep'
  <2>1. ~NobodyLater /\ ~NobodyLater'
    BY <1>1, <1>2 DEF NobodyLater, Later, At
  <2>2. CASE lcdCall[p].buffer = lcdIndex
    BY <1>1, <1>2, <2>1, <2>2 DEF LcdInv, LcdTypes, IndexInStep
  <2>3. CASE lcdCall[p].buffer # lcdIndex
    BY <1>1, <1>2, <2>1, <2>3 DEF LcdInv, LcdTypes, IndexInStep, At
  <2> QED
    BY <2>2, <2>3
<1>4. OneUpdate'
  <2>1. SUFFICES ASSUME lcdMixed' = 0 PROVE OneUpdate'
    BY DEF OneUpdate, FramesWhole
  <2>2. /\ lcdMixed = 0 /\ lcdBase = lcdShown /\ lcdIndex # lcdBase
        /\ lcdCall[p].buffer = lcdIndex
        /\ \A q \in Painters : q # p => At(q, "idle")'
    BY <1>1, <1>2, <2>1 DEF LcdInv, OneUpdate, At, Later
  <2>3. FramesWhole'
    BY <1>1, <2>2 DEF LcdInv, LcdTypes, OneUpdate, FramesWhole
  <2> QED
    BY <1>1, <1>2, <2>2, <2>3 DEF OneUpdate, At
<1> QED
  BY <1>2, <1>3, <1>4 DEF LcdInv

\* The mixer is given the buffer of the index.
LEMMA UpdateBaseStep ==
    ASSUME LcdInv, NEW p \in Painters, UpdateBase(p)
    PROVE  LcdInv'
<1>1. /\ At(p, "base") /\ Then(p, "idle", 0) /\ lcdBase' = lcdIndex /\ lcdDue' = lcdDrawn
      /\ UNCHANGED <<lcdIndex, lcdBuffer, lcdShown, lcdDrawn, lcdMixed>>
  BY DEF UpdateBase
<1>2. /\ lcdCall'[p].at = "idle"
      /\ \A q \in Painters : q # p => lcdCall'[q] = lcdCall[q]
      /\ LcdTypes'
  BY <1>1, Moved DEF LcdInv, LcdTypes, At, Later, Index
<1>3. /\ ~NobodyLater
      /\ \/ \E q \in Painters : At(q, "copy")
         \/ \E q \in Painters : At(q, "copied") /\ lcdCall[q].buffer = lcdIndex
         \/ lcdBuffer[lcdIndex] = lcdDrawn
  BY <1>1 DEF LcdInv, IndexInStep, NobodyLater, Later, At
<1>4. IndexInStep'
  <2>1. CASE \E q \in Painters : At(q, "copy")
    BY <1>1, <1>2, <2>1 DEF IndexInStep, NobodyLater, Later, At
  <2>2. CASE \E q \in Painters : At(q, "copied") /\ lcdCall[q].buffer = lcdIndex
    BY <1>1, <1>2, <2>2 DEF IndexInStep, NobodyLater, Later, At
  <2>3. CASE lcdBuffer[lcdIndex] = lcdDrawn
    BY <1>1, <2>3 DEF IndexInStep
  <2> QED
    BY <1>3, <2>1, <2>2, <2>3
<1>5. OneUpdate'
  <2>1. SUFFICES ASSUME lcdMixed' = 0 PROVE OneUpdate'
    BY DEF OneUpdate, FramesWhole
  <2>2. /\ lcdMixed = 0 /\ lcdBase = lcdShown /\ lcdIndex # lcdBase
        /\ \A q \in Painters : At(q, "idle")'
    BY <1>1, <1>2, <2>1 DEF LcdInv, OneUpdate, At, Later
  <2>3. FramesWhole'
    BY <1>1, <2>2 DEF LcdInv, OneUpdate, FramesWhole
  <2> QED
    BY <2>2, <2>3 DEF OneUpdate
<1> QED
  BY <1>2, <1>4, <1>5 DEF LcdInv

\* No step of a painter or of the mixer breaks the invariant.
LEMMA LcdNextInv == LcdInv /\ [LcdNext]_lcdVars => LcdInv'
<1> SUFFICES ASSUME LcdInv, [LcdNext]_lcdVars PROVE LcdInv'
  OBVIOUS
<1>1. CASE Draw \/ FrameStart
  BY <1>1, DrawStep, FrameStartStep
<1>2. ASSUME NEW p \in Painters,
             \/ UpdateBegin(p) \/ UpdateFlip(p) \/ UpdateCopy(p)
             \/ UpdateCopied(p) \/ UpdateBase(p)
      PROVE  LcdInv'
  BY <1>2, UpdateBeginStep, UpdateFlipStep, UpdateCopyStep, UpdateCopiedStep, UpdateBaseStep
<1>3. CASE UNCHANGED lcdVars
  BY <1>3 DEF lcdVars, LcdInv, LcdTypes, IndexInStep, NobodyLater, OneUpdate, FramesWhole, At
<1> QED
  BY <1>1, <1>2, <1>3 DEF LcdNext

\* RTGRAPHIC_CTRL_RECT_UPDATE, whatever the number of painters and frames: the
\* mixer never reads a buffer in the middle of a copy, unless an update began
\* before the one before was shown.
THEOREM FramesSafe == LcdSpec => []FramesWhole
<1>1. LcdInv => FramesWhole
  BY DEF LcdInv, OneUpdate
<1> QED
  BY LcdInitInv, LcdNextInv, <1>1, PTL DEF LcdSpec

-----------------------------------------------------------------------------
(* The data cache *)

\* Division by n leaves less than n.
LEMMA DivMod ==
    ASSUME NEW n \in Nat \ {0}, NEW a \in Nat
    PROVE  a \div n \in Nat /\ a % n \in 0..(n - 1) /\ a = n * (a \div n) + (a % n)
OBVIOUS

\* and nothing of a multiple of n.
LEMMA MultipleMod ==
    ASSUME NEW n \in Nat \ {0}, NEW q \in Nat
    PROVE  (n * q) % n = 0
<1>1. n * q \in Nat
  OBVIOUS
<1> DEFINE d == (n * q) \div n
           r == (n * q) % n
<1>2. d \in Nat /\ r \in 0..(n - 1) /\ n * q = n * d + r
  BY <1>1, DivMod
<1> HIDE DEF d, r
<1>3. r = n * (q - d)
  BY <1>2
<1>4. q - d = 0
  <2>1. CASE q - d >= 1
    <3>1. n * (q - d) >= n
      BY <1>2, <2>1
    <3> QED
      BY <1>2, <1>3, <3>1
  <2>2. CASE q - d <= -1
    <3>1. n * (q - d) <= -n
      BY <1>2, <2>2
    <3> QED
      BY <1>2, <1>3, <3>1
  <2> QED
    BY <1>2, <2>1, <2>2
<1>5. r = 0
  BY <1>3, <1>4, <1>2
<1> QED
  BY <1>5 DEF r

\* Multiples of n are n apart.
LEMMA Apart ==
    ASSUME NEW n \in Nat \ {0}, NEW x \in Nat, NEW y \in Nat,
           x % n = 0, y % n = 0, x < y + n
    PROVE  x <= y
<1> DEFINE p == x \div n
           q == y \div n
<1>1. p \in Nat /\ q \in Nat /\ x = n * p /\ y = n * q
  BY DivMod
<1> HIDE DEF p, q
<1>2. p <= q
  <2>1. SUFFICES ASSUME p >= q + 1 PROVE FALSE
    BY <1>1
  <2>2. n * p >= n * (q + 1)
    BY <1>1, <2>1
  <2> QED
    BY <1>1, <2>2
<1>3. n * p <= n * q
  BY <1>1, <1>2
<1> QED
  BY <1>1, <1>3

\* ~(CACHE_LINE_SIZE - 1) leaves the line an address is in.
LEMMA RoundDownFacts ==
    ASSUME NEW a \in Nat
    PROVE  /\ RoundDown(a) \in Nat /\ RoundDown(a) % LineLen = 0
           /\ RoundDown(a) <= a /\ a < RoundDown(a) + LineLen
           /\ a % LineLen = 0 => RoundDown(a) = a
<1>1. /\ LineLen \in Nat \ {0} /\ a \div LineLen \in Nat /\ a % LineLen \in 0..(LineLen - 1)
      /\ a = LineLen * (a \div LineLen) + (a % LineLen)
  BY CacheAssumption, DivMod
<1>2. RoundDown(a) = LineLen * (a \div LineLen)
  BY <1>1 DEF RoundDown
<1>3. RoundDown(a) % LineLen = 0
  BY <1>1, <1>2, MultipleMod
<1> QED
  BY <1>1, <1>2, <1>3 DEF RoundDown

\* A higher address is in no lower line.
LEMMA RoundDownOrder ==
    ASSUME NEW a \in Nat, NEW b \in Nat, a <= b
    PROVE  RoundDown(a) <= RoundDown(b)
<1>1. /\ RoundDown(a) \in Nat /\ RoundDown(a) % LineLen = 0 /\ RoundDown(a) <= a
      /\ RoundDown(b) \in Nat /\ RoundDown(b) % LineLen = 0 /\ b < RoundDown(b) + LineLen
  BY RoundDownFacts
<1>2. LineLen \in Nat \ {0} /\ RoundDown(a) < RoundDown(b) + LineLen
  BY <1>1, CacheAssumption
<1> QED
  BY <1>1, <1>2, Apart

\* Every word is in one line.
LEMMA LineOf ==
    ASSUME NEW a \in Addresses
    PROVE  /\ a \in Nat /\ RoundDown(a) \in Lines /\ a \in WordsOf(RoundDown(a))
           /\ \A line \in Lines : a \in WordsOf(line) <=> RoundDown(a) = line
<1>1. a \in Nat /\ a < Words
  BY CacheAssumption DEF Addresses
<1>2. RoundDown(a) \in Nat /\ RoundDown(a) % LineLen = 0 /\ RoundDown(a) <= a
  BY <1>1, RoundDownFacts
<1>3. RoundDown(a) \in Addresses
  BY <1>1, <1>2, CacheAssumption DEF Addresses
<1> QED
  BY <1>1, <1>2, <1>3 DEF Lines, WordsOf

\* A range has a first word and an end.
LEMMA BufferBounds ==
    ASSUME bufRange \in Ranges
    PROVE  /\ BufferStart \in 0..Words /\ BufferStop \in 0..Words
           /\ BufferStart < BufferStop
           /\ bufRange = BufferStart..(BufferStop - 1)
<1>1. PICK start \in 0..Words, stop \in 0..Words :
         start < stop /\ bufRange = start..(stop - 1)
  BY CacheAssumption
<1>2. Words \in Nat
  BY CacheAssumption
<1>3. \A a \in 0..Words : a \in bufRange /\ a - 1 \notin bufRange <=> a = start
  BY <1>1, <1>2
<1>4. \A a \in 0..Words : a \notin bufRange /\ a - 1 \in bufRange <=> a = stop
  BY <1>1, <1>2
<1>5. BufferStart = start
  BY <1>3 DEF BufferStart
<1>6. BufferStop = stop
  BY <1>4 DEF BufferStop
<1> QED
  BY <1>1, <1>5, <1>6

\* A range made of lines has all the words of a line or none.
LEMMA WholeLines ==
    ASSUME bufRange \in Ranges, RangeOk, NEW a \in bufRange, NEW b \in Addresses,
           RoundDown(b) = RoundDown(a)
    PROVE  b \in bufRange
<1>1. /\ BufferStart \in Nat /\ BufferStop \in Nat /\ BufferStart <= a /\ a < BufferStop
      /\ a \in Nat /\ b \in Nat /\ bufRange = BufferStart..(BufferStop - 1)
      /\ BufferStart % LineLen = 0 /\ BufferStop % LineLen = 0 /\ LineLen \in Nat \ {0}
  BY BufferBounds, CacheAssumption DEF RangeOk, Addresses
<1>2. RoundDown(BufferStart) = BufferStart /\ RoundDown(BufferStart) <= RoundDown(a)
  BY <1>1, RoundDownFacts, RoundDownOrder
<1>3. /\ RoundDown(a) \in Nat /\ RoundDown(a) % LineLen = 0 /\ RoundDown(a) <= a
      /\ RoundDown(b) <= b /\ b < RoundDown(b) + LineLen
  BY <1>1, RoundDownFacts
<1>4. RoundDown(a) + LineLen <= BufferStop
  <2>1. SUFFICES ASSUME BufferStop < RoundDown(a) + LineLen PROVE FALSE
    BY <1>1, <1>3
  <2>2. BufferStop <= RoundDown(a)
    BY <1>1, <1>3, <2>1, Apart
  <2> QED
    BY <1>1, <1>3, <2>2
<1> QED
  BY <1>1, <1>2, <1>3, <1>4

\* A line the cache holds.
Held(line) == [dirty : {0, 1}, data : [WordsOf(line) -> Int]]

CacheTypes ==
    /\ memory \in [Addresses -> Int] /\ bufLatest \in [Addresses -> Int]
    /\ DOMAIN cached = Lines
    /\ \A line \in Lines : cached[line] = Absent \/ cached[line] \in Held(line)
    /\ bufRange \in Ranges /\ bufFilled \in {0, 1}
    /\ bufAt \in {"cpu", "flush", "dma", "inval"} /\ bufMva \in Nat
    /\ bufAt = "inval" => RangeOk /\ bufMva >= BufferStart
    /\ bufAt \in {"flush", "inval"} => bufMva % LineLen = 0

\* The line a word is in.
Line(a) == cached[RoundDown(a)]
InMemory(a) == memory[a] = bufLatest[a]
Undirtied(a) == Line(a) = Absent \/ Line(a).dirty = 0

\* Where the last write to a word is: in the cache, and unless its line is dirty
\* also in memory.
Kept(a) ==
    /\ Line(a) # Absent => Line(a).data[a] = bufLatest[a]
    /\ Undirtied(a) => InMemory(a)

\* That no line is dirty only counts where no store of the CPU can change it.
Flushed(a) == InMemory(a) /\ (RangeOk => Undirtied(a))

\* A word of the buffer, along its way to the DMA and back.
OnItsWay(a) ==
    /\ bufAt \in {"cpu", "flush"} \/ (bufAt = "dma" /\ bufFilled = 0) => Kept(a)
    /\ bufAt = "flush" /\ RoundDown(a) < bufMva => Flushed(a)
    /\ bufAt \in {"dma", "inval"} => Flushed(a)
    /\ bufAt = "inval" /\ RoundDown(a) < bufMva => Kept(a)

\* The DMA has written nothing, or into whole lines only.
Sound == bufFilled = 0 \/ RangeOk

CacheInv ==
    /\ CacheTypes
    /\ \A a \in Addresses \ bufRange : Kept(a)
    /\ Sound => \A a \in bufRange : OnItsWay(a)

\* A buffer is memory.
LEMMA BufferWords == CacheTypes => bufRange \subseteq Addresses
BY BufferBounds, CacheAssumption DEF CacheTypes, Addresses

\* What depends on the range alone stays with it.
LEMMA SameRange ==
    ASSUME UNCHANGED bufRange
    PROVE  /\ RangeOk' <=> RangeOk
           /\ BufferStart' = BufferStart /\ BufferStop' = BufferStop
BY DEF RangeOk, BufferStart, BufferStop

\* A line loaded is held.
LEMMA LoadedHeld ==
    ASSUME CacheTypes, NEW line \in Lines, NEW dirty \in {0, 1}
    PROVE  Loaded(line, dirty) \in Held(line)
BY DEF CacheTypes, Loaded, Held, WordsOf

\* A record is not the empty sequence: a line that is held is not absent.
LEMMA HeldPresent ==
    ASSUME NEW line, NEW held \in Held(line)
    PROVE  held # Absent
<1>1. held = [dirty |-> held.dirty, data |-> held.data]
  BY DEF Held
<1>2. DOMAIN held = {"dirty", "data"}
  BY <1>1
<1>3. DOMAIN Absent = {}
  BY DEF Absent
<1> QED
  BY <1>2, <1>3

\* A step of the cache, or of the CPU, is judged word by word.
LEMMA WordByWord ==
    ASSUME CacheInv, CacheTypes', UNCHANGED <<bufRange, bufAt, bufMva, bufFilled>>,
           \A a \in Addresses : Kept(a) => Kept(a)',
           bufAt # "cpu" => \A a \in bufRange :
              /\ InMemory(a) /\ (Kept(a) \/ Undirtied(a)) => InMemory(a)'
              /\ RangeOk /\ Undirtied(a) => Undirtied(a)'
    PROVE  CacheInv'
<1>1. RangeOk' <=> RangeOk
  BY SameRange
<1>2. bufRange \subseteq Addresses
  BY BufferWords DEF CacheInv
<1>3. \A a \in Addresses \ bufRange : Kept(a)'
  BY DEF CacheInv
<1>4. ASSUME Sound, NEW a \in bufRange PROVE OnItsWay(a)'
  <2>1. OnItsWay(a) /\ (bufAt = "inval" => RangeOk) /\ (Kept(a) => Kept(a)')
    BY <1>2, <1>4 DEF CacheInv, CacheTypes
  <2>2. /\ bufAt' = bufAt /\ bufMva' = bufMva /\ bufFilled' = bufFilled
        /\ bufAt \in {"cpu", "flush", "dma", "inval"} /\ bufFilled \in {0, 1}
    BY DEF CacheInv, CacheTypes
  <2>3. ASSUME bufAt # "cpu", Flushed(a) PROVE Flushed(a)'
    <3>1. Kept(a) \/ Undirtied(a)
      BY <1>4, <2>1, <2>2, <2>3 DEF OnItsWay, Flushed, Sound
    <3> QED
      BY <1>1, <2>3, <3>1 DEF Flushed
  <2> QED
    BY <2>1, <2>2, <2>3 DEF OnItsWay
<1> QED
  BY <1>1, <1>3, <1>4 DEF CacheInv, Sound

\* Cleaning a line writes back its words and loses none.
LEMMA CleanWords ==
    ASSUME CacheTypes, NEW line \in Lines, Clean(line), UNCHANGED bufLatest
    PROVE  /\ memory' \in [Addresses -> Int] /\ DOMAIN cached' = Lines
           /\ \A l \in Lines : cached'[l] = Absent \/ cached'[l] \in Held(l)
           /\ \A a \in Addresses :
                 /\ Kept(a) => Kept(a)'
                 /\ InMemory(a) /\ (Kept(a) \/ Undirtied(a)) => InMemory(a)'
                 /\ Undirtied(a) => Undirtied(a)'
                 /\ RoundDown(a) = line => /\ Line(a)' = Absent
                                           /\ Kept(a) => InMemory(a)'
<1>1. /\ cached' = [cached EXCEPT ![line] = Absent]
      /\ memory' = IF cached[line] # Absent /\ cached[line].dirty = 1
                   THEN [a \in Addresses |-> IF a \in WordsOf(line) THEN cached[line].data[a]
                                             ELSE memory[a]]
                   ELSE memory
  BY DEF Clean
<1>2. /\ DOMAIN cached' = Lines /\ cached'[line] = Absent
      /\ \A l \in Lines : l # line => cached'[l] = cached[l]
  BY <1>1 DEF CacheTypes
<1>3. memory' \in [Addresses -> Int]
  BY <1>1 DEF CacheTypes, Held
<1>4. ASSUME NEW a \in Addresses
      PROVE  /\ Kept(a) => Kept(a)'
             /\ InMemory(a) /\ (Kept(a) \/ Undirtied(a)) => InMemory(a)'
             /\ Undirtied(a) => Undirtied(a)'
             /\ RoundDown(a) = line => /\ Line(a)' = Absent
                                       /\ Kept(a) => InMemory(a)'
  <2>1. RoundDown(a) \in Lines /\ (a \in WordsOf(line) <=> RoundDown(a) = line)
    BY LineOf
  <2>2. CASE RoundDown(a) # line
    <3>1. cached'[RoundDown(a)] = cached[RoundDown(a)] /\ memory'[a] = memory[a]
      BY <1>1, <1>2, <2>1, <2>2
    <3> QED
      BY <2>2, <3>1 DEF Kept, InMemory, Undirtied, Line
  <2>3. CASE RoundDown(a) = line
    <3>1. Line(a)' = Absent
      BY <1>2, <2>3 DEF Line
    <3>2. CASE Line(a) # Absent /\ Line(a).dirty = 1
      <4>1. memory'[a] = Line(a).data[a]
        BY <1>1, <2>1, <2>3, <3>2 DEF Line
      <4> QED
        BY <3>1, <3>2, <4>1 DEF Kept, InMemory, Undirtied
    <3>3. CASE ~(Line(a) # Absent /\ Line(a).dirty = 1)
      <4>1. memory' = memory
        BY <1>1, <2>3, <3>3 DEF Line
      <4>2. Undirtied(a)
        BY <2>1, <3>3 DEF CacheTypes, Undirtied, Line, Held
      <4> QED
        BY <3>1, <4>1, <4>2 DEF Kept, InMemory, Undirtied
    <3> QED
      BY <3>2, <3>3
  <2> QED
    BY <2>2, <2>3
<1> QED
  BY <1>2, <1>3, <1>4 DEF CacheTypes

\* The cache writes back a line of its own accord.
LEMMA EvictStep == CacheInv /\ Evict => CacheInv'
<1> SUFFICES ASSUME CacheInv, Evict PROVE CacheInv'
  OBVIOUS
<1>1. PICK line \in Lines : Clean(line)
  BY DEF Evict
<1>2. UNCHANGED <<bufRange, bufAt, bufMva, bufLatest, bufFilled>>
  BY DEF Evict
<1>3. CacheTypes'
  BY <1>1, <1>2, CleanWords, SameRange DEF CacheInv, CacheTypes
<1>4. bufRange \subseteq Addresses
  BY BufferWords DEF CacheInv
<1> QED
  BY <1>1, <1>2, <1>3, <1>4, CleanWords, WordByWord DEF CacheInv

\* The cache loads a line of its own accord.
LEMMA FillStep == CacheInv /\ Fill => CacheInv'
<1> SUFFICES ASSUME CacheInv, Fill PROVE CacheInv'
  OBVIOUS
<1>1. PICK line \in Lines : /\ cached[line] = Absent
                            /\ cached' = [cached EXCEPT ![line] = Loaded(line, 0)]
  BY DEF Fill
<1>2. UNCHANGED <<memory, bufRange, bufAt, bufMva, bufLatest, bufFilled>>
  BY DEF Fill
<1>3. /\ DOMAIN cached' = Lines /\ cached'[line] = Loaded(line, 0)
      /\ \A l \in Lines : l # line => cached'[l] = cached[l]
      /\ Loaded(line, 0) \in Held(line)
  BY <1>1, LoadedHeld DEF CacheInv, CacheTypes
<1>4. CacheTypes'
  BY <1>2, <1>3, SameRange DEF CacheInv, CacheTypes
<1>5. ASSUME NEW a \in Addresses
      PROVE  (Kept(a) => Kept(a)') /\ (InMemory(a) => InMemory(a)') /\ (Undirtied(a) => Undirtied(a)')
  <2>1. RoundDown(a) \in Lines /\ (a \in WordsOf(line) <=> RoundDown(a) = line)
    BY LineOf
  <2>2. CASE RoundDown(a) # line
    BY <1>2, <1>3, <2>1, <2>2 DEF Kept, InMemory, Undirtied, Line
  <2>3. CASE RoundDown(a) = line
    <3>1. Line(a)'.dirty = 0 /\ Line(a)'.data[a] = memory[a] /\ Line(a) = Absent
      BY <1>1, <1>3, <2>1, <2>3 DEF Line, Loaded
    <3> QED
      BY <1>2, <3>1 DEF Kept, InMemory, Undirtied
  <2> QED
    BY <2>2, <2>3
<1>6. bufRange \subseteq Addresses
  BY BufferWords DEF CacheInv
<1> QED
  BY <1>2, <1>4, <1>5, <1>6, WordByWord

\* The CPU stores into words it owns.
LEMMA CpuWriteStep == CacheInv /\ CpuWrite => CacheInv'
<1> SUFFICES ASSUME CacheInv, CpuWrite PROVE CacheInv'
  OBVIOUS
<1>1. PICK x \in Addresses :
         LET line == RoundDown(x)
             value == (bufLatest[x] + 1) % Values
             held == IF cached[line] = Absent THEN Loaded(line, 1) ELSE cached[line]
         IN /\ x \in bufRange => bufAt = "cpu"
            /\ cached' = [cached EXCEPT ![line] =
                             [dirty |-> 1, data |-> [held.data EXCEPT ![x] = value]]]
            /\ bufLatest' = [bufLatest EXCEPT ![x] = value]
            /\ UNCHANGED <<memory, bufRange, bufAt, bufMva, bufFilled>>
  BY DEF CpuWrite
<1>2. PICK line \in Lines : line = RoundDown(x)
  BY LineOf
<1>3. PICK value \in Int : value = (bufLatest[x] + 1) % Values
  BY CacheAssumption DEF CacheInv, CacheTypes
<1>4. PICK held \in Held(line) :
         held = IF cached[line] = Absent THEN Loaded(line, 1) ELSE cached[line]
  BY LoadedHeld DEF CacheInv, CacheTypes
<1>5. PICK new : new = [dirty |-> 1, data |-> [held.data EXCEPT ![x] = value]]
  OBVIOUS
<1>6. /\ x \in bufRange => bufAt = "cpu"
      /\ cached' = [cached EXCEPT ![line] = new]
      /\ bufLatest' = [bufLatest EXCEPT ![x] = value]
      /\ UNCHANGED <<memory, bufRange, bufAt, bufMva, bufFilled>>
  BY <1>1, <1>2, <1>3, <1>4, <1>5
<1>7. x \in WordsOf(line)
  BY <1>2, LineOf
<1>8. /\ new \in Held(line) /\ new # Absent /\ new.dirty = 1 /\ new.data[x] = value
      /\ \A a \in WordsOf(line) : a # x => new.data[a] = held.data[a]
  <2>1. held.data \in [WordsOf(line) -> Int]
    BY DEF Held
  <2>2. new \in Held(line)
    BY <1>5, <2>1 DEF Held
  <2> QED
    BY <1>5, <1>7, <2>1, <2>2, HeldPresent
<1>9. /\ DOMAIN cached' = Lines /\ cached'[line] = new
      /\ \A l \in Lines : l # line => cached'[l] = cached[l]
      /\ bufLatest' \in [Addresses -> Int] /\ bufLatest'[x] = value
      /\ \A a \in Addresses : a # x => bufLatest'[a] = bufLatest[a]
  BY <1>6 DEF CacheInv, CacheTypes
<1>10. CacheTypes'
  BY <1>6, <1>8, <1>9, SameRange DEF CacheInv, CacheTypes
<1>11. ASSUME NEW a \in Addresses, Kept(a) PROVE Kept(a)'
  <2>1. RoundDown(a) \in Lines /\ (a \in WordsOf(line) <=> RoundDown(a) = line)
    BY LineOf
  <2>2. CASE RoundDown(a) # line
    BY <1>2, <1>6, <1>9, <1>11, <2>1, <2>2 DEF Kept, InMemory, Undirtied, Line
  <2>3. CASE RoundDown(a) = line /\ a = x
    BY <1>8, <1>9, <2>3 DEF Kept, Undirtied, Line
  <2>4. CASE RoundDown(a) = line /\ a # x
    <3>1. held.data[a] = bufLatest[a]
      BY <1>4, <1>11, <2>1, <2>4 DEF Kept, InMemory, Undirtied, Line, Loaded
    <3> QED
      BY <1>8, <1>9, <2>1, <2>4, <3>1 DEF Kept, Undirtied, Line
  <2> QED
    BY <2>2, <2>3, <2>4
<1>12. ASSUME bufAt # "cpu", NEW a \in bufRange
       PROVE  /\ InMemory(a) => InMemory(a)'
              /\ RangeOk /\ Undirtied(a) => Undirtied(a)'
  <2>1. a \in Addresses /\ a # x /\ x \notin bufRange
    BY <1>6, <1>12, BufferWords DEF CacheInv
  <2>2. InMemory(a) => InMemory(a)'
    BY <1>6, <1>9, <2>1 DEF InMemory
  <2>3. ASSUME RangeOk PROVE RoundDown(a) # line
    BY <1>2, <2>1, <2>3, WholeLines DEF CacheInv, CacheTypes
  <2>4. RangeOk /\ Undirtied(a) => Undirtied(a)'
    BY <1>9, <2>1, <2>3, LineOf DEF Undirtied, Line
  <2> QED
    BY <2>2, <2>4
<1> QED
  BY <1>6, <1>10, <1>11, <1>12, WordByWord

\* The DMA stores into the buffer, none of whose lines is dirty.
LEMMA DmaWriteStep == CacheInv /\ DmaWrite => CacheInv'
<1> SUFFICES ASSUME CacheInv, DmaWrite PROVE CacheInv'
  OBVIOUS
<1>1. PICK x \in bufRange :
         LET value == (bufLatest[x] + 1) % Values IN
         /\ memory' = [memory EXCEPT ![x] = value]
         /\ bufLatest' = [bufLatest EXCEPT ![x] = value]
  BY DEF DmaWrite
<1>2. PICK value \in Int : value = (bufLatest[x] + 1) % Values
  BY <1>1, BufferWords, CacheAssumption DEF CacheInv, CacheTypes
<1>3. /\ bufAt = "dma" /\ bufFilled' = 1 /\ bufRange \subseteq Addresses
      /\ memory' = [memory EXCEPT ![x] = value]
      /\ bufLatest' = [bufLatest EXCEPT ![x] = value]
      /\ UNCHANGED <<cached, bufRange, bufAt, bufMva>>
  BY <1>1, <1>2, BufferWords DEF DmaWrite, CacheInv
<1>4. /\ memory' \in [Addresses -> Int] /\ bufLatest' \in [Addresses -> Int]
      /\ memory'[x] = bufLatest'[x]
      /\ \A a \in Addresses : a # x => memory'[a] = memory[a] /\ bufLatest'[a] = bufLatest[a]
  BY <1>3 DEF CacheInv, CacheTypes
<1>5. CacheTypes'
  BY <1>3, <1>4, SameRange DEF CacheInv, CacheTypes
<1>6. ASSUME NEW a \in Addresses \ bufRange PROVE Kept(a)'
  BY <1>3, <1>4 DEF CacheInv, Kept, InMemory, Undirtied, Line
<1>7. ASSUME Sound', NEW a \in bufRange PROVE OnItsWay(a)'
  <2>1. RangeOk /\ RangeOk'
    BY <1>3, <1>7, SameRange DEF Sound
  <2>2. Flushed(a)
    BY <1>3, <2>1 DEF CacheInv, Sound, OnItsWay
  <2>3. Flushed(a)'
    BY <1>3, <1>4, <2>1, <2>2 DEF Flushed, InMemory, Undirtied, Line
  <2> QED
    BY <1>3, <2>3 DEF OnItsWay
<1> QED
  BY <1>3, <1>5, <1>6, <1>7 DEF CacheInv

\* Steps that only pass the buffer on.
LEMMA PassedOn ==
    ASSUME CacheInv, UNCHANGED <<memory, cached, bufRange, bufLatest>>
    PROVE  /\ \A a \in Addresses :
                 (Kept(a)' <=> Kept(a)) /\ (Flushed(a)' <=> Flushed(a))
           /\ \A a \in Addresses \ bufRange : Kept(a)'
           /\ bufRange \subseteq Addresses
           /\ RangeOk' <=> RangeOk
<1>1. (RangeOk' <=> RangeOk) /\ bufRange \subseteq Addresses
  BY SameRange, BufferWords DEF CacheInv
<1>2. ASSUME NEW a \in Addresses
      PROVE  (Kept(a)' <=> Kept(a)) /\ (Flushed(a)' <=> Flushed(a))
  BY <1>1 DEF Kept, Flushed, InMemory, Undirtied, Line
<1>3. ASSUME NEW a \in Addresses \ bufRange PROVE Kept(a)'
  BY <1>2 DEF CacheInv
<1> QED
  BY <1>1, <1>2, <1>3

\* The lines of the buffer begin at the line of its first word.
LEMMA FirstLine ==
    ASSUME CacheTypes, NEW a \in bufRange
    PROVE  /\ First \in Nat /\ First % LineLen = 0 /\ First <= RoundDown(a)
           /\ RoundDown(a) \in Nat /\ RoundDown(a) <= a /\ a < BufferStop /\ BufferStop \in Nat
           /\ RangeOk => First = BufferStart
<1>1. /\ BufferStart \in Nat /\ BufferStop \in Nat /\ a \in Nat
      /\ BufferStart <= a /\ a < BufferStop
  BY BufferBounds, CacheAssumption DEF CacheTypes
<1> QED
  BY <1>1, RoundDownFacts, RoundDownOrder DEF First, RangeOk

\* flush_dcache_range begins at the line of the first word.
LEMMA FlushStartStep == CacheInv /\ FlushStart => CacheInv'
<1> SUFFICES ASSUME CacheInv, FlushStart PROVE CacheInv'
  OBVIOUS
<1>1. /\ bufAt = "cpu" /\ bufAt' = "flush" /\ bufMva' = First
      /\ UNCHANGED <<memory, cached, bufRange, bufLatest, bufFilled>>
  BY DEF FlushStart
<1>2. /\ First \in Nat /\ First % LineLen = 0
      /\ \A a \in bufRange : First <= RoundDown(a) /\ RoundDown(a) \in Nat
  <2>1. PICK a \in bufRange : TRUE
    BY BufferBounds, CacheAssumption DEF CacheInv, CacheTypes
  <2> QED
    BY <2>1, FirstLine DEF CacheInv
<1>3. CacheTypes'
  BY <1>1, <1>2, SameRange DEF CacheInv, CacheTypes
<1>4. ASSUME Sound', NEW a \in bufRange PROVE OnItsWay(a)'
  <2>1. /\ a \in Addresses /\ (RangeOk' <=> RangeOk)
        /\ (Kept(a)' <=> Kept(a)) /\ (Flushed(a)' <=> Flushed(a))
    BY <1>1, PassedOn
  <2>2. Kept(a)
    BY <1>1, <1>4, <2>1 DEF CacheInv, Sound, OnItsWay
  <2>3. ~(RoundDown(a) < bufMva')
    BY <1>1, <1>2
  <2> QED
    BY <1>1, <2>1, <2>2, <2>3 DEF OnItsWay
<1> QED
  BY <1>1, <1>3, <1>4, PassedOn DEF CacheInv

\* The next line of a loop.
LEMMA NextLine ==
    ASSUME NEW x \in Nat, x % LineLen = 0
    PROVE  /\ x + LineLen \in Nat /\ (x + LineLen) % LineLen = 0
           /\ \A a \in Nat : RoundDown(a) < x + LineLen => RoundDown(a) < x \/ RoundDown(a) = x
<1>1. LineLen \in Nat \ {0}
  BY CacheAssumption
<1>2. x \div LineLen \in Nat /\ x = LineLen * (x \div LineLen)
  BY <1>1, DivMod
<1>3. PICK q \in Nat : x = LineLen * q
  BY <1>2
<1>4. (x + LineLen) % LineLen = 0
  <2>1. x + LineLen = LineLen * (q + 1) /\ q + 1 \in Nat
    BY <1>1, <1>3
  <2> QED
    BY <1>1, <2>1, MultipleMod
<1>5. ASSUME NEW a \in Nat, RoundDown(a) < x + LineLen PROVE RoundDown(a) <= x
  BY <1>1, <1>5, RoundDownFacts, Apart
<1>6. \A a \in Nat : RoundDown(a) \in Nat
  BY RoundDownFacts
<1> QED
  BY <1>1, <1>4, <1>5, <1>6

\* mcr p15, 0, mva, c7, c14, 1: one line is cleaned and dropped.
LEMMA FlushLineStep == CacheInv /\ FlushLine => CacheInv'
<1> SUFFICES ASSUME CacheInv, FlushLine PROVE CacheInv'
  OBVIOUS
<1>1. /\ bufAt = "flush" /\ bufMva < BufferStop /\ Clean(RoundDown(bufMva))
      /\ bufMva' = bufMva + LineLen
      /\ UNCHANGED <<bufRange, bufAt, bufLatest, bufFilled>>
  BY DEF FlushLine
<1>2. bufMva \in Nat /\ bufMva % LineLen = 0 /\ bufRange \subseteq Addresses
  BY <1>1, BufferWords DEF CacheInv, CacheTypes
<1>3. bufMva \in Lines /\ RoundDown(bufMva) = bufMva
  <2>1. bufMva \in Addresses
    BY <1>1, <1>2, BufferBounds, CacheAssumption DEF Addresses, CacheInv, CacheTypes
  <2> QED
    BY <1>2, <2>1, RoundDownFacts DEF Lines
<1>4. Clean(bufMva)
  BY <1>1, <1>3
<1>5. /\ memory' \in [Addresses -> Int] /\ DOMAIN cached' = Lines
      /\ \A l \in Lines : cached'[l] = Absent \/ cached'[l] \in Held(l)
      /\ \A a \in Addresses :
            /\ Kept(a) => Kept(a)'
            /\ InMemory(a) /\ (Kept(a) \/ Undirtied(a)) => InMemory(a)'
            /\ Undirtied(a) => Undirtied(a)'
            /\ RoundDown(a) = bufMva => Line(a)' = Absent /\ (Kept(a) => InMemory(a)')
  BY <1>1, <1>3, <1>4, CleanWords DEF CacheInv
<1>6. CacheTypes'
  BY <1>1, <1>2, <1>5, NextLine, SameRange DEF CacheInv, CacheTypes
<1>7. \A a \in Addresses \ bufRange : Kept(a)'
  BY <1>5 DEF CacheInv
<1>8. ASSUME Sound', NEW a \in bufRange PROVE OnItsWay(a)'
  <2>1. /\ Kept(a) /\ a \in Addresses /\ a \in Nat /\ (RangeOk' <=> RangeOk)
        /\ RoundDown(a) < bufMva => Flushed(a)
    BY <1>1, <1>2, <1>8, SameRange, LineOf DEF CacheInv, Sound, OnItsWay
  <2>2. ASSUME RoundDown(a) < bufMva' PROVE Flushed(a)'
    <3>1. RoundDown(a) < bufMva \/ RoundDown(a) = bufMva
      BY <1>1, <1>2, <2>1, <2>2, NextLine
    <3>2. CASE RoundDown(a) < bufMva
      BY <1>5, <2>1, <3>2 DEF Flushed
    <3>3. CASE RoundDown(a) = bufMva
      BY <1>5, <2>1, <3>3 DEF Flushed, Undirtied
    <3> QED
      BY <3>1, <3>2, <3>3
  <2> QED
    BY <1>1, <1>5, <2>1, <2>2 DEF OnItsWay
<1> QED
  BY <1>1, <1>6, <1>7, <1>8 DEF CacheInv

\* The flush has passed the end: the buffer goes to the DMA.
LEMMA FlushDoneStep == CacheInv /\ FlushDone => CacheInv'
<1> SUFFICES ASSUME CacheInv, FlushDone PROVE CacheInv'
  OBVIOUS
<1>1. /\ bufAt = "flush" /\ bufMva >= BufferStop /\ bufAt' = "dma"
      /\ UNCHANGED <<memory, cached, bufRange, bufMva, bufLatest, bufFilled>>
  BY DEF FlushDone
<1>2. CacheTypes'
  BY <1>1, SameRange DEF CacheInv, CacheTypes
<1>3. ASSUME Sound', NEW a \in bufRange PROVE OnItsWay(a)'
  <2>1. /\ a \in Addresses /\ (RangeOk' <=> RangeOk)
        /\ (Kept(a)' <=> Kept(a)) /\ (Flushed(a)' <=> Flushed(a))
    BY <1>1, PassedOn
  <2>2. RoundDown(a) < bufMva
    <3>1. CacheTypes /\ bufMva \in Nat
      BY DEF CacheInv, CacheTypes
    <3>2. /\ RoundDown(a) \in Nat /\ a \in Nat /\ BufferStop \in Nat
          /\ RoundDown(a) <= a /\ a < BufferStop
      BY <2>1, <3>1, FirstLine, LineOf
    <3> QED
      BY <1>1, <3>1, <3>2
  <2>3. Kept(a) /\ Flushed(a)
    BY <1>1, <1>3, <2>1, <2>2 DEF CacheInv, Sound, OnItsWay
  <2> QED
    BY <1>1, <2>1, <2>3 DEF OnItsWay
<1> QED
  BY <1>1, <1>2, <1>3, PassedOn DEF CacheInv

\* invalidate_dcache_range does nothing to a range that is not made of lines.
LEMMA InvalidateStartStep == CacheInv /\ InvalidateStart => CacheInv'
<1> SUFFICES ASSUME CacheInv, InvalidateStart PROVE CacheInv'
  OBVIOUS
<1>1. /\ bufAt = "dma" /\ bufAt' = (IF RangeOk THEN "inval" ELSE "cpu")
      /\ bufMva' = BufferStart
      /\ UNCHANGED <<memory, cached, bufRange, bufLatest, bufFilled>>
  BY DEF InvalidateStart
<1>2. BufferStart \in Nat
  BY BufferBounds, CacheAssumption DEF CacheInv, CacheTypes
<1>3. CacheTypes'
  BY <1>1, <1>2, SameRange DEF CacheInv, CacheTypes, RangeOk
<1>4. ASSUME Sound', NEW a \in bufRange PROVE OnItsWay(a)'
  <2>0. /\ a \in Addresses /\ (RangeOk' <=> RangeOk)
        /\ (Kept(a)' <=> Kept(a)) /\ (Flushed(a)' <=> Flushed(a))
    BY <1>1, PassedOn
  <2>1. OnItsWay(a)
    BY <1>1, <1>4, <2>0 DEF CacheInv, Sound
  <2>2. RangeOk => BufferStart <= RoundDown(a) /\ RoundDown(a) \in Nat
    BY FirstLine DEF CacheInv
  <2>3. CASE RangeOk
    BY <1>1, <1>2, <2>0, <2>1, <2>2, <2>3 DEF OnItsWay
  <2>4. CASE ~RangeOk
    <3>1. bufFilled = 0
      BY <1>1, <1>4, <2>0, <2>4 DEF Sound
    <3> QED
      BY <1>1, <2>0, <2>1, <2>4, <3>1 DEF OnItsWay
  <2> QED
    BY <2>3, <2>4
<1> QED
  BY <1>1, <1>3, <1>4, PassedOn DEF CacheInv

\* mcr p15, 0, mva, c7, c6, 1: one line is dropped, and only words of the range.
LEMMA InvalidateLineStep == CacheInv /\ InvalidateLine => CacheInv'
<1> SUFFICES ASSUME CacheInv, InvalidateLine PROVE CacheInv'
  OBVIOUS
<1>1. /\ bufAt = "inval" /\ bufMva < BufferStop
      /\ cached' = [cached EXCEPT ![bufMva] = Absent]
      /\ bufMva' = bufMva + LineLen
      /\ UNCHANGED <<memory, bufRange, bufAt, bufLatest, bufFilled>>
  BY DEF InvalidateLine
<1>2. /\ bufMva \in Nat /\ bufMva % LineLen = 0 /\ bufRange \subseteq Addresses
      /\ RangeOk /\ bufMva >= BufferStart /\ LineLen \in Nat
  BY <1>1, BufferWords, CacheAssumption DEF CacheInv, CacheTypes
<1>3. bufMva \in bufRange /\ bufMva \in Lines /\ RoundDown(bufMva) = bufMva
  <2>1. bufMva \in bufRange
    BY <1>1, <1>2, BufferBounds DEF CacheInv, CacheTypes
  <2> QED
    BY <1>2, <2>1, RoundDownFacts DEF Lines
<1>4. /\ DOMAIN cached' = Lines /\ cached'[bufMva] = Absent
      /\ \A l \in Lines : l # bufMva => cached'[l] = cached[l]
  BY <1>1, <1>3 DEF CacheInv, CacheTypes
<1>5. CacheTypes'
  <2>1. BufferStart \in Nat
    BY BufferBounds, CacheAssumption DEF CacheInv, CacheTypes
  <2> QED
    BY <1>1, <1>2, <1>4, <2>1, NextLine, SameRange DEF CacheInv, CacheTypes
<1>6. ASSUME NEW a \in Addresses \ bufRange PROVE Kept(a)'
  <2>1. RoundDown(a) # bufMva /\ RoundDown(a) \in Lines
    BY <1>2, <1>3, WholeLines, LineOf DEF CacheInv, CacheTypes
  <2> QED
    BY <1>1, <1>4, <2>1 DEF CacheInv, Kept, InMemory, Undirtied, Line
<1>7. ASSUME Sound', NEW a \in bufRange PROVE OnItsWay(a)'
  <2>1. /\ Flushed(a) /\ a \in Nat /\ RoundDown(a) \in Lines /\ (RangeOk' <=> RangeOk)
        /\ RoundDown(a) < bufMva => Kept(a)
    BY <1>1, <1>2, SameRange, LineOf DEF CacheInv, Sound, OnItsWay
  <2>2. Flushed(a)'
    BY <1>1, <1>4, <2>1 DEF Flushed, InMemory, Undirtied, Line
  <2>3. ASSUME RoundDown(a) < bufMva' PROVE Kept(a)'
    <3>1. RoundDown(a) < bufMva \/ RoundDown(a) = bufMva
      BY <1>1, <1>2, <2>1, <2>3, NextLine
    <3>2. CASE RoundDown(a) = bufMva
      BY <1>4, <2>2, <3>2 DEF Flushed, Kept, Line
    <3>3. CASE RoundDown(a) < bufMva /\ RoundDown(a) # bufMva
      BY <1>1, <1>4, <2>1, <3>3 DEF Kept, InMemory, Undirtied, Line
    <3> QED
      BY <3>1, <3>2, <3>3
  <2> QED
    BY <1>1, <2>2, <2>3 DEF OnItsWay
<1> QED
  BY <1>1, <1>5, <1>6, <1>7 DEF CacheInv

\* The invalidation has passed the end: the buffer is the CPU's.
LEMMA InvalidateDoneStep == CacheInv /\ InvalidateDone => CacheInv'
<1> SUFFICES ASSUME CacheInv, InvalidateDone PROVE CacheInv'
  OBVIOUS
<1>1. /\ bufAt = "inval" /\ bufMva >= BufferStop /\ bufAt' = "cpu"
      /\ UNCHANGED <<memory, cached, bufRange, bufMva, bufLatest, bufFilled>>
  BY DEF InvalidateDone
<1>2. CacheTypes'
  BY <1>1, SameRange DEF CacheInv, CacheTypes
<1>3. ASSUME Sound', NEW a \in bufRange PROVE OnItsWay(a)'
  <2>1. /\ a \in Addresses /\ (RangeOk' <=> RangeOk)
        /\ (Kept(a)' <=> Kept(a)) /\ (Flushed(a)' <=> Flushed(a))
    BY <1>1, PassedOn
  <2>2. RoundDown(a) < bufMva
    <3>1. CacheTypes /\ bufMva \in Nat
      BY DEF CacheInv, CacheTypes
    <3>2. /\ RoundDown(a) \in Nat /\ a \in Nat /\ BufferStop \in Nat
          /\ RoundDown(a) <= a /\ a < BufferStop
      BY <2>1, <3>1, FirstLine, LineOf
    <3> QED
      BY <1>1, <3>1, <3>2
  <2>3. Kept(a)
    BY <1>1, <1>3, <2>1, <2>2 DEF CacheInv, Sound, OnItsWay
  <2> QED
    BY <1>1, <2>1, <2>3 DEF OnItsWay
<1> QED
  BY <1>1, <1>2, <1>3, PassedOn DEF CacheInv

\* Nothing is cached at first.
LEMMA CacheInitInv == CacheInit => CacheInv
<1> SUFFICES ASSUME CacheInit PROVE CacheInv
  OBVIOUS
<1>1. CacheTypes
  BY DEF CacheInit, CacheTypes
<1>2. ASSUME NEW a \in Addresses PROVE Kept(a)
  <2>1. Line(a) = Absent /\ InMemory(a)
    BY LineOf DEF CacheInit, Line, InMemory
  <2> QED
    BY <2>1 DEF Kept
<1>3. ASSUME NEW a \in bufRange PROVE OnItsWay(a)
  BY <1>1, <1>2, BufferWords DEF CacheInit, OnItsWay
<1> QED
  BY <1>1, <1>2, <1>3 DEF CacheInv

\* No step of the CPU, the cache or the DMA breaks the invariant.
LEMMA CacheNextInv == CacheInv /\ [CacheNext]_cacheVars => CacheInv'
<1> SUFFICES ASSUME CacheInv, [CacheNext]_cacheVars PROVE CacheInv'
  OBVIOUS
<1>1. CASE CacheNext
  BY <1>1, CpuWriteStep, FillStep, EvictStep, DmaWriteStep, FlushStartStep, FlushLineStep,
     FlushDoneStep, InvalidateStartStep, InvalidateLineStep, InvalidateDoneStep DEF CacheNext
<1>2. CASE UNCHANGED cacheVars
  <2>1. UNCHANGED <<memory, cached, bufRange, bufAt, bufMva, bufLatest, bufFilled>>
    BY <1>2 DEF cacheVars
  <2>2. CacheTypes'
    BY <2>1, SameRange DEF CacheInv, CacheTypes
  <2>3. ASSUME Sound', NEW a \in bufRange PROVE OnItsWay(a)'
    <3>1. /\ a \in Addresses /\ (RangeOk' <=> RangeOk)
          /\ (Kept(a)' <=> Kept(a)) /\ (Flushed(a)' <=> Flushed(a))
      BY <2>1, PassedOn
    <3> QED
      BY <2>1, <2>3, <3>1 DEF CacheInv, Sound, OnItsWay
  <2> QED
    BY <2>1, <2>2, <2>3, PassedOn DEF CacheInv
<1> QED
  BY <1>1, <1>2

\* What a word that is kept means to the CPU.
LEMMA KeptSeen == \A a \in Addresses : Kept(a) => Seen(a) = bufLatest[a]
BY DEF Kept, Seen, InMemory, Undirtied, Line

\* flush_dcache_range and invalidate_dcache_range, for any memory, line and
\* buffer: the DMA finds in memory what the CPU wrote and the CPU finds what the
\* DMA wrote, and no neighbour of the buffer is lost, as long as the DMA writes
\* only into buffers made of whole lines.
THEOREM BuffersSafe == CacheSpec => []CoherentBuffers
<1>1. CacheInv => CoherentBuffers
  <2> SUFFICES ASSUME CacheInv PROVE CoherentBuffers
    OBVIOUS
  <2>1. bufRange \subseteq Addresses
    BY BufferWords DEF CacheInv
  <2>2. Sound /\ bufAt = "dma" => \A a \in bufRange : memory[a] = bufLatest[a]
    BY DEF CacheInv, OnItsWay, Flushed, InMemory
  <2>3. Sound /\ bufAt = "cpu" => \A a \in bufRange : Seen(a) = bufLatest[a]
    BY <2>1, KeptSeen DEF CacheInv, OnItsWay
  <2>4. \A a \in Addresses \ bufRange : Seen(a) = bufLatest[a]
    BY KeptSeen DEF CacheInv
  <2> QED
    BY <2>2, <2>3, <2>4 DEF CoherentBuffers, Sound
<1> QED
  BY CacheInitInv, CacheNextInv, <1>1, PTL DEF CacheSpec

=============================================================================
