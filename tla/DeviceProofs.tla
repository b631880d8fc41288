---------------------------- MODULE DeviceProofs ----------------------------
(***************************************************************************)
(* Theorems about the small drivers: the busy wait on the tick timer, the  *)
(* watchdog, the real-time clock, the mode of the Ethernet link and the    *)
(* dividers of the clocks.                                                 *)
(*                                                                         *)
(* Udelay: the counts that passed are related to the part of the request   *)
(* that has been taken off usec: what is left of the chunk is their        *)
(* difference, or less by what no reading showed.                          *)
(*                                                                         *)
(* Watchdog: the interval of a start is followed through the two readings  *)
(* and stores of the mode register: as long as no stop cleared the code    *)
(* inside a start, what the register holds is the interval of one of the   *)
(* starts under way, and so is what any of them read of it.                *)
(*                                                                         *)
(* RtcClock: at most one store is on its way, and after the wait of a call *)
(* only its own; a reading that is still good is one the clock showed, or  *)
(* the clock has run on from it through all times since.                   *)
(*                                                                         *)
(* PhyLink: a link is up with the partner that is there, and a PHY that    *)
(* was configured advertises all it has.                                   *)
(*                                                                         *)
(* Rates: every setting is compared with all others, each divider through  *)
(* the product that it bounds.                                             *)
(***************************************************************************)
EXTENDS Udelay, Watchdog, RtcClock, PhyLink, Rates, WellFoundedInduction, TLAPS

-----------------------------------------------------------------------------
(* The busy wait: never too short, and no longer than its readings can tell *)

Served == Rate * (request - usec)

Stages == /\ pc = "Chunk" => tmo = 0
          /\ pc = "Done" => usec = 0 /\ tmo = 0

NotEarly == elapsed >= Served - tmo

NotLate == /\ tmo > 0 => elapsed <= Served - tmo + slack
           /\ elapsed <= Served + slack

DelayInv == TypeOK /\ Stages /\ NotEarly /\ NotLate

\* Whole periods: none, or one and the others.
LEMMA Turns ==
    ASSUME NEW turns \in Nat, NEW period \in Nat
    PROVE  /\ turns * period \in Nat
           /\ turns = 0 => turns * period = 0
           /\ turns # 0 => /\ (turns - 1) * period \in Nat
                           /\ turns * period = (turns - 1) * period + period
<1>1. turns * period \in Nat
  BY SMT
<1>2. turns = 0 => turns * period = 0
  BY SMT
<1>3. ASSUME turns # 0
      PROVE  /\ (turns - 1) * period \in Nat
             /\ turns * period = (turns - 1) * period + period
  <2>1. turns - 1 \in Nat
    BY <1>3
  <2>. QED
    BY <2>1
<1>. QED
  BY <1>1, <1>2, <1>3

\* What a reading shows is a part of what passed (nothing when a
\* reload takes a count), and the rest is what no reading shows.
LEMMA ReadingShows ==
    ASSUME NEW now \in Reading, NEW turns \in 0..MaxTurns, last \in Reading,
           Gap(now, turns) > 0
    PROVE  /\ Gap(now, turns) \in Nat /\ Passed(now, last) \in Nat
           /\ Unseen(now, turns) \in Nat
           /\ Gap(now, turns) = Passed(now, last) + Unseen(now, turns)
<1>1. turns \in Nat /\ Period \in Nat /\ Load \in Nat \ {0}
      /\ (Period = Load \/ Period = Load + 1)
  BY UdelayAssumption
<1>2. /\ now \in Nat /\ last \in Nat /\ now <= Period - 1 /\ last <= Period - 1
  BY <1>1 DEF Reading
<1>. DEFINE whole == turns * Period
            others == (turns - 1) * Period
<1>3. /\ whole \in Nat
      /\ turns = 0 => whole = 0
      /\ turns # 0 => others \in Nat /\ whole = others + Period
  BY Turns, <1>1
<1>4. whole + now - last > 0
  BY DEF Gap
<1>. HIDE DEF whole, others
<1>5. CASE now > last
  <2>1. Gap(now, turns) = whole + now - last /\ Unseen(now, turns) = whole
        /\ Passed(now, last) = now - last
    BY <1>5 DEF Gap, Unseen, Passed, whole
  <2>. QED
    BY <2>1, <1>2, <1>3, <1>5
<1>6. CASE ~(now > last)
  <2>1. Gap(now, turns) = whole + now - last
        /\ Unseen(now, turns) = others + (Period - Load)
        /\ Passed(now, last) = Load - last + now
    BY <1>6 DEF Gap, Unseen, Passed, whole, others
  <2>2. turns # 0
    BY <1>2, <1>3, <1>4, <1>6
  <2>. QED
    BY <2>1, <2>2, <1>1, <1>2, <1>3, <1>4, <1>6
<1>. QED
  BY <1>5, <1>6

\* A chunk is a part of what is left, and serves Rate counts for each of its
\* microseconds.
LEMMA ChunkServes ==
    ASSUME usec \in Nat, request \in Nat, usec <= request,
           NEW kv, kv = Least(usec, WdPeriod)
    PROVE  /\ kv \in Nat /\ usec - kv \in Nat /\ Rate * kv \in Nat
           /\ Served \in Nat
           /\ Rate * (request - (usec - kv)) = Served + Rate * kv
<1>1. Rate \in Nat /\ WdPeriod \in Nat
  BY UdelayAssumption
<1>2. kv \in Nat /\ usec - kv \in Nat
  BY <1>1 DEF Least
<1>. DEFINE done == request - usec
<1>3. done \in Nat /\ request - (usec - kv) = done + kv
  BY <1>2
<1>. HIDE DEF done
<1>4. /\ Rate * (done + kv) = Rate * done + Rate * kv
      /\ Rate * kv \in Nat /\ Rate * done \in Nat
  BY <1>1, <1>2, <1>3
<1>5. Served = Rate * done
  BY DEF Served, done
<1>. QED
  BY <1>2, <1>3, <1>4, <1>5

LEMMA DelayInitInv == Init => DelayInv
<1>. SUFFICES ASSUME Init PROVE DelayInv
  OBVIOUS
<1>1. usec \in Nat /\ Rate \in Nat
  BY UdelayAssumption DEF Init
<1>2. TypeOK
  BY <1>1 DEF Init, TypeOK
<1>3. Served = 0
  BY <1>1 DEF Init, Served
<1>. QED
  BY <1>1, <1>2, <1>3 DEF DelayInv, Init, Stages, NotEarly, NotLate

LEMMA ChunkStep == DelayInv /\ Chunk => DelayInv'
<1>. SUFFICES ASSUME DelayInv, Chunk PROVE DelayInv'
  OBVIOUS
<1>1. PICK now \in Reading, turns \in 0..MaxTurns :
          Advance(now, turns) /\ slack' = slack + Gap(now, turns)
  BY DEF Chunk
<1>2. TypeOK /\ tmo = 0 /\ NotEarly /\ NotLate
  BY DEF DelayInv, Stages, Chunk
<1>. DEFINE kv == Least(usec, WdPeriod)
<1>3. /\ kv \in Nat /\ usec - kv \in Nat /\ Rate * kv \in Nat
      /\ Served \in Nat
      /\ Rate * (request - (usec - kv)) = Served + Rate * kv
  BY <1>2, ChunkServes DEF TypeOK
<1>4. Gap(now, turns) \in Nat
  BY <1>1, <1>2, ReadingShows DEF Advance, TypeOK
<1>5. /\ usec' = usec - kv /\ tmo' = Rate * kv /\ request' = request
      /\ pc' = "Poll" /\ last' = now
      /\ elapsed' = elapsed + Gap(now, turns) /\ slack' = slack + Gap(now, turns)
  BY <1>1 DEF Chunk, Advance
<1>. DEFINE counts == Rate * kv
            gap == Gap(now, turns)
<1>6. Served' = Served + counts
  BY <1>3, <1>5 DEF Served
<1>7. TypeOK'
  BY <1>2, <1>3, <1>4, <1>5 DEF TypeOK
<1>8. elapsed \in Nat /\ slack \in Nat
  BY <1>2 DEF TypeOK
<1>9. counts \in Nat /\ gap \in Nat /\ tmo' = counts
      /\ elapsed' = elapsed + gap /\ slack' = slack + gap
  BY <1>3, <1>4, <1>5
<1>10. elapsed >= Served /\ elapsed <= Served + slack
  BY <1>2, <1>3, <1>8 DEF NotEarly, NotLate
<1>. HIDE DEF counts, gap
<1>11. NotEarly'
  BY <1>3, <1>6, <1>8, <1>9, <1>10 DEF NotEarly
<1>12. NotLate'
  BY <1>3, <1>6, <1>8, <1>9, <1>10 DEF NotLate
<1>. QED
  BY <1>5, <1>7, <1>11, <1>12 DEF DelayInv, Stages

LEMMA PollStep == DelayInv /\ Poll => DelayInv'
<1>. SUFFICES ASSUME DelayInv, Poll PROVE DelayInv'
  OBVIOUS
<1>1. PICK now \in Reading, turns \in 0..MaxTurns :
          /\ Advance(now, turns)
          /\ tmo' = tmo - Passed(now, last)
          /\ slack' = slack + Unseen(now, turns)
                            + IF tmo' > 0 THEN 0 ELSE Gap(now, turns)
  BY DEF Poll
<1>2. TypeOK /\ NotEarly /\ NotLate /\ tmo > 0 /\ pc = "Poll"
  BY DEF DelayInv, Poll
<1>. DEFINE gap == Gap(now, turns)
            passed == Passed(now, last)
            unseen == Unseen(now, turns)
<1>3. gap \in Nat /\ passed \in Nat /\ unseen \in Nat /\ gap = passed + unseen
  BY <1>1, <1>2, ReadingShows DEF Advance, TypeOK
<1>4. /\ usec' = usec /\ request' = request /\ pc' = pc /\ last' = now
      /\ elapsed' = elapsed + gap
  BY <1>1 DEF Poll, Advance
<1>5. tmo' = tmo - passed /\ slack' = slack + unseen + (IF tmo' > 0 THEN 0 ELSE gap)
  BY <1>1
<1>. HIDE DEF gap, passed, unseen
<1>6. elapsed \in Nat /\ slack \in Nat /\ tmo \in Int
  BY <1>2 DEF TypeOK
<1>7. Served' = Served
  BY <1>4 DEF Served
<1>8. Served \in Nat
  BY <1>2, ChunkServes DEF TypeOK
<1>9. elapsed' \in Nat /\ slack' \in Nat /\ tmo' \in Int
  BY <1>3, <1>4, <1>5, <1>6
<1>10. TypeOK'
  BY <1>2, <1>4, <1>9 DEF TypeOK
<1>11. elapsed >= Served - tmo /\ elapsed <= Served - tmo + slack
  BY <1>2 DEF NotEarly, NotLate
<1>12. NotEarly'
  BY <1>3, <1>4, <1>5, <1>6, <1>7, <1>8, <1>11 DEF NotEarly
<1>13. NotLate'
  <2>1. CASE tmo' > 0
    <3>1. slack' = slack + unseen
      BY <1>3, <1>5, <1>6, <2>1
    <3>. QED
      BY <3>1, <2>1, <1>2, <1>3, <1>4, <1>5, <1>6, <1>7, <1>8, <1>11 DEF NotLate
  <2>2. CASE ~(tmo' > 0)
    <3>1. slack' = slack + unseen + gap
      BY <1>5, <2>2
    <3>. QED
      BY <3>1, <2>2, <1>2, <1>3, <1>4, <1>5, <1>6, <1>7, <1>8, <1>11 DEF NotLate
  <2>. QED
    BY <2>1, <2>2
<1>. QED
  BY <1>2, <1>4, <1>10, <1>12, <1>13 DEF DelayInv, Stages

LEMMA ReturnStep == DelayInv /\ Return => DelayInv'
<1>. SUFFICES ASSUME DelayInv, Return PROVE DelayInv'
  OBVIOUS
<1>1. TypeOK /\ NotEarly /\ NotLate
  BY DEF DelayInv
<1>2. /\ tmo <= 0 /\ tmo' = 0 /\ pc' = (IF usec > 0 THEN "Chunk" ELSE "Done")
      /\ UNCHANGED <<usec, last, request, elapsed, slack>>
  BY DEF Return
<1>3. TypeOK'
  BY <1>1, <1>2 DEF TypeOK
<1>4. Served' = Served
  BY <1>2 DEF Served
<1>5. Served \in Nat
  BY <1>1, ChunkServes DEF TypeOK
<1>6. elapsed \in Nat /\ slack \in Nat /\ tmo \in Int /\ usec \in Nat
  BY <1>1 DEF TypeOK
<1>7. NotEarly' /\ NotLate'
  BY <1>1, <1>2, <1>4, <1>5, <1>6 DEF NotEarly, NotLate
<1>8. Stages'
  BY <1>2, <1>6 DEF Stages
<1>. QED
  BY <1>3, <1>7, <1>8 DEF DelayInv

LEMMA DelayInvariance == Spec => []DelayInv
<1>1. DelayInv /\ [Next]_vars => DelayInv'
  <2>. SUFFICES ASSUME DelayInv, [Next]_vars PROVE DelayInv'
    OBVIOUS
  <2>1. CASE Next
    BY <2>1, ChunkStep, PollStep, ReturnStep DEF Next
  <2>2. CASE UNCHANGED vars
    BY <2>2 DEF vars, DelayInv, TypeOK, Stages, NotEarly, NotLate, Served
  <2>. QED
    BY <2>1, <2>2
<1>. QED
  BY <1>1, DelayInitInv, PTL DEF Spec

\* Types, with nothing left to wait for that was not asked.
THEOREM DelayTypeCorrect == Spec => []TypeOK
<1>1. DelayInv => TypeOK
  BY DEF DelayInv
<1>. QED
  BY <1>1, DelayInvariance, PTL

\* At the end everything asked for has been served.
LEMMA AtEnd ==
    ASSUME DelayInv, pc = "Done"
    PROVE  elapsed >= Rate * request /\ elapsed <= Rate * request + slack
<1>1. TypeOK /\ usec = 0 /\ tmo = 0 /\ NotEarly /\ NotLate
  BY DEF DelayInv, Stages
<1>2. Served = Rate * request /\ Served \in Nat
  BY <1>1, ChunkServes DEF Served, TypeOK
<1>3. elapsed \in Nat /\ slack \in Nat
  BY <1>1 DEF TypeOK
<1>4. elapsed >= Served /\ elapsed <= Served + slack
  BY <1>1, <1>2, <1>3 DEF NotEarly, NotLate
<1>. QED
  BY <1>2, <1>4

\* "delay x useconds": udelay never returns early, for every period of the
\* timer, every chunk size and every delay between two readings.
THEOREM NeverEarly == Spec => []DelayedEnough
<1>1. DelayInv => DelayedEnough
  BY AtEnd DEF DelayedEnough
<1>. QED
  BY <1>1, DelayInvariance, PTL

\* udelay is late by no more than what its readings cannot tell.
THEOREM NeverLate == Spec => []DelayedNoMore
<1>1. DelayInv => DelayedNoMore
  BY AtEnd DEF DelayedNoMore
<1>. QED
  BY <1>1, DelayInvariance, PTL

-----------------------------------------------------------------------------
(* The watchdog: as its callers said *)

CoversCalls ==
    /\ \A c \in Callers : wdtCall[c].at = "set" => Covers(Code(wdtCall[c].timeout))
    /\ wdtCut = 0 => \A c \in Callers :
          /\ wdtCall[c].at \in {"ping", "reread", "enable"} => Covers(wdtMode.code)
          /\ wdtCall[c].at = "enable" => Covers(wdtCall[c].read.code)

WdtInv ==
    /\ WdtTypeOK /\ StoppedAsCalled /\ IntervalAsAsked /\ TimeoutKept
    /\ CoversCalls

\* Whole seconds of a time from 1 to 16 of them.
LEMMA DivRange ==
    ASSUME NEW m \in Nat \ {0}, NEW x \in m..(16 * m)
    PROVE  x \div m \in 1..16
<1> DEFINE q == x \div m
<1>1. q \in Int /\ m * q <= x /\ x < m * (q + 1)
  OBVIOUS
<1> HIDE DEF q
<1>2. q >= 1
  <2>1. SUFFICES ASSUME q + 1 <= 1 PROVE FALSE
    BY <1>1
  <2>2. m * (q + 1) <= m
    BY <2>1, <1>1
  <2> QED
    BY <2>2, <1>1
<1>3. q <= 16
  <2>1. SUFFICES ASSUME q >= 17 PROVE FALSE
    BY <1>1
  <2>2. m * q >= m * 17
    BY <2>1, <1>1
  <2> QED
    BY <2>2, <1>1
<1> QED
  BY <1>1, <1>2, <1>3 DEF q

\* A number of seconds up to i \div m has at most i milliseconds.
LEMMA Fits ==
    ASSUME NEW i \in Nat, NEW m \in Nat \ {0}, NEW s \in Int,
           s <= i \div m, s >= -(i \div m)
    PROVE  s * m <= i /\ s * m >= -i
<1> DEFINE q == i \div m
<1>1. q \in Nat /\ m * q <= i
  OBVIOUS
<1>2. s <= q /\ -q <= s
  OBVIOUS
<1> HIDE DEF q
<1>3. s * m <= m * q
  BY <1>1, <1>2
<1>4. -(m * q) <= s * m
  BY <1>1, <1>2
<1> QED
  BY <1>1, <1>3, <1>4

\* A remainder of a number below the modulus is the number.
LEMMA ModSmall ==
    ASSUME NEW n \in Nat \ {0}, NEW y \in 0..(n - 1)
    PROVE  y % n = y
OBVIOUS

\* Only what does not fit in an int wraps.
LEMMA WrappedFits ==
    ASSUME NEW x \in Int, x <= IntMax, x >= -IntMax
    PROVE  Wrapped(x) = x
<1> DEFINE y == x + IntMax + 1
           n == 2 * (IntMax + 1)
<1>1. IntMax \in Nat /\ n \in Nat \ {0} /\ y \in 0..(n - 1)
  BY WatchdogAssumption
<1>2. y % n = y
  BY <1>1, ModSmall
<1> QED
  BY <1>1, <1>2 DEF Wrapped

\* The milliseconds of what fits are those of the seconds clamped.
LEMMA ClampedMilli ==
    ASSUME NEW s \in Int
    PROVE  Clamp(s * Milli, Milli, 16 * Milli) = Milli * Clamp(s, 1, 16)
<1>1. Milli \in Nat /\ Milli >= 1
  BY WatchdogAssumption
<1>2. CASE s < 1
  <2>1. s * Milli <= 0
    BY <1>1, <1>2
  <2> QED
    BY <1>1, <1>2, <2>1 DEF Clamp
<1>3. CASE s > 16
  <2>1. s * Milli > 16 * Milli
    BY <1>1, <1>3
  <2>2. ~(s * Milli < Milli)
    BY <1>1, <2>1
  <2> QED
    BY <1>1, <1>3, <2>1, <2>2 DEF Clamp
<1>4. CASE s >= 1 /\ s <= 16
  <2>1. s * Milli >= Milli /\ s * Milli <= 16 * Milli
    BY <1>1, <1>4
  <2>2. s * Milli \in Int /\ s * Milli = Milli * s
    BY <1>1
  <2>3. ~(s < 1) /\ ~(s > 16) /\ ~(s * Milli < Milli) /\ ~(s * Milli > 16 * Milli)
    BY <1>1, <1>4, <2>1, <2>2
  <2> QED
    BY <2>2, <2>3 DEF Clamp
<1> QED
  BY <1>2, <1>3, <1>4

\* Milliseconds, once clamped, are one to sixteen seconds.
LEMMA ClampRange ==
    ASSUME NEW x \in Int
    PROVE  Clamp(x, Milli, 16 * Milli) \in Milli..(16 * Milli)
BY WatchdogAssumption DEF Clamp

LEMMA WrappedInt ==
    ASSUME NEW x \in Int
    PROVE  Wrapped(x) \in Int
<1>1. IntMax \in Nat /\ 2 * (IntMax + 1) \in Nat \ {0} /\ x + IntMax + 1 \in Int
  BY WatchdogAssumption
<1>2. \A a \in Int, n \in Nat \ {0} : a % n \in Int
  OBVIOUS
<1> QED
  BY <1>1, <1>2 DEF Wrapped

\* Seconds from 1 to 16 are rounded, up by one at most, to some that have a code.
LEMMA RoundedHasCode ==
    ASSUME NEW t \in 1..16
    PROVE  /\ Rounded(t) \in {t, t + 1} /\ Rounded(t) \in 1..16
           /\ \E code \in 1..11 : Seconds[code] = Rounded(t)
<1>1. \A s \in {1, 2, 3, 4, 5, 6} : s \in 1..11 /\ Seconds[s] = s
  BY DEF Seconds
<1>2. /\ 7 \in 1..11 /\ Seconds[7] = 8 /\ 8 \in 1..11 /\ Seconds[8] = 10
      /\ 9 \in 1..11 /\ Seconds[9] = 12 /\ 10 \in 1..11 /\ Seconds[10] = 14
      /\ 11 \in 1..11 /\ Seconds[11] = 16
  BY DEF Seconds
<1>3. CASE \E code \in 1..11 : Seconds[code] = t
  BY <1>3 DEF Rounded
<1>4. CASE ~\E code \in 1..11 : Seconds[code] = t
  <2>1. t \in {7, 9, 11, 13, 15}
    BY <1>1, <1>2, <1>4
  <2>2. Rounded(t) = t + 1
    BY <1>4 DEF Rounded
  <2> QED
    BY <1>2, <2>1, <2>2
<1> QED
  BY <1>3, <1>4

\* The code of seconds that have one stands for them.
LEMMA CodeOf ==
    ASSUME NEW t, \E code \in 1..11 : Seconds[code] = t
    PROVE  Code(t) \in 1..11 /\ Seconds[Code(t)] = t
BY DEF Code

LEMMA WdtInitInv == WdtInit => WdtInv
<1>1. Milli \in Nat /\ Milli >= 1 /\ Milli \in Milli..(16 * Milli)
  BY WatchdogAssumption
<1>2. WdtInit => TimeoutKept /\ wdtMsecs \in Milli..(16 * Milli) /\ wdtAsked \in Int
  BY <1>1 DEF WdtInit, TimeoutKept, Clamp
<1>3. ASSUME WdtInit PROVE WdtTypeOK
  BY <1>2, <1>3 DEF WdtInit, WdtTypeOK, Idle, NoMode, Call
<1>4. ASSUME WdtInit PROVE StoppedAsCalled /\ IntervalAsAsked /\ CoversCalls
  BY <1>4 DEF WdtInit, StoppedAsCalled, IntervalAsAsked, CoversCalls, Idle, NoMode
<1> QED
  BY <1>2, <1>3, <1>4 DEF WdtInv

\* A timeout is set: the milliseconds change, and no start is disturbed.
LEMMA SetTimeoutStep ==
    ASSUME WdtInv, NEW c \in Callers, SetTimeout(c)
    PROVE  WdtInv'
<1>1. PICK s \in Args : /\ wdtMsecs' = Clamp(Wrapped(s * Milli), Milli, 16 * Milli)
                        /\ wdtAsked' = s
  BY DEF SetTimeout
<1>2. /\ s \in Int /\ s * Milli \in Int /\ Milli \in Nat \ {0} /\ IntMax \in Nat
  BY WatchdogAssumption
<1>3. wdtMsecs' \in Milli..(16 * Milli)
  BY <1>1, <1>2, WrappedInt, ClampRange
<1>4. TimeoutKept'
  <2>1. SUFFICES ASSUME s <= IntMax \div Milli, s >= -(IntMax \div Milli)
                 PROVE  wdtMsecs' = Milli * Clamp(s, 1, 16)
    BY <1>1 DEF TimeoutKept, Clamp
  <2>2. s * Milli <= IntMax /\ s * Milli >= -IntMax
    BY <1>2, <2>1, Fits
  <2>3. Wrapped(s * Milli) = s * Milli
    BY <1>2, <2>2, WrappedFits
  <2> QED
    BY <1>1, <1>2, <2>3, ClampedMilli
<1>5. UNCHANGED <<wdtMode, wdtLoaded, wdtCall, wdtOn, wdtStarts, wdtCut>>
  BY DEF SetTimeout
<1> QED
  BY <1>1, <1>2, <1>3, <1>4, <1>5
  DEF WdtInv, WdtTypeOK, StoppedAsCalled, IntervalAsAsked, CoversCalls, Covers, AtRest

\* A start begins: its own timeout is among those of the starts under way.
LEMMA StartReadStep ==
    ASSUME WdtInv, NEW c \in Callers, StartRead(c)
    PROVE  WdtInv'
<1>1. PICK t \in 1..16 : t = wdtMsecs \div Milli
  BY WatchdogAssumption, DivRange DEF WdtInv, WdtTypeOK
<1>2. /\ Rounded(t) \in {t, t + 1} /\ Rounded(t) \in 1..16
      /\ \E code \in 1..11 : Seconds[code] = Rounded(t)
  BY <1>1, RoundedHasCode
<1>3. Seconds[Code(Rounded(t))] = Rounded(t)
  BY <1>2, CodeOf
<1>4. /\ wdtCall[c] = Idle
      /\ wdtCall' = [wdtCall EXCEPT ![c] =
                        [at |-> "set", timeout |-> Rounded(t), read |-> wdtMode]]
      /\ wdtStarts' = {t} \cup IF AtRest THEN {} ELSE wdtStarts
      /\ wdtCut' = IF AtRest THEN 0 ELSE wdtCut
      /\ UNCHANGED <<wdtMsecs, wdtMode, wdtLoaded, wdtAsked, wdtOn>>
  BY <1>1 DEF StartRead
<1>5. wdtCall \in [Callers -> Call]
  BY DEF WdtInv, WdtTypeOK
<1>6. WdtTypeOK'
  <2>1. wdtCall' \in [Callers -> Call]
    BY <1>2, <1>4, <1>5 DEF WdtInv, WdtTypeOK, Call
  <2>2. \A d \in Callers : wdtCall'[d].at \in {"set", "ping"} =>
                              \E code \in 1..11 : Seconds[code] = wdtCall'[d].timeout
    BY <1>2, <1>4, <1>5 DEF WdtInv, WdtTypeOK
  <2> QED
    BY <1>1, <1>4, <2>1, <2>2 DEF WdtInv, WdtTypeOK
<1>7. ~AtRest'
  BY <1>4, <1>5 DEF AtRest, Idle
<1>8. Covers(Code(Rounded(t)))'
  BY <1>2, <1>3, <1>4 DEF Covers
<1>9. CoversCalls'
  <2>1. CASE AtRest
    <3>1. \A d \in Callers : wdtCall'[d].at \in {"idle", "set"} /\
                                (wdtCall'[d].at = "set" => wdtCall'[d].timeout = Rounded(t))
      BY <1>4, <1>5, <2>1 DEF AtRest, Idle
    <3> QED
      BY <1>8, <3>1 DEF CoversCalls
  <2>2. CASE ~AtRest
    <3>1. \A code : Covers(code) => Covers(code)'
      BY <1>4, <2>2 DEF Covers
    <3>2. \A d \in Callers : \/ d = c /\ wdtCall'[d].at = "set"
                                      /\ wdtCall'[d].timeout = Rounded(t)
                             \/ wdtCall'[d] = wdtCall[d]
      BY <1>4, <1>5
    <3>3. wdtCut' = wdtCut /\ wdtMode' = wdtMode
      BY <1>4, <2>2
    <3>4. (\A d \in Callers : wdtCall[d].at = "set" => Covers(Code(wdtCall[d].timeout)))'
      BY <1>8, <3>1, <3>2 DEF WdtInv, CoversCalls
    <3>5. (wdtCut = 0 => \A d \in Callers :
              /\ wdtCall[d].at \in {"ping", "reread", "enable"} => Covers(wdtMode.code)
              /\ wdtCall[d].at = "enable" => Covers(wdtCall[d].read.code))'
      BY <3>1, <3>2, <3>3 DEF WdtInv, CoversCalls
    <3> QED
      BY <3>4, <3>5 DEF CoversCalls
  <2> QED
    BY <2>1, <2>2
<1> QED
  BY <1>4, <1>6, <1>7, <1>9
  DEF WdtInv, StoppedAsCalled, IntervalAsAsked, TimeoutKept

\* The first store leaves the interval of this start in the mode register.
LEMMA StartSetStep ==
    ASSUME WdtInv, NEW c \in Callers, StartSet(c)
    PROVE  WdtInv'
<1>1. /\ wdtCall[c].at = "set"
      /\ wdtMode' = [on |-> wdtCall[c].read.on, code |-> Code(wdtCall[c].timeout)]
      /\ wdtCall' = [wdtCall EXCEPT ![c].at = "ping"]
      /\ UNCHANGED <<wdtMsecs, wdtLoaded, wdtAsked, wdtOn, wdtStarts, wdtCut>>
  BY DEF StartSet
<1>2. wdtCall \in [Callers -> Call]
  BY DEF WdtInv, WdtTypeOK
<1>3. Code(wdtCall[c].timeout) \in 1..11 /\ Covers(Code(wdtCall[c].timeout))
  BY <1>1, CodeOf DEF WdtInv, WdtTypeOK, CoversCalls
<1>4. /\ wdtCall' \in [Callers -> Call]
      /\ wdtCall'[c].at = "ping" /\ wdtCall'[c].timeout = wdtCall[c].timeout
      /\ \A d \in Callers : d # c => wdtCall'[d] = wdtCall[d]
  BY <1>1, <1>2 DEF Call
<1>5. WdtTypeOK'
  <2>1. wdtMode' \in [on : {0, 1}, code : 0..11]
    BY <1>1, <1>2, <1>3 DEF Call
  <2> QED
    BY <1>1, <1>4, <2>1 DEF WdtInv, WdtTypeOK
<1>6. ~AtRest'
  BY <1>4 DEF AtRest, Idle
<1>7. Covers(wdtMode.code)' /\ \A code : Covers(code) => Covers(code)'
  BY <1>1, <1>3 DEF Covers
<1>8. CoversCalls'
  BY <1>1, <1>4, <1>7 DEF WdtInv, CoversCalls
<1> QED
  BY <1>1, <1>5, <1>6, <1>8 DEF WdtInv, StoppedAsCalled, IntervalAsAsked, TimeoutKept

\* The keepalive and the second reading change no interval.
LEMMA StartPingStep ==
    ASSUME WdtInv, NEW c \in Callers, StartPing(c)
    PROVE  WdtInv'
<1>1. /\ wdtCall[c].at = "ping" /\ wdtLoaded' = wdtMode.code
      /\ wdtCall' = [wdtCall EXCEPT ![c].at = "reread"]
      /\ UNCHANGED <<wdtMsecs, wdtMode, wdtAsked, wdtOn, wdtStarts, wdtCut>>
  BY DEF StartPing
<1>2. wdtCall \in [Callers -> Call] /\ wdtMode \in [on : {0, 1}, code : 0..11]
  BY DEF WdtInv, WdtTypeOK
<1>3. /\ wdtCall' \in [Callers -> Call] /\ wdtCall'[c].at = "reread"
      /\ \A d \in Callers : d # c => wdtCall'[d] = wdtCall[d]
  BY <1>1, <1>2 DEF Call
<1>4. WdtTypeOK'
  BY <1>1, <1>2, <1>3 DEF WdtInv, WdtTypeOK
<1>5. ~AtRest'
  BY <1>3 DEF AtRest, Idle
<1>6. CoversCalls'
  BY <1>1, <1>3 DEF WdtInv, CoversCalls, Covers
<1> QED
  BY <1>1, <1>4, <1>5, <1>6 DEF WdtInv, StoppedAsCalled, IntervalAsAsked, TimeoutKept

\* What the second reading finds is an interval one of the starts was asked for.
LEMMA StartRereadStep ==
    ASSUME WdtInv, NEW c \in Callers, StartReread(c)
    PROVE  WdtInv'
<1>1. /\ wdtCall[c].at = "reread"
      /\ wdtCall' = [wdtCall EXCEPT ![c].at = "enable", ![c].read = wdtMode]
      /\ UNCHANGED <<wdtMsecs, wdtMode, wdtLoaded, wdtAsked, wdtOn, wdtStarts, wdtCut>>
  BY DEF StartReread
<1>2. wdtCall \in [Callers -> Call] /\ wdtMode \in [on : {0, 1}, code : 0..11]
  BY DEF WdtInv, WdtTypeOK
<1>3. /\ wdtCall' \in [Callers -> Call]
      /\ wdtCall'[c].at = "enable" /\ wdtCall'[c].read = wdtMode
      /\ \A d \in Callers : d # c => wdtCall'[d] = wdtCall[d]
  BY <1>1, <1>2 DEF Call
<1>4. WdtTypeOK'
  BY <1>1, <1>3 DEF WdtInv, WdtTypeOK
<1>5. ~AtRest'
  BY <1>3 DEF AtRest, Idle
<1>6. CoversCalls'
  BY <1>1, <1>3 DEF WdtInv, CoversCalls, Covers
<1> QED
  BY <1>1, <1>4, <1>5, <1>6 DEF WdtInv, StoppedAsCalled, IntervalAsAsked, TimeoutKept

\* The second store puts back the interval read, and the watchdog runs.
LEMMA StartEnableStep ==
    ASSUME WdtInv, NEW c \in Callers, StartEnable(c)
    PROVE  WdtInv'
<1>1. /\ wdtCall[c].at = "enable"
      /\ wdtMode' = [on |-> 1, code |-> wdtCall[c].read.code]
      /\ wdtOn' = 1 /\ wdtCall' = [wdtCall EXCEPT ![c] = Idle]
      /\ UNCHANGED <<wdtMsecs, wdtLoaded, wdtAsked, wdtStarts, wdtCut>>
  BY DEF StartEnable
<1>2. wdtCall \in [Callers -> Call]
  BY DEF WdtInv, WdtTypeOK
<1>3. /\ wdtCall' \in [Callers -> Call] /\ wdtCall'[c] = Idle /\ Idle.at = "idle"
      /\ \A d \in Callers : d # c => wdtCall'[d] = wdtCall[d]
  BY <1>1, <1>2 DEF Call, Idle, NoMode
<1>4. WdtTypeOK'
  <2>1. wdtMode' \in [on : {0, 1}, code : 0..11]
    BY <1>1, <1>2 DEF Call
  <2> QED
    BY <1>1, <1>3, <2>1 DEF WdtInv, WdtTypeOK
<1>5. StoppedAsCalled'
  BY <1>1 DEF StoppedAsCalled
<1>6. wdtCut' = 0 => Covers(wdtMode.code)'
  BY <1>1 DEF WdtInv, CoversCalls, Covers
<1>7. \A code : Covers(code) => Covers(code)'
  BY <1>1 DEF Covers
<1>8. CoversCalls'
  BY <1>1, <1>3, <1>6, <1>7 DEF WdtInv, CoversCalls
<1> QED
  BY <1>1, <1>4, <1>5, <1>6, <1>8 DEF WdtInv, IntervalAsAsked, TimeoutKept

\* A stop clears the mode register; inside a start, that is remembered.
LEMMA StopStep ==
    ASSUME WdtInv, NEW c \in Callers, Stop(c)
    PROVE  WdtInv'
<1>1. /\ wdtMode' = NoMode /\ wdtOn' = 0
      /\ wdtCut' = IF AtRest THEN wdtCut ELSE 1
      /\ UNCHANGED <<wdtMsecs, wdtLoaded, wdtCall, wdtAsked, wdtStarts>>
  BY DEF Stop
<1>2. WdtTypeOK'
  BY <1>1 DEF WdtInv, WdtTypeOK, NoMode
<1>3. StoppedAsCalled' /\ IntervalAsAsked' /\ TimeoutKept'
  BY <1>1 DEF WdtInv, StoppedAsCalled, IntervalAsAsked, TimeoutKept, NoMode
<1>4. CoversCalls'
  <2>1. CASE AtRest
    BY <1>1, <2>1 DEF CoversCalls, AtRest, Idle
  <2>2. CASE ~AtRest
    BY <1>1, <2>2 DEF WdtInv, CoversCalls, Covers
  <2> QED
    BY <2>1, <2>2
<1> QED
  BY <1>2, <1>3, <1>4 DEF WdtInv

LEMMA KeepAliveStep ==
    ASSUME WdtInv, NEW c \in Callers, KeepAlive(c)
    PROVE  WdtInv'
BY DEF KeepAlive, WdtInv, WdtTypeOK, StoppedAsCalled, IntervalAsAsked, TimeoutKept,
       CoversCalls, Covers, AtRest

LEMMA WdtNextInv == WdtInv /\ [WdtNext]_wdtVars => WdtInv'
<1> SUFFICES ASSUME WdtInv, [WdtNext]_wdtVars PROVE WdtInv'
  OBVIOUS
<1>1. ASSUME NEW c \in Callers,
             \/ SetTimeout(c) \/ Stop(c) \/ KeepAlive(c) \/ StartRead(c) \/ StartSet(c)
             \/ StartPing(c) \/ StartReread(c) \/ StartEnable(c)
      PROVE  WdtInv'
  BY <1>1, SetTimeoutStep, StopStep, KeepAliveStep, StartReadStep, StartSetStep,
     StartPingStep, StartRereadStep, StartEnableStep
<1>2. CASE UNCHANGED wdtVars
  BY <1>2 DEF wdtVars, WdtInv, WdtTypeOK, StoppedAsCalled, IntervalAsAsked, TimeoutKept,
              CoversCalls, Covers, AtRest
<1> QED
  BY <1>1, <1>2 DEF WdtNext

LEMMA WdtInvariance == WdtSpec => []WdtInv
BY WdtInitInv, WdtNextInv, PTL DEF WdtSpec

\* Types: the milliseconds stay between 1 and 16 s, and every timeout that
\* sunxi_wdt_set_timeout looks up has a code in wdt_timeout_map.
THEOREM WdtTypeCorrect == WdtSpec => []WdtTypeOK
<1>1. WdtInv => WdtTypeOK
  BY DEF WdtInv
<1> QED
  BY WdtInvariance, <1>1, PTL

\* For every number of threads in _wdt_control: at rest the watchdog runs
\* exactly if the call that returned last was a start, on an interval one of the
\* starts was asked for unless a stop fell inside one, and the timeout kept is
\* the one asked for, clamped, as long as its milliseconds fit in an int.
THEOREM WatchdogSafe == WdtSpec => []RunsAsCalled
<1>1. WdtInv => RunsAsCalled
  BY DEF WdtInv, RunsAsCalled
<1> QED
  BY WdtInvariance, <1>1, PTL

-----------------------------------------------------------------------------
(* Setting the real-time clock *)

\* What may still be on its way while the next call waits or reads: at most
\* one store, and after the wait only the call's own.
Outstanding ==
    /\ \A s \in rtcStore : s.reg = "HMS" => s.value \in Time
    /\ \A s, t \in rtcStore : s = t
    /\ \A s \in rtcStore :
          /\ rtcPc = "hms" => s = [reg |-> "HMS", value |-> rtcArg.time]
          /\ rtcPc = "ymd" => s = [reg |-> "YMD", value |-> rtcArg.day]
    /\ rtcPc = "set" => rtcStore = {}

Now == Ticks(rtcDay, rtcTime)

\* What rtcTrue stands for on the way: before the first store the registers,
\* then the day that was asked with the time the clock shows.
TrueOnTheWay ==
    /\ rtcPc \in {"acc", "refused"} => rtcTrue = Now
    /\ rtcMidnight = 0 =>
          /\ rtcPc = "hms" /\ rtcStore = {} => rtcTrue = Ticks(rtcArg.day, rtcTime)
          /\ rtcPc = "ymd" => rtcTrue = IF rtcStore = {} THEN Now ELSE Ticks(rtcArg.day, rtcTime)
          /\ rtcPc = "set" => rtcTrue = Now

-----------------------------------------------------------------------------
(* Reading it *)

Shown == {shown.time : shown \in rtcShown}
All(reg) == \A s \in rtcStore : s.reg = reg

\* The times from t up to the one that is shown, through midnight if need be.
Since(t) == IF t <= rtcTime THEN t..rtcTime ELSE (t..(DayLength - 1)) \cup (0..rtcTime)

\* Only the date may still be stored, and the clock ran through all times since
\* that of the reading.
RunOn == All("YMD") /\ Since(rtcArg.time) \subseteq Shown

ReadSoFar ==
    /\ InReading => Pair(rtcDay, rtcTime) \in rtcShown
    /\ rtcPc = "time" => All("YMD") \/ (All("HMS") /\ rtcDay >= rtcArg.day)
    /\ rtcPc = "date2" /\ LessThanADay =>
          rtcArg \in rtcShown \/ (All("HMS") /\ rtcDay > rtcArg.day) \/ RunOn
    /\ rtcPc = "time2" /\ LessThanADay =>
          rtcArg \in rtcShown \/ (RunOn /\ rtcTime # rtcArg.time)

RtcInv == RtcTypeOK /\ Outstanding /\ TrueOnTheWay /\ ReadSoFar /\ ReadAtOnce

-----------------------------------------------------------------------------
(* Ticks *)

LEMMA TicksNat ==
    ASSUME NEW day \in Nat, NEW time \in Time
    PROVE  Ticks(day, time) \in Nat
<1>1. DayLength \in Nat /\ time \in Nat
  BY RtcAssumption DEF Time
<1>2. day * DayLength \in Nat
  BY <1>1
<1>. QED
  BY <1>1, <1>2 DEF Ticks

\* A tick is a tick, within a day and at its end.
LEMMA NextTick ==
    ASSUME NEW day \in Nat, NEW time \in Time
    PROVE  /\ Ticks(day, time + 1) = Ticks(day, time) + 1
           /\ time = DayLength - 1 => Ticks(day + 1, 0) = Ticks(day, time) + 1
<1>1. DayLength \in Nat /\ time \in Nat
  BY RtcAssumption DEF Time
<1>2. day * DayLength \in Nat /\ (day + 1) * DayLength = day * DayLength + DayLength
  BY <1>1
<1>. QED
  BY <1>1, <1>2 DEF Ticks

\* What the registers become at a tick.
LEMMA TickShows ==
    ASSUME RtcTypeOK, Tick
    PROVE  /\ rtcDay' \in Nat /\ rtcTime' \in Time /\ rtcDay' >= rtcDay
           /\ Now' = Now + 1
           /\ rtcTime' = IF rtcTime < DayLength - 1 THEN rtcTime + 1 ELSE 0
           /\ rtcTime < DayLength - 1 => rtcDay' = rtcDay
           /\ Show(rtcDay', rtcTime')
<1>1. rtcDay \in Nat /\ rtcTime \in Time /\ rtcTime \in Nat /\ DayLength \in Nat \ {0}
  BY RtcAssumption DEF RtcTypeOK, Time
<1>2. CASE rtcTime < DayLength - 1
  <2>1. rtcDay' = rtcDay /\ rtcTime' = rtcTime + 1 /\ Show(rtcDay', rtcTime')
    BY <1>2 DEF Tick, Show
  <2>2. rtcTime' \in Time
    BY <2>1, <1>1, <1>2 DEF Time
  <2>. QED
    BY <2>1, <2>2, <1>1, <1>2, NextTick DEF Now
<1>3. CASE ~(rtcTime < DayLength - 1)
  <2>1. rtcDay' = rtcDay + 1 /\ rtcTime' = 0 /\ Show(rtcDay', rtcTime')
    BY <1>3 DEF Tick, Show
  <2>2. rtcTime = DayLength - 1 /\ 0 \in Time
    BY <1>1, <1>3 DEF Time
  <2>. QED
    BY <2>1, <2>2, <1>1, <1>3, NextTick DEF Now
<1>. QED
  BY <1>2, <1>3

\* Who reads sees what the registers become.
LEMMA Watched ==
    ASSUME NEW day, NEW time, Show(day, time)
    PROVE  /\ rtcDay' = day /\ rtcTime' = time
           /\ rtcShown \subseteq rtcShown'
           /\ InReading => Pair(day, time) \in rtcShown'
           /\ rtcShown' \subseteq rtcShown \cup {Pair(day, time)}
           /\ ~InReading => rtcShown' = rtcShown
  BY DEF Show

LEMMA ShownGrows ==
    ASSUME rtcShown \subseteq rtcShown'
    PROVE  Shown \subseteq Shown' /\ (LessThanADay' => LessThanADay)
  BY DEF Shown, LessThanADay

\* While the clock runs on from the time of a reading it shows that time again
\* only after every other.
LEMMA RunsOn ==
    ASSUME RtcTypeOK, Tick, InReading, rtcArg' = rtcArg, RunOn, LessThanADay'
    PROVE  RunOn' /\ rtcTime' # rtcArg.time
<1>1. /\ rtcTime \in Time /\ rtcArg.time \in Time /\ DayLength \in Nat \ {0}
      /\ rtcTime' \in Time
      /\ rtcTime' = IF rtcTime < DayLength - 1 THEN rtcTime + 1 ELSE 0
      /\ Show(rtcDay', rtcTime')
  BY TickShows, RtcAssumption DEF RtcTypeOK
<1>2. rtcShown \subseteq rtcShown' /\ Pair(rtcDay', rtcTime') \in rtcShown'
  BY <1>1, Watched
<1>3. Shown \subseteq Shown' /\ rtcTime' \in Shown'
  <2>1. Pair(rtcDay', rtcTime').time = rtcTime'
    BY DEF Pair
  <2>. QED
    BY <1>2, <2>1, ShownGrows DEF Shown
<1>4. All("YMD")'
  BY DEF RunOn, All, Tick
<1>5. Since(rtcArg.time) \cup {rtcTime'} \subseteq Shown'
  BY <1>3 DEF RunOn
<1>6. ASSUME rtcTime' = rtcArg.time PROVE FALSE
  <2>1. Since(rtcArg.time) = Time
    <3>1. CASE rtcTime < DayLength - 1
      <4>1. rtcArg.time = rtcTime + 1
        BY <1>1, <1>6, <3>1
      <4>2. Since(rtcArg.time) = (rtcTime + 1 .. DayLength - 1) \cup (0..rtcTime)
        BY <1>1, <4>1 DEF Since, Time
      <4>. QED
        BY <1>1, <3>1, <4>2 DEF Time
    <3>2. CASE ~(rtcTime < DayLength - 1)
      <4>1. rtcArg.time = 0 /\ rtcTime = DayLength - 1
        BY <1>1, <1>6, <3>2 DEF Time
      <4>2. Since(rtcArg.time) = 0..rtcTime
        BY <1>1, <4>1 DEF Since, Time
      <4>. QED
        BY <4>1, <4>2 DEF Time
    <3>. QED
      BY <3>1, <3>2
  <2>2. Time \subseteq Shown'
    BY <1>5, <2>1
  <2>. QED
    BY <2>2 DEF LessThanADay, Shown
<1>7. Since(rtcArg.time)' \subseteq Since(rtcArg.time) \cup {rtcTime'}
  BY <1>1, <1>6 DEF Since, Time
<1>. QED
  BY <1>4, <1>5, <1>6, <1>7 DEF RunOn

-----------------------------------------------------------------------------
(* One step at a time *)

LEMMA RtcInitInv == RtcInit => RtcInv
<1>. SUFFICES ASSUME RtcInit PROVE RtcInv
  OBVIOUS
<1>1. 0 \in Time /\ Time \subseteq Nat
  BY RtcAssumption DEF Time
<1>2. RtcTypeOK
  BY <1>1 DEF RtcInit, RtcTypeOK, Pair
<1>. QED
  BY <1>2 DEF RtcInit, RtcInv, Outstanding, TrueOnTheWay, ReadSoFar, ReadAtOnce, InReading

LEMMA TickStep == RtcInv /\ Tick => RtcInv'
<1>. SUFFICES ASSUME RtcInv, Tick PROVE RtcInv'
  OBVIOUS
<1>1. RtcTypeOK /\ Outstanding /\ TrueOnTheWay /\ ReadSoFar /\ ReadAtOnce
  BY DEF RtcInv
<1>2. /\ rtcDay' \in Nat /\ rtcTime' \in Time /\ rtcDay' >= rtcDay
      /\ Now' = Now + 1
      /\ rtcTime' = IF rtcTime < DayLength - 1 THEN rtcTime + 1 ELSE 0
      /\ rtcTime < DayLength - 1 => rtcDay' = rtcDay
      /\ Show(rtcDay', rtcTime')
  BY <1>1, TickShows
<1>3. /\ rtcTrue' = rtcTrue + 1
      /\ rtcMidnight' = IF rtcTime = DayLength - 1 /\ (rtcPc = "hms" \/ rtcStore # {})
                        THEN 1 ELSE rtcMidnight
      /\ UNCHANGED <<rtcStore, rtcPc, rtcArg, rtcCalls>>
  BY DEF Tick
<1>4. /\ rtcShown \subseteq rtcShown'
      /\ InReading => Pair(rtcDay', rtcTime') \in rtcShown'
      /\ rtcShown' \subseteq rtcShown \cup {Pair(rtcDay', rtcTime')}
      /\ ~InReading => rtcShown' = rtcShown
  BY <1>2, Watched
<1>5. RtcTypeOK'
  BY <1>1, <1>2, <1>3, <1>4 DEF RtcTypeOK, Pair
<1>6. Outstanding'
  BY <1>1, <1>3 DEF Outstanding
<1>7. TrueOnTheWay'
  <2>1. rtcMidnight' = 0 /\ (rtcPc = "hms" \/ rtcStore # {})
           => rtcMidnight = 0 /\ Ticks(rtcArg.day, rtcTime') = Ticks(rtcArg.day, rtcTime) + 1
    <3>. SUFFICES ASSUME rtcMidnight' = 0, rtcPc = "hms" \/ rtcStore # {}
                  PROVE  rtcMidnight = 0 /\ Ticks(rtcArg.day, rtcTime')
                                               = Ticks(rtcArg.day, rtcTime) + 1
      OBVIOUS
    <3>1. rtcMidnight = 0 /\ rtcTime # DayLength - 1
      BY <1>3
    <3>2. rtcTime' = rtcTime + 1
      BY <1>1, <1>2, <3>1, RtcAssumption DEF RtcTypeOK, Time
    <3>3. rtcArg.day \in Nat /\ rtcTime \in Time
      BY <1>1 DEF RtcTypeOK
    <3>. QED
      BY <3>1, <3>2, <3>3, NextTick
  <2>2. rtcMidnight' = 0 => rtcMidnight = 0
    BY <1>3
  <2>. QED
    BY <1>1, <1>2, <1>3, <2>1, <2>2 DEF TrueOnTheWay
<1>8. ReadSoFar'
  <2>1. InReading' <=> InReading
    BY <1>3 DEF InReading
  <2>2. All("YMD")' = All("YMD") /\ All("HMS")' = All("HMS")
    BY <1>3 DEF All
  <2>3. LessThanADay' => LessThanADay
    BY <1>4, ShownGrows
  <2>4. InReading /\ LessThanADay' /\ RunOn => RunOn' /\ rtcTime' # rtcArg.time
    BY <1>1, <1>3, RunsOn
  <2>5. rtcDay \in Nat /\ rtcArg.day \in Nat
    BY <1>1 DEF RtcTypeOK
  <2>6. rtcDay >= rtcArg.day => rtcDay' >= rtcArg.day
    BY <1>2, <2>5
  <2>7. rtcDay > rtcArg.day => rtcDay' > rtcArg.day
    BY <1>2, <2>5
  <2>8. ASSUME rtcPc = "date2", LessThanADay'
        PROVE  rtcArg \in rtcShown' \/ (All("HMS")' /\ rtcDay' > rtcArg.day) \/ RunOn'
    BY <1>1, <1>4, <2>2, <2>3, <2>4, <2>7, <2>8 DEF ReadSoFar, InReading
  <2>9. ASSUME rtcPc = "time2", LessThanADay'
        PROVE  rtcArg \in rtcShown' \/ (RunOn' /\ rtcTime' # rtcArg.time)
    BY <1>1, <1>4, <2>3, <2>4, <2>9 DEF ReadSoFar, InReading
  <2>. QED
    BY <1>1, <1>3, <1>4, <2>1, <2>2, <2>6, <2>8, <2>9 DEF ReadSoFar
<1>9. ReadAtOnce'
  <2>1. rtcPc = "got" => ~InReading
    BY DEF InReading
  <2>. QED
    BY <1>1, <1>3, <1>4, <2>1 DEF ReadAtOnce, LessThanADay
<1>. QED
  BY <1>5, <1>6, <1>7, <1>8, <1>9 DEF RtcInv

\* Who reads while a store takes effect.
LEMMA StoreTimeStep == RtcInv /\ StoreTime => RtcInv'
<1>. SUFFICES ASSUME RtcInv, StoreTime PROVE RtcInv'
  OBVIOUS
<1>1. RtcTypeOK /\ Outstanding /\ TrueOnTheWay /\ ReadSoFar /\ ReadAtOnce
  BY DEF RtcInv
<1>2. PICK s \in rtcStore : /\ s.reg = "HMS"
                            /\ Show(rtcDay, s.value)
                            /\ rtcStore' = rtcStore \ {s}
  BY DEF StoreTime
<1>3. /\ rtcTrue' = Ticks(IF rtcPc = "hms" THEN rtcArg.day ELSE rtcDay, rtcTime')
      /\ rtcMidnight' = 0
      /\ UNCHANGED <<rtcPc, rtcArg, rtcCalls>>
  BY DEF StoreTime
<1>4. s.value \in Time /\ rtcStore' = {} /\ rtcDay \in Nat /\ rtcArg.day \in Nat
  BY <1>1, <1>2 DEF Outstanding, RtcTypeOK
<1>5. /\ rtcDay' = rtcDay /\ rtcTime' = s.value
      /\ rtcShown \subseteq rtcShown'
      /\ InReading => Pair(rtcDay', rtcTime') \in rtcShown'
      /\ rtcShown' \subseteq rtcShown \cup {Pair(rtcDay', rtcTime')}
      /\ ~InReading => rtcShown' = rtcShown
  BY <1>2, Watched
<1>6. RtcTypeOK'
  <2>1. rtcTrue' \in Nat
    BY <1>3, <1>4, <1>5, TicksNat
  <2>. QED
    BY <1>1, <1>2, <1>3, <1>4, <1>5, <2>1 DEF RtcTypeOK, Pair
<1>7. Outstanding'
  BY <1>4 DEF Outstanding
<1>8. TrueOnTheWay'
  <2>1. rtcPc # "ymd" /\ rtcPc # "set"
    BY <1>1, <1>2 DEF Outstanding
  <2>. QED
    BY <1>3, <1>4, <1>5, <2>1 DEF TrueOnTheWay, Now
<1>9. ReadSoFar'
  <2>1. (InReading' <=> InReading) /\ All("YMD")' /\ All("HMS")'
    BY <1>3, <1>4 DEF InReading, All
  <2>2. LessThanADay' => LessThanADay
    BY <1>5, ShownGrows
  <2>3. ~RunOn
    BY <1>2 DEF RunOn, All
  <2>. QED
    BY <1>1, <1>3, <1>5, <2>1, <2>2, <2>3 DEF ReadSoFar
<1>10. ReadAtOnce'
  BY <1>1, <1>3, <1>5 DEF ReadAtOnce, LessThanADay, InReading
<1>. QED
  BY <1>6, <1>7, <1>8, <1>9, <1>10 DEF RtcInv

LEMMA StoreDateStep == RtcInv /\ StoreDate => RtcInv'
<1>. SUFFICES ASSUME RtcInv, StoreDate PROVE RtcInv'
  OBVIOUS
<1>1. RtcTypeOK /\ Outstanding /\ TrueOnTheWay /\ ReadSoFar /\ ReadAtOnce
  BY DEF RtcInv
<1>2. PICK s \in rtcStore : /\ s.reg = "YMD"
                            /\ Show(s.value, rtcTime)
                            /\ rtcStore' = rtcStore \ {s}
  BY DEF StoreDate
<1>3. /\ rtcTrue' = IF rtcPc = "ymd" THEN rtcTrue ELSE Ticks(rtcDay', rtcTime)
      /\ UNCHANGED <<rtcPc, rtcArg, rtcCalls, rtcMidnight>>
  BY DEF StoreDate
<1>4. s.value \in Nat /\ rtcStore' = {} /\ rtcTime \in Time
  BY <1>1, <1>2 DEF Outstanding, RtcTypeOK
<1>5. /\ rtcDay' = s.value /\ rtcTime' = rtcTime
      /\ rtcShown \subseteq rtcShown'
      /\ InReading => Pair(rtcDay', rtcTime') \in rtcShown'
      /\ rtcShown' \subseteq rtcShown \cup {Pair(rtcDay', rtcTime')}
      /\ ~InReading => rtcShown' = rtcShown
  BY <1>2, Watched
<1>6. RtcTypeOK'
  <2>1. rtcTrue' \in Nat
    BY <1>1, <1>3, <1>4, <1>5, TicksNat DEF RtcTypeOK
  <2>. QED
    BY <1>1, <1>2, <1>3, <1>4, <1>5, <2>1 DEF RtcTypeOK, Pair
<1>7. Outstanding'
  BY <1>4 DEF Outstanding
<1>8. TrueOnTheWay'
  <2>1. rtcPc # "hms" /\ rtcPc # "set"
    BY <1>1, <1>2 DEF Outstanding
  <2>2. rtcPc = "ymd" => s.value = rtcArg.day
    BY <1>1, <1>2 DEF Outstanding
  <2>3. rtcPc = "ymd" /\ rtcMidnight = 0 => rtcTrue = Ticks(rtcArg.day, rtcTime)
    BY <1>1, <1>2 DEF TrueOnTheWay
  <2>. QED
    BY <1>3, <1>4, <1>5, <2>1, <2>2, <2>3 DEF TrueOnTheWay, Now
<1>9. ReadSoFar'
  <2>1. (InReading' <=> InReading) /\ All("YMD")'
    BY <1>3, <1>4 DEF InReading, All
  <2>2. Shown \subseteq Shown' /\ (LessThanADay' => LessThanADay)
    BY <1>5, ShownGrows
  <2>3. RunOn => RunOn'
    BY <1>3, <1>5, <2>1, <2>2 DEF RunOn, Since
  <2>4. ~All("HMS")
    BY <1>2 DEF All
  <2>. QED
    BY <1>1, <1>3, <1>5, <2>1, <2>2, <2>3, <2>4 DEF ReadSoFar
<1>10. ReadAtOnce'
  BY <1>1, <1>3, <1>5 DEF ReadAtOnce, LessThanADay, InReading
<1>. QED
  BY <1>6, <1>7, <1>8, <1>9, <1>10 DEF RtcInv

\* A call of sun6i_rtc_settime: nothing it stores is waited for by another.
LEMMA RtcSetStep == RtcInv /\ RtcSet => RtcInv'
<1>. SUFFICES ASSUME RtcInv, RtcSet PROVE RtcInv'
  OBVIOUS
<1>1. RtcTypeOK /\ Outstanding /\ TrueOnTheWay
  BY DEF RtcInv
<1>2. rtcDay' = rtcDay /\ rtcTime' = rtcTime /\ rtcShown' = rtcShown /\ rtcMidnight' = rtcMidnight
  BY DEF RtcSet, SetBegin, SetTime, SetDate, SetDone, WaitTimeout, Go, Clock
<1>3. rtcPc' \in {"refused", "acc", "hms", "ymd", "set", "failed"}
  BY DEF RtcSet, SetBegin, SetTime, SetDate, SetDone, WaitTimeout, Go
<1>4. ReadSoFar' /\ ReadAtOnce'
  BY <1>3 DEF ReadSoFar, ReadAtOnce, InReading
<1>5. CASE SetBegin
  <2>1. PICK day \in 0..(LastDay + 1), time \in Time : rtcArg' = Pair(day, time)
    BY <1>5 DEF SetBegin
  <2>2. day \in Nat
    BY RtcAssumption
  <2>3. rtcPc' \in {"refused", "acc"} /\ rtcTrue' = Now /\ rtcStore' = rtcStore
        /\ rtcCalls' = rtcCalls + 1
    BY <1>5 DEF SetBegin, Now
  <2>4. RtcTypeOK'
    BY <1>1, <1>2, <2>1, <2>2, <2>3, TicksNat DEF RtcTypeOK, Pair, Now
  <2>5. Outstanding' /\ TrueOnTheWay'
    BY <1>1, <1>2, <2>3 DEF Outstanding, TrueOnTheWay, Now
  <2>. QED
    BY <1>4, <2>4, <2>5 DEF RtcInv
<1>6. CASE SetTime
  <2>1. rtcStore' = {[reg |-> "HMS", value |-> rtcArg.time]} /\ rtcPc' = "hms"
        /\ UNCHANGED <<rtcArg, rtcCalls, rtcTrue>>
    BY <1>6 DEF SetTime, Go
  <2>2. rtcArg.time \in Time /\ rtcArg.time \in Nat
    BY <1>1, RtcAssumption DEF RtcTypeOK, Time
  <2>3. RtcTypeOK'
    BY <1>1, <1>2, <2>1, <2>2 DEF RtcTypeOK
  <2>4. Outstanding'
    BY <2>1, <2>2 DEF Outstanding
  <2>5. TrueOnTheWay'
    BY <2>1 DEF TrueOnTheWay
  <2>. QED
    BY <1>4, <2>3, <2>4, <2>5 DEF RtcInv
<1>7. CASE SetDate
  <2>1. /\ rtcPc = "hms" /\ \A s \in rtcStore : s.reg # "HMS"
        /\ rtcStore' = {[reg |-> "YMD", value |-> rtcArg.day]} /\ rtcPc' = "ymd"
        /\ UNCHANGED <<rtcArg, rtcCalls, rtcTrue>>
    BY <1>7 DEF SetDate, Go
  <2>2. rtcStore = {}
    BY <1>1, <2>1 DEF Outstanding
  <2>3. rtcArg.day \in Nat
    BY <1>1 DEF RtcTypeOK
  <2>4. RtcTypeOK'
    BY <1>1, <1>2, <2>1, <2>3 DEF RtcTypeOK
  <2>5. Outstanding'
    BY <2>1 DEF Outstanding
  <2>6. TrueOnTheWay'
    BY <1>1, <1>2, <2>1, <2>2 DEF TrueOnTheWay
  <2>. QED
    BY <1>4, <2>4, <2>5, <2>6 DEF RtcInv
<1>8. CASE SetDone
  <2>1. /\ rtcPc = "ymd" /\ \A s \in rtcStore : s.reg # "YMD" /\ rtcPc' = "set"
        /\ UNCHANGED <<rtcStore, rtcArg, rtcCalls, rtcTrue>>
    BY <1>8 DEF SetDone, Go, Clock
  <2>2. rtcStore = {}
    BY <1>1, <2>1 DEF Outstanding
  <2>3. RtcTypeOK'
    BY <1>1, <1>2, <1>8, <2>1 DEF RtcTypeOK
  <2>4. Outstanding' /\ TrueOnTheWay'
    BY <1>1, <1>2, <1>8, <2>1, <2>2 DEF Outstanding, TrueOnTheWay, Now, SetDone, Go
  <2>. QED
    BY <1>4, <2>3, <2>4 DEF RtcInv
<1>9. CASE WaitTimeout
  <2>1. /\ rtcPc' = "failed" \/ (rtcPc = "acc" /\ rtcPc' = "refused")
        /\ UNCHANGED <<rtcStore, rtcArg, rtcCalls, rtcTrue>>
    BY <1>9 DEF WaitTimeout, Go, Clock
  <2>2. RtcTypeOK'
    BY <1>1, <1>2, <2>1 DEF RtcTypeOK
  <2>3. Outstanding' /\ TrueOnTheWay'
    BY <1>1, <1>2, <2>1 DEF Outstanding, TrueOnTheWay, Now
  <2>. QED
    BY <1>4, <2>2, <2>3 DEF RtcInv
<1>. QED
  BY <1>5, <1>6, <1>7, <1>8, <1>9 DEF RtcSet

\* A call of sun6i_rtc_gettime.
LEMMA RtcGetStep == RtcInv /\ RtcGet => RtcInv'
<1>. SUFFICES ASSUME RtcInv, RtcGet PROVE RtcInv'
  OBVIOUS
<1>1. RtcTypeOK /\ Outstanding /\ ReadSoFar
  BY DEF RtcInv
<1>2. UNCHANGED <<rtcDay, rtcTime, rtcStore, rtcTrue, rtcMidnight>>
  BY DEF RtcGet, GetDate, GetTime, GetDateAgain, GetTimeAgain, GetLoop, Again, Clock
<1>3. rtcPc' \in {"time", "date2", "time2", "got", "date"}
  BY DEF RtcGet, GetDate, GetTime, GetDateAgain, GetTimeAgain, GetLoop, Again, Go
<1>4. Outstanding' /\ TrueOnTheWay'
  BY <1>1, <1>2, <1>3 DEF Outstanding, TrueOnTheWay
<1>5. rtcDay \in Nat /\ rtcTime \in Time /\ 0 \in Time
  BY <1>1, RtcAssumption DEF RtcTypeOK, Time
<1>6. CASE GetDate \/ GetLoop
  <2>1. /\ rtcPc' = "time" /\ rtcArg' = Pair(rtcDay, 0) /\ rtcShown' = {Pair(rtcDay, rtcTime)}
        /\ rtcCalls' \in {rtcCalls, rtcCalls + 1}
    BY <1>6 DEF GetDate, GetLoop, Go
  <2>2. RtcTypeOK'
    BY <1>1, <1>2, <1>5, <2>1 DEF RtcTypeOK, Pair
  <2>3. All("YMD") \/ All("HMS")
    BY <1>1 DEF RtcTypeOK, Outstanding, All
  <2>4. ReadSoFar' /\ ReadAtOnce'
    <3>1. Pair(rtcDay, rtcTime)' \in rtcShown'
      BY <1>2, <2>1
    <3>2. rtcDay' >= rtcArg'.day
      BY <1>2, <1>5, <2>1 DEF Pair
    <3>3. All("YMD")' \/ All("HMS")'
      BY <1>2, <2>3 DEF All
    <3>. QED
      BY <2>1, <3>1, <3>2, <3>3 DEF ReadSoFar, ReadAtOnce
  <2>. QED
    BY <1>4, <2>2, <2>4 DEF RtcInv
<1>7. CASE GetTime
  <2>1. /\ rtcPc = "time" /\ rtcPc' = "date2" /\ rtcArg' = [rtcArg EXCEPT !.time = rtcTime]
        /\ rtcShown' = rtcShown /\ rtcCalls' = rtcCalls
    BY <1>7 DEF GetTime, Go, Clock
  <2>2. RtcTypeOK'
    BY <1>1, <1>2, <1>5, <2>1 DEF RtcTypeOK
  <2>3. rtcArg' = Pair(rtcArg.day, rtcTime) /\ rtcArg.day \in Nat
    BY <1>1, <2>1 DEF RtcTypeOK, Pair
  <2>4. Pair(rtcDay, rtcTime) \in rtcShown /\ rtcTime \in Shown
    <3>1. Pair(rtcDay, rtcTime) \in rtcShown
      BY <1>1, <2>1 DEF ReadSoFar, InReading
    <3>2. Pair(rtcDay, rtcTime).time = rtcTime
      BY DEF Pair
    <3>. QED
      BY <3>1, <3>2 DEF Shown
  <2>5. Pair(rtcDay, rtcTime)' \in rtcShown' /\ ReadAtOnce'
    BY <1>2, <2>1, <2>4 DEF ReadAtOnce
  <2>6. CASE All("YMD")
    <3>1. Since(rtcArg.time)' = {rtcTime}
      BY <1>2, <1>5, <2>3, RtcAssumption DEF Since, Pair, Time
    <3>2. Shown' = Shown /\ All("YMD")'
      BY <1>2, <2>1, <2>6 DEF Shown, All
    <3>3. RunOn'
      BY <2>4, <3>1, <3>2 DEF RunOn
    <3>. QED
      BY <1>4, <2>1, <2>2, <2>5, <3>3 DEF RtcInv, ReadSoFar
  <2>7. CASE All("HMS") /\ rtcDay >= rtcArg.day
    <3>1. rtcArg' \in rtcShown' \/ rtcDay' > rtcArg'.day
      <4>1. rtcArg'.day = rtcArg.day
        BY <2>3 DEF Pair
      <4>2. rtcDay = rtcArg.day \/ rtcDay > rtcArg.day
        BY <1>5, <2>3, <2>7
      <4>3. rtcDay = rtcArg.day => rtcArg' \in rtcShown'
        BY <2>1, <2>3, <2>4
      <4>. QED
        BY <1>2, <4>1, <4>2, <4>3
    <3>2. All("HMS")'
      BY <1>2, <2>7 DEF All
    <3>. QED
      BY <1>4, <2>1, <2>2, <2>5, <3>1, <3>2 DEF RtcInv, ReadSoFar
  <2>. QED
    BY <1>1, <2>1, <2>6, <2>7 DEF ReadSoFar
<1>8. CASE GetDateAgain
  <2>1. /\ rtcPc = "date2" /\ rtcPc' = IF rtcArg.day = rtcDay THEN "time2" ELSE "date"
        /\ rtcArg' = rtcArg /\ rtcShown' = rtcShown /\ rtcCalls' = rtcCalls
    BY <1>8 DEF GetDateAgain, Again, DateStable, Clock
  <2>2. RtcTypeOK'
    BY <1>1, <1>2, <2>1 DEF RtcTypeOK
  <2>3. Pair(rtcDay, rtcTime) \in rtcShown
    BY <1>1, <2>1 DEF ReadSoFar, InReading
  <2>4. ASSUME rtcArg.day = rtcDay, LessThanADay
        PROVE  rtcArg \in rtcShown \/ (RunOn /\ rtcTime # rtcArg.time)
    <3>1. rtcArg \in rtcShown \/ RunOn
      BY <1>1, <1>5, <2>1, <2>4 DEF ReadSoFar
    <3>2. rtcTime = rtcArg.time => rtcArg = Pair(rtcDay, rtcTime)
      BY <1>1, <2>4 DEF RtcTypeOK, Pair
    <3>. QED
      BY <2>3, <3>1, <3>2
  <2>5. RunOn' = RunOn /\ LessThanADay' = LessThanADay
    BY <1>2, <2>1 DEF RunOn, LessThanADay, Since, Shown, All
  <2>. QED
    BY <1>2, <1>4, <2>1, <2>2, <2>3, <2>4, <2>5 DEF RtcInv, ReadSoFar, ReadAtOnce, InReading
<1>9. CASE GetTimeAgain
  <2>1. /\ rtcPc = "time2" /\ rtcPc' = IF rtcArg.time = rtcTime THEN "got" ELSE "date"
        /\ rtcArg' = rtcArg /\ rtcShown' = rtcShown /\ rtcCalls' = rtcCalls
    BY <1>9 DEF GetTimeAgain, Again, Clock
  <2>2. RtcTypeOK'
    BY <1>1, <1>2, <2>1 DEF RtcTypeOK
  <2>3. rtcArg.time = rtcTime /\ LessThanADay => rtcArg \in rtcShown
    BY <1>1, <2>1 DEF ReadSoFar
  <2>4. LessThanADay' = LessThanADay
    BY <2>1 DEF LessThanADay
  <2>. QED
    BY <1>2, <1>4, <2>1, <2>2, <2>3, <2>4 DEF RtcInv, ReadSoFar, ReadAtOnce, InReading
<1>. QED
  BY <1>6, <1>7, <1>8, <1>9 DEF RtcGet

LEMMA RtcReleaseStep == RtcInv /\ Release => RtcInv'
<1>. SUFFICES ASSUME RtcInv, Release PROVE RtcInv'
  OBVIOUS
<1>1. /\ rtcPc' = "idle" /\ rtcShown' = {} /\ rtcArg' = [rtcArg EXCEPT !.time = 0]
      /\ UNCHANGED <<rtcDay, rtcTime, rtcStore, rtcCalls, rtcTrue, rtcMidnight>>
  BY DEF Release
<1>2. RtcTypeOK /\ 0 \in Time
  BY RtcAssumption DEF RtcInv, Time
<1>3. RtcTypeOK'
  BY <1>1, <1>2 DEF RtcTypeOK
<1>4. Outstanding' /\ TrueOnTheWay' /\ ReadSoFar' /\ ReadAtOnce'
  BY <1>1 DEF RtcInv, Outstanding, TrueOnTheWay, ReadSoFar, ReadAtOnce, InReading
<1>. QED
  BY <1>3, <1>4 DEF RtcInv

LEMMA RtcNextInv == RtcInv /\ [RtcNext]_rtcVars => RtcInv'
<1>. SUFFICES ASSUME RtcInv, [RtcNext]_rtcVars PROVE RtcInv'
  OBVIOUS
<1>1. CASE RtcNext
  BY <1>1, TickStep, StoreTimeStep, StoreDateStep, RtcSetStep, RtcGetStep, RtcReleaseStep
  DEF RtcNext
<1>2. CASE UNCHANGED rtcVars
  <2>. USE <1>2 DEF rtcVars
  <2>1. RtcTypeOK' /\ Outstanding' /\ TrueOnTheWay' /\ ReadAtOnce'
    BY DEF RtcInv, RtcTypeOK, Outstanding, TrueOnTheWay, Now, ReadAtOnce, LessThanADay
  <2>2. ReadSoFar'
    BY DEF RtcInv, ReadSoFar, InReading, LessThanADay, All, RunOn, Since, Shown
  <2>. QED
    BY <2>1, <2>2 DEF RtcInv
<1>. QED
  BY <1>1, <1>2

LEMMA RtcInvariance == RtcSpec => []RtcInv
  BY RtcInitInv, RtcNextInv, PTL DEF RtcSpec

\* ReadAtOnce: rt_rtc_control reads date and time in two, and a midnight or
\* the store of a call that gave up may fall anywhere between the four
\* readings of sun6i_rtc_gettime; for every length of a day and number of
\* calls what it returns was on the clock at one moment.
THEOREM RtcReadAtOnce == RtcSpec => []ReadAtOnce
<1>1. RtcInv => ReadAtOnce
  BY DEF RtcInv
<1>. QED
  BY <1>1, RtcInvariance, PTL

\* SetAsAsked: the three waits of sun6i_rtc_settime keep the two stores of a
\* call apart from each other and from those of a call that gave up.
THEOREM RtcSetAsAsked == RtcSpec => []SetAsAsked
<1>1. RtcInv => SetAsAsked
  BY DEF RtcInv, TrueOnTheWay, Outstanding, SetAsAsked, Now
<1>. QED
  BY <1>1, RtcInvariance, PTL

-----------------------------------------------------------------------------
(* The mode of the Ethernet link *)

\* A link is up with the partner that is there.
UpWithPartner ==
    /\ lnkUp \in {0, 1}
    /\ lnkUp = 1 => lnkLpa = lnkPartner /\ lnkPartner # {}

\* Once the PHY is configured it advertises all it has.
Configured ==
    /\ lnkFailed \in {0, 1}
    /\ lnkPc \in {"init", "poll", "status"} /\ lnkFailed = 0 => lnkAdv = Own

\* Nothing is known of the link before the MAC was set up on it.
FreshIsUp ==
    /\ lnkFresh = 1 => lnkUp = 1
    /\ lnkPc \in {"connect", "config"} => lnkFresh # 1

LnkInv == UpWithPartner /\ Configured /\ FreshIsUp /\ MacAsNegotiated

\* What genphy_parse_link finds in the two registers is what the ends agreed.
LEMMA ResolvedBest ==
    ASSUME NEW common
    PROVE  Resolved(common) = Best(common)
<1>. DEFINE fast == common \cap {"100HD", "100FD"}
<1>1. fast = {} <=> "100HD" \notin common /\ "100FD" \notin common
  OBVIOUS
<1>2. Resolved(common) = Mode(IF fast # {} THEN 100 ELSE 10,
         IF "100FD" \in common \/ (fast = {} /\ "10FD" \in common) THEN 1 ELSE 0)
  BY DEF Resolved
<1>. HIDE DEF fast
<1>. QED
  BY <1>1, <1>2 DEF Best

LEMMA LnkInitInv == LnkInit => LnkInv
  BY DEF LnkInit, LnkInv, UpWithPartner, Configured, FreshIsUp, MacAsNegotiated

LEMMA EthInitStep == LnkInv /\ EthInit => LnkInv'
<1>. SUFFICES ASSUME LnkInv, EthInit PROVE LnkInv'
  OBVIOUS
<1>1. /\ lnkPc = "init" /\ lnkPc' = "poll" /\ lnkMac' = lnkPhydev' /\ lnkFresh' = lnkUp
      /\ UNCHANGED <<lnkPartner, lnkUp, lnkAdv, lnkLpa>>
  BY DEF EthInit, AdjustLink
<1>2. \/ lnkPhydev' = Resolved(lnkAdv \cap lnkLpa) /\ lnkFailed' = lnkFailed
      \/ lnkFailed' = 1
  BY DEF EthInit, ParseLink
<1>3. UpWithPartner' /\ Configured' /\ FreshIsUp'
  BY <1>1, <1>2 DEF LnkInv, UpWithPartner, Configured, FreshIsUp
<1>4. ASSUME lnkUp = 1, lnkFailed' = 0 PROVE lnkMac' = Best(Own \cap lnkPartner)
  <2>1. lnkPhydev' = Resolved(lnkAdv \cap lnkLpa) /\ lnkFailed = 0
    BY <1>2, <1>4
  <2>2. lnkAdv = Own /\ lnkLpa = lnkPartner
    BY <1>1, <1>4, <2>1 DEF LnkInv, Configured, UpWithPartner
  <2>. QED
    BY <1>1, <2>1, <2>2, ResolvedBest
<1>5. MacAsNegotiated'
  BY <1>1, <1>4 DEF MacAsNegotiated
<1>. QED
  BY <1>3, <1>5 DEF LnkInv

LEMMA LnkNextInv == LnkInv /\ [LnkNext]_lnkVars => LnkInv'
<1>. SUFFICES ASSUME LnkInv, [LnkNext]_lnkVars PROVE LnkInv'
  OBVIOUS
<1>. USE DEF LnkInv, UpWithPartner, Configured, FreshIsUp, MacAsNegotiated
<1>1. CASE Plug
  BY <1>1 DEF Plug, phydrvVars
<1>2. CASE Unplug
  BY <1>2 DEF Unplug, phydrvVars
<1>3. CASE Negotiate
  BY <1>3 DEF Negotiate, phydrvVars
<1>4. CASE Connect
  BY <1>4 DEF Connect, Renegotiate
<1>5. CASE Config
  BY <1>5 DEF Config, RestartAneg, Renegotiate
<1>6. CASE EthInit
  BY <1>6, EthInitStep
<1>7. CASE PollLink \/ PollStatus
  BY <1>7 DEF PollLink, PollStatus
<1>8. CASE UNCHANGED lnkVars
  BY <1>8 DEF lnkVars
<1>. QED
  BY <1>1, <1>2, <1>3, <1>4, <1>5, <1>6, <1>7, <1>8 DEF LnkNext

\* MacAsNegotiated: however often cables are plugged and the MAC is set up
\* again in between, and whatever modes the partners have, a MAC that was set
\* up on a negotiated link works in the best mode both ends have.
THEOREM LinkSafe == LnkSpec => []MacAsNegotiated
<1>1. LnkInv => MacAsNegotiated
  BY DEF LnkInv
<1>. QED
  BY <1>1, LnkInitInv, LnkNextInv, PTL DEF LnkSpec

-----------------------------------------------------------------------------
(* The dividers.  What a division, rounded down or up, is at most.         *)

\* A set of numbers that is not empty has a least element.
Below == {ss \in Nat \X Nat : ss[1] < ss[2]}

LEMMA BelowWF == IsWellFoundedOn(Below, Nat)
<1>1. OpToRel(<, Nat) = Below
  BY DEF OpToRel, Below
<1>. QED
  BY <1>1, NatLessThanWellFounded

LEMMA Smallest ==
  ASSUME NEW T \in SUBSET Nat, T # {}
  PROVE  \E x \in T : \A y \in T : x <= y
<1>1. PICK x \in T : \A y \in T : ~ (<<y, x>> \in Below)
  BY BelowWF, WFMin
<1>2. \A y \in T : ~ (y < x)
  BY <1>1 DEF Below
<1>. QED
  BY <1>2

LEMMA Division ==
  ASSUME NEW a \in Nat, NEW b \in Nat \ {0}
  PROVE  a \div b \in Nat /\ b * (a \div b) <= a /\ a < b * (a \div b) + b
OBVIOUS

LEMMA Scale ==
  ASSUME NEW a \in Nat, NEW b \in Nat, NEW c \in Nat, a <= b
  PROVE  c * a <= c * b /\ a * c <= b * c /\ c * a \in Nat
OBVIOUS

LEMMA ScaleStrict ==
  ASSUME NEW a \in Nat, NEW b \in Nat, NEW c \in Nat \ {0}, a < b
  PROVE  c * a < c * b /\ a * c < b * c
OBVIOUS

LEMMA Cancel ==
  ASSUME NEW a \in Nat, NEW b \in Nat, NEW c \in Nat \ {0}, c * a <= c * b
  PROVE  a <= b
<1>1. c * a \in Nat /\ c * b \in Nat
  OBVIOUS
<1>2. ASSUME b < a PROVE FALSE
  BY <1>1, <1>2, ScaleStrict
<1>. QED
  BY <1>2

LEMMA DivisionUnder ==
  ASSUME NEW a \in Nat, NEW b \in Nat \ {0}, NEW c \in Nat
  PROVE  (c <= a \div b) <=> (b * c <= a)
<1>. DEFINE d == a \div b
<1>1. d \in Nat /\ b * d <= a /\ a < b * (d + 1)
  BY Division
<1>. HIDE DEF d
<1>2. ASSUME c <= d PROVE b * c <= a
  BY <1>1, <1>2, Scale
<1>3. ASSUME d + 1 <= c PROVE a < b * c
  <2>1. b * (d + 1) <= b * c
    BY <1>1, <1>3, Scale
  <2>. QED
    BY <1>1, <2>1
<1>. QED
  BY <1>1, <1>2, <1>3 DEF d

LEMMA CeilUnder ==
  ASSUME NEW a \in Nat, NEW b \in Nat \ {0}, NEW c \in Nat
  PROVE  CeilDiv(a, b) \in Nat /\ ((CeilDiv(a, b) <= c) <=> (a <= b * c))
<1>. DEFINE x == a + b - 1
<1>1. x \in Nat
  OBVIOUS
<1>2. CeilDiv(a, b) = x \div b /\ x \div b \in Nat
  BY <1>1, Division DEF CeilDiv
<1>3. (c + 1 <= x \div b) <=> (b * (c + 1) <= x)
  BY <1>1, DivisionUnder
<1>4. b * (c + 1) = b * c + b /\ b * c \in Nat
  OBVIOUS
<1>5. (b * (c + 1) <= x) <=> ~(a <= b * c)
  BY <1>4
<1>. QED
  BY <1>2, <1>3, <1>5

-----------------------------------------------------------------------------
(* Powers of two.  A recursive function exists because its restriction to  *)
(* every 0..n does, and no two of those differ: the least n or place at    *)
(* which they would contradicts the one before it.  Facts about all its    *)
(* values are shown in the same way, from a least exception.               *)

LEMMA Iterated ==
  ASSUME NEW S, NEW c \in S, NEW g \in [S -> S]
  PROVE  \E f \in [Nat -> S] :
            f = [k \in Nat |-> IF k = 0 THEN c ELSE g[f[k - 1]]]
<1>. DEFINE Upto(n) == {h \in [0..n -> S] :
                          h[0] = c /\ \A k \in 1..n : h[k] = g[h[k - 1]]}
<1>1. \A n \in Nat : Upto(n) # {}
  <2>. DEFINE Bad == {n \in Nat : Upto(n) = {}}
  <2>1. ASSUME Bad # {} PROVE FALSE
    <3>1. PICK n \in Bad : \A y \in Bad : n <= y
      BY <2>1, Smallest
    <3>2. CASE n = 0
      <4>. DEFINE h == [k \in 0..n |-> c]
      <4>1. h \in Upto(n)
        BY <3>2
      <4>. QED
        BY <4>1, <3>1
    <3>3. CASE n # 0
      <4>0. n \in Nat /\ n - 1 \in Nat /\ ~ (n <= n - 1)
        BY <3>3
      <4>1. ~ (n - 1 \in Bad)
        <5>. HIDE DEF Bad
        <5>. QED
          BY <4>0, <3>1
      <4>2. PICK p \in [0..(n - 1) -> S] :
                p[0] = c /\ \A k \in 1..(n - 1) : p[k] = g[p[k - 1]]
        BY <4>0, <4>1
      <4>. DEFINE h == [k \in 0..n |-> IF k = n THEN g[p[n - 1]] ELSE p[k]]
      <4>3. h \in [0..n -> S]
        BY <4>0, <4>2
      <4>4. h[0] = c
        BY <4>0, <4>2, <3>3
      <4>5. ASSUME NEW k \in 1..n PROVE h[k] = g[h[k - 1]]
        BY <4>0, <4>2
      <4>6. h \in Upto(n)
        BY <4>3, <4>4, <4>5
      <4>. QED
        BY <4>6, <3>1
    <3>. QED
      BY <3>2, <3>3
  <2>. QED
    BY <2>1
<1>2. ASSUME NEW n \in Nat, NEW p \in Upto(n), NEW q \in Upto(n + 1)
      PROVE  \A k \in 0..n : p[k] = q[k]
  <2>. DEFINE Bad == {k \in 0..n : p[k] # q[k]}
  <2>1. ASSUME Bad # {} PROVE FALSE
    <3>1. Bad \in SUBSET Nat
      OBVIOUS
    <3>2. PICK k \in Bad : \A y \in Bad : k <= y
      BY <2>1, <3>1, Smallest
    <3>3. k # 0
      BY <3>2
    <3>4. k - 1 \in 0..n /\ ~ (k - 1 \in Bad)
      BY <3>2, <3>3
    <3>5. p[k - 1] = q[k - 1]
      BY <3>4
    <3>6. p[k] = g[p[k - 1]] /\ q[k] = g[q[k - 1]]
      BY <3>2, <3>3
    <3>. QED
      BY <3>2, <3>5, <3>6
  <2>. QED
    BY <2>1
<1>. DEFINE f == [n \in Nat |-> (CHOOSE h : h \in Upto(n))[n]]
<1>3. \A n \in Nat : (CHOOSE h : h \in Upto(n)) \in Upto(n)
  BY <1>1
<1>4. f \in [Nat -> S]
  <2>1. ASSUME NEW n \in Nat, NEW h \in Upto(n) PROVE h[n] \in S
    OBVIOUS
  <2>. HIDE DEF Upto
  <2>. QED
    BY <2>1, <1>3
<1>5. f[0] = c
  <2>1. ASSUME NEW h \in Upto(0) PROVE h[0] = c
    OBVIOUS
  <2>. HIDE DEF Upto
  <2>. QED
    BY <2>1, <1>3
<1>6. ASSUME NEW n \in Nat, n # 0 PROVE f[n] = g[f[n - 1]]
  <2>. DEFINE p == CHOOSE h : h \in Upto(n - 1)
              q == CHOOSE h : h \in Upto(n)
  <2>0. n - 1 \in Nat /\ (n - 1) + 1 = n
    BY <1>6
  <2>1. p \in Upto(n - 1) /\ q \in Upto(n)
    BY <2>0, <1>3
  <2>2. f[n - 1] = p[n - 1] /\ f[n] = q[n]
    BY <2>0
  <2>. HIDE DEF p, q, f
  <2>. HIDE DEF Upto
  <2>5. q \in Upto((n - 1) + 1)
    BY <2>0, <2>1
  <2>6. \A k \in 0..(n - 1) : p[k] = q[k]
    BY <2>0, <2>1, <2>5, <1>2
  <2>3. p[n - 1] = q[n - 1]
    BY <2>0, <2>6
  <2>. USE DEF Upto
  <2>4. q[n] = g[q[n - 1]]
    BY <2>0, <2>1
  <2>. QED
    BY <2>2, <2>3, <2>4
<1>7. f = [k \in Nat |-> IF k = 0 THEN c ELSE g[f[k - 1]]]
  <2>. DEFINE r == [k \in Nat |-> IF k = 0 THEN c ELSE g[f[k - 1]]]
  <2>1. \A k \in Nat : f[k] = r[k]
    <3>. HIDE DEF f
    <3>. QED
      BY <1>5, <1>6
  <2>. HIDE DEF f
  <2>2. f = [k \in Nat |-> f[k]]
    BY <1>4
  <2>. QED
    BY <2>1, <2>2
<1>. QED
  BY <1>4, <1>7

LEMMA TwoToSteps ==
  /\ TwoTo \in [Nat -> Nat \ {0}]
  /\ TwoTo[0] = 1
  /\ \A k \in Nat : TwoTo[k + 1] = 2 * TwoTo[k]
<1>. DEFINE g == [x \in Nat \ {0} |-> 2 * x]
            F(f) == f = [k \in Nat |-> IF k = 0 THEN 1 ELSE 2 * f[k - 1]]
<1>1. \E f \in [Nat -> Nat \ {0}] :
         f = [k \in Nat |-> IF k = 0 THEN 1 ELSE g[f[k - 1]]]
  <2>. DEFINE P == Nat \ {0}
  <2>1. g \in [P -> P] /\ 1 \in P
    OBVIOUS
  <2>. HIDE DEF P, g
  <2>2. \E f \in [Nat -> P] : f = [k \in Nat |-> IF k = 0 THEN 1 ELSE g[f[k - 1]]]
    BY <2>1, Iterated
  <2>. QED
    BY <2>2 DEF P
<1>2. PICK f \in [Nat -> Nat \ {0}] :
         f = [k \in Nat |-> IF k = 0 THEN 1 ELSE g[f[k - 1]]]
  BY <1>1
<1>3. f = [k \in Nat |-> IF k = 0 THEN 1 ELSE 2 * f[k - 1]]
  <2>1. \A k \in Nat : (IF k = 0 THEN 1 ELSE g[f[k - 1]])
                       = (IF k = 0 THEN 1 ELSE 2 * f[k - 1])
    OBVIOUS
  <2>. HIDE DEF g
  <2>. QED
    BY <2>1, <1>2
<1>4. TwoTo = CHOOSE h : F(h)
  BY DEF TwoTo
<1>5. F(TwoTo)
  BY <1>3, <1>4
<1>6. TwoTo = [k \in Nat |-> IF k = 0 THEN 1 ELSE 2 * TwoTo[k - 1]]
  BY <1>5
<1>7. TwoTo[0] = 1 /\ \A k \in Nat : TwoTo[k + 1] = 2 * TwoTo[k]
  <2>1. TwoTo[0] = 1
    BY <1>6
  <2>2. ASSUME NEW k \in Nat PROVE TwoTo[k + 1] = 2 * TwoTo[k]
    <3>1. k + 1 \in Nat /\ k + 1 # 0 /\ (k + 1) - 1 = k
      OBVIOUS
    <3>. QED
      BY <1>6, <3>1
  <2>. QED
    BY <2>1, <2>2
<1>8. \A k \in Nat : TwoTo[k] \in Nat \ {0}
  <2>. DEFINE Bad == {k \in Nat : TwoTo[k] \notin Nat \ {0}}
  <2>1. ASSUME Bad # {} PROVE FALSE
    <3>1. PICK k \in Bad : \A y \in Bad : k <= y
      BY <2>1, Smallest
    <3>2. k \in Nat /\ k # 0
      BY <3>1, <1>7
    <3>3. k - 1 \in Nat /\ ~ (k <= k - 1) /\ (k - 1) + 1 = k
      BY <3>2
    <3>4. k - 1 \notin Bad
      <4>. HIDE DEF Bad
      <4>. QED
        BY <3>1, <3>3
    <3>5. TwoTo[k] = 2 * TwoTo[k - 1]
      BY <1>7, <3>3
    <3>. QED
      BY <3>1, <3>3, <3>4, <3>5
  <2>. QED
    BY <2>1
<1>. QED
  BY <1>6, <1>7, <1>8

LEMMA TwoToSum ==
  ASSUME NEW a \in Nat, NEW b \in Nat
  PROVE  TwoTo[a + b] = TwoTo[a] * TwoTo[b]
<1>. DEFINE Bad == {j \in Nat : ~ (TwoTo[j + b] = TwoTo[j] * TwoTo[b])}
<1>1. ASSUME Bad # {} PROVE FALSE
  <2>1. PICK j \in Bad : \A y \in Bad : j <= y
    BY <1>1, Smallest
  <2>0. TwoTo[b] \in Nat
    BY TwoToSteps
  <2>2. j \in Nat /\ j # 0
    BY <2>0, <2>1, TwoToSteps
  <2>3. j - 1 \in Nat /\ ~ (j <= j - 1) /\ (j - 1) + 1 = j /\ ((j - 1) + b) + 1 = j + b
        /\ (j - 1) + b \in Nat
    BY <2>2
  <2>4. j - 1 \notin Bad
    <3>. HIDE DEF Bad
    <3>. QED
      BY <2>1, <2>3
  <2>5. TwoTo[j] = 2 * TwoTo[j - 1] /\ TwoTo[j - 1] \in Nat
    BY <2>3, TwoToSteps
  <2>6. TwoTo[j + b] = 2 * TwoTo[(j - 1) + b]
    BY <2>3, TwoToSteps
  <2>7. TwoTo[(j - 1) + b] = TwoTo[j - 1] * TwoTo[b]
    BY <2>3, <2>4
  <2>8. TwoTo[j + b] = TwoTo[j] * TwoTo[b]
    <3>. HIDE DEF Bad
    <3>1. \A x, y \in Nat : 2 * (x * y) = (2 * x) * y
      OBVIOUS
    <3>. QED
      BY <2>0, <2>5, <2>6, <2>7, <3>1
  <2>. QED
    BY <2>1, <2>8
<1>2. a \notin Bad
  BY <1>1
<1>. QED
  BY <1>2

LEMMA Log2Bounds ==
  ASSUME NEW x \in Nat \ {0}, x < TwoTo[30]
  PROVE  /\ Log2(x) \in Nat
         /\ TwoTo[Log2(x)] <= x /\ x < 2 * TwoTo[Log2(x)]
<1>. DEFINE Above == {k \in Nat : x < 2 * TwoTo[k]}
<1>1. 29 \in Above
  <2>1. TwoTo[29 + 1] = 2 * TwoTo[29]
    BY TwoToSteps
  <2>. QED
    BY <2>1
<1>2. PICK k \in Above : \A y \in Above : k <= y
  BY <1>1, Smallest
<1>3. k \in 0..30 /\ x < 2 * TwoTo[k]
  BY <1>1, <1>2
<1>4. TwoTo[k] <= x
  <2>1. CASE k = 0
    BY <2>1, TwoToSteps
  <2>2. CASE k # 0
    <3>1. k - 1 \in Nat /\ ~ (k <= k - 1) /\ (k - 1) + 1 = k
      BY <1>3, <2>2
    <3>2. k - 1 \notin Above
      <4>. HIDE DEF Above
      <4>. QED
        BY <1>2, <3>1
    <3>3. TwoTo[k] = 2 * TwoTo[k - 1] /\ TwoTo[k - 1] \in Nat
      BY <3>1, TwoToSteps
    <3>. QED
      BY <3>1, <3>2, <3>3
  <2>. QED
    BY <2>1, <2>2
<1>. QED
  BY <1>3, <1>4 DEF Log2

-----------------------------------------------------------------------------
(* The SPI clock: a factor within twice of what divides to the speed asked *)
(* for gives a clock within twice of it.                                   *)

LEMMA SpiNear ==
  ASSUME NEW osc \in Nat, NEW speed \in Nat \ {0}, NEW F \in Nat \ {0},
         osc < F * (2 * speed), F * speed <= 2 * osc
  PROVE  osc \div F < 2 * speed /\ 2 * CeilDiv(osc, F) >= speed
<1>1. osc \div F \in Nat /\ ~ (2 * speed <= osc \div F)
  BY Division, DivisionUnder
<1>. DEFINE c == CeilDiv(osc, F)
<1>2. c \in Nat
  BY CeilUnder
<1>3. osc <= F * c
  BY <1>2, CeilUnder
<1>. HIDE DEF c
<1>4. ASSUME 2 * c < speed PROVE FALSE
  <2>1. F * (2 * c) < F * speed
    BY <1>2, <1>4, ScaleStrict
  <2>2. F * (2 * c) = 2 * (F * c)
    BY <1>2
  <2>3. F * c \in Nat /\ F * speed \in Nat
    BY <1>2
  <2>. QED
    BY <1>3, <2>1, <2>2, <2>3
<1>. QED
  BY <1>1, <1>2, <1>4 DEF c

LEMMA SpiChosen ==
  ASSUME NEW hz \in Nat \ {0}
  PROVE  LET factor == SpiSetting(hz).m * TwoTo[SpiSetting(hz).n]
         IN /\ Osc \div factor < 2 * SpiSpeed(hz)
            /\ 2 * CeilDiv(Osc, factor) >= SpiSpeed(hz)
<1>. DEFINE speed  == SpiSpeed(hz)
            div    == Osc \div (2 * speed)
            s      == SpiSetting(hz)
            factor == s.m * TwoTo[s.n]
<1>1. Osc \in Nat /\ speed \in Nat \ {0} /\ speed <= Osc
  BY RatesAssumption DEF SpiSpeed
<1>2. div \in Nat /\ (2 * speed) * div <= Osc /\ Osc < (2 * speed) * div + 2 * speed
  <2>1. 2 * speed \in Nat \ {0}
    BY <1>1
  <2>. HIDE DEF speed
  <2>. QED
    BY <1>1, <2>1, Division
<1>3. s = IF div <= 256 THEN [m |-> IF div > 0 THEN div ELSE 1, n |-> 1]
                        ELSE [m |-> 1, n |-> Log2(Osc) - Log2(speed)]
  BY DEF SpiSetting
<1>. HIDE DEF speed, div, s
<1>4. CASE div = 0
  <2>1. s.m = 1 /\ s.n = 1
    BY <1>3, <1>4
  <2>2. factor = 2
    BY <2>1, TwoToSteps
  <2>3. Osc < 2 * (2 * speed) /\ 2 * speed <= 2 * Osc
    BY <1>1, <1>2, <1>4
  <2>. QED
    BY <1>1, <2>2, <2>3, SpiNear DEF speed, s
<1>5. CASE div > 0 /\ div <= 256
  <2>1. s.m = div /\ s.n = 1
    BY <1>2, <1>3, <1>5
  <2>2. TwoTo[1] = 2
    <3>1. TwoTo[0 + 1] = 2 * TwoTo[0]
      BY TwoToSteps
    <3>. QED
      BY <3>1, TwoToSteps
  <2>3. factor = div * 2 /\ factor \in Nat \ {0}
    BY <1>2, <1>5, <2>1, <2>2
  <2>4. factor * speed = (2 * speed) * div
    BY <1>1, <1>2, <2>3
  <2>5. factor * speed <= 2 * Osc
    BY <1>1, <1>2, <2>4
  <2>6. 2 * speed <= (2 * speed) * div
    BY <1>1, <1>2, <1>5
  <2>7. factor * (2 * speed) = (2 * speed) * div + (2 * speed) * div
    BY <1>1, <1>2, <2>3
  <2>8. Osc < factor * (2 * speed)
    BY <1>1, <1>2, <2>6, <2>7
  <2>. HIDE DEF factor
  <2>9. Osc \div factor < 2 * speed /\ 2 * CeilDiv(Osc, factor) >= speed
    BY <1>1, <2>3, <2>5, <2>8, SpiNear
  <2>. QED
    BY <2>9 DEF speed, s, factor
<1>6. CASE div > 256
  <2>. DEFINE a == Log2(Osc)
              b == Log2(speed)
  <2>1. a \in Nat /\ b \in Nat /\ TwoTo[a] <= Osc /\ Osc < 2 * TwoTo[a]
        /\ TwoTo[b] <= speed /\ speed < 2 * TwoTo[b]
    <3>1. Osc \in Nat \ {0} /\ Osc < TwoTo[30] /\ TwoTo[30] \in Nat /\ speed < TwoTo[30]
      BY <1>1, RatesAssumption, TwoToSteps
    <3>. QED
      BY <1>1, <3>1, Log2Bounds
  <2>2. s.m = 1 /\ s.n = a - b
    BY <1>2, <1>3, <1>6
  <2>. HIDE DEF a, b
  <2>0. TwoTo[a] \in Nat \ {0} /\ TwoTo[b] \in Nat \ {0}
    BY <2>1, TwoToSteps
  <2>3. b <= a
    <3>1. ASSUME ~ (b <= a) PROVE FALSE
      <4>1. (b - a) - 1 \in Nat /\ ((b - a) - 1) + (a + 1) = b /\ a + 1 \in Nat
        BY <2>1, <3>1
      <4>2. TwoTo[b] = TwoTo[(b - a) - 1] * TwoTo[a + 1]
        BY <4>1, TwoToSum
      <4>3. TwoTo[(b - a) - 1] \in Nat \ {0} /\ TwoTo[a + 1] \in Nat
            /\ TwoTo[a + 1] = 2 * TwoTo[a]
        BY <2>1, <4>1, TwoToSteps
      <4>4. TwoTo[a + 1] <= TwoTo[b]
        <5>1. \A x, y \in Nat : x # 0 => y <= x * y
          OBVIOUS
        <5>. QED
          BY <4>2, <4>3, <5>1
      <4>. QED
        BY <1>1, <2>0, <2>1, <4>3, <4>4
    <3>. QED
      BY <3>1
  <2>. DEFINE F == TwoTo[a - b]
  <2>4. a - b \in Nat /\ (a - b) + b = a
    BY <2>1, <2>3
  <2>5. F \in Nat \ {0} /\ TwoTo[a] = F * TwoTo[b]
    BY <2>1, <2>4, TwoToSteps, TwoToSum
  <2>6. factor = F
    <3>1. \A x \in Nat : 1 * x = x
      OBVIOUS
    <3>. HIDE DEF s
    <3>. QED
      BY <2>2, <2>5, <3>1
  <2>. HIDE DEF F, factor
  <2>7. Osc < F * (2 * speed)
    <3>1. F * TwoTo[b] <= F * speed
      BY <1>1, <2>0, <2>1, <2>5, Scale
    <3>2. F * (2 * speed) = 2 * (F * speed) /\ F * speed \in Nat
      BY <1>1, <2>5
    <3>. QED
      BY <1>1, <2>0, <2>1, <2>5, <3>1, <3>2
  <2>8. F * speed <= 2 * Osc
    <3>1. 2 * TwoTo[b] \in Nat /\ speed <= 2 * TwoTo[b]
      BY <1>1, <2>0, <2>1
    <3>2. F * speed <= F * (2 * TwoTo[b])
      BY <1>1, <2>5, <3>1, Scale
    <3>3. F * (2 * TwoTo[b]) = 2 * (F * TwoTo[b])
      BY <2>0, <2>5
    <3>4. F * speed \in Nat
      BY <1>1, <2>5
    <3>. QED
      BY <1>1, <2>0, <2>1, <2>5, <3>2, <3>3, <3>4
  <2>9. Osc \div F < 2 * speed /\ 2 * CeilDiv(Osc, F) >= speed
    BY <1>1, <2>5, <2>7, <2>8, SpiNear
  <2>. QED
    BY <2>6, <2>9 DEF speed, s, factor
<1>. QED
  BY <1>2, <1>4, <1>5, <1>6

-----------------------------------------------------------------------------
(* The card clock: halving n times, rounded up each time, divides by 2^n,  *)
(* rounded up once.                                                        *)

LEMMA HalvedUnder ==
  ASSUME NEW div \in Nat
  PROVE  \A n \in 0..3 : /\ Halved(div)[n] \in Nat
                         /\ \A c \in Nat : (Halved(div)[n] <= c) <=> (div <= c * TwoTo[n])
<1>. DEFINE C(x) == CeilDiv(x, 2)
            F(f) == f = [n \in 0..3 |-> IF n = 0 THEN div ELSE CeilDiv(f[n - 1], 2)]
            h == [n \in 0..3 |-> IF n = 0 THEN div ELSE IF n = 1 THEN C(div)
                                 ELSE IF n = 2 THEN C(C(div)) ELSE C(C(C(div)))]
            left == Halved(div)
<1>1. F(h)
  <2>1. \A n \in 0..3 : n = 0 \/ n = 1 \/ n = 2 \/ n = 3
    OBVIOUS
  <2>2. h[0] = div /\ h[1] = C(div) /\ h[2] = C(C(div)) /\ h[3] = C(C(C(div)))
    OBVIOUS
  <2>3. \A n \in 0..3 : h[n] = IF n = 0 THEN div ELSE C(h[n - 1])
    <3>. HIDE DEF h, C
    <3>. QED
      BY <2>1, <2>2
  <2>4. h = [n \in 0..3 |-> h[n]]
    OBVIOUS
  <2>. HIDE DEF h
  <2>. QED
    BY <2>3, <2>4
<1>2. left = CHOOSE f : F(f)
  BY DEF Halved
<1>3. F(left)
  BY <1>1, <1>2
<1>. HIDE DEF left, h
<1>4. left[0] = div /\ left[1] = C(left[0]) /\ left[2] = C(left[1]) /\ left[3] = C(left[2])
  BY <1>3
<1>5. \A x \in Nat : C(x) \in Nat /\ \A c \in Nat : (C(x) <= c) <=> (x <= 2 * c)
  BY CeilUnder
<1>. HIDE DEF C
<1>6. left[0] \in Nat /\ left[1] \in Nat /\ left[2] \in Nat /\ left[3] \in Nat
  BY <1>4, <1>5
<1>7. TwoTo[0] = 1 /\ TwoTo[1] = 2 /\ TwoTo[2] = 4 /\ TwoTo[3] = 8
  <2>1. TwoTo[0 + 1] = 2 * TwoTo[0] /\ TwoTo[1 + 1] = 2 * TwoTo[1] /\ TwoTo[2 + 1] = 2 * TwoTo[2]
    BY TwoToSteps
  <2>. QED
    BY <2>1, TwoToSteps
<1>8. ASSUME NEW c \in Nat
      PROVE  /\ (left[0] <= c) <=> (div <= c * 1)
             /\ (left[1] <= c) <=> (div <= c * 2)
             /\ (left[2] <= c) <=> (div <= c * 4)
             /\ (left[3] <= c) <=> (div <= c * 8)
  <2>1. 2 * c \in Nat /\ 2 * (2 * c) \in Nat
    OBVIOUS
  <2>2. (left[1] <= c) <=> (div <= 2 * c)
    BY <1>4, <1>5
  <2>3. (left[2] <= c) <=> (div <= 2 * (2 * c))
    <3>1. (left[2] <= c) <=> (left[1] <= 2 * c)
      BY <1>4, <1>5, <1>6
    <3>. QED
      BY <1>4, <1>5, <2>1, <3>1
  <2>4. (left[3] <= c) <=> (div <= 2 * (2 * (2 * c)))
    <3>1. (left[3] <= c) <=> (left[2] <= 2 * c)
      BY <1>4, <1>5, <1>6
    <3>2. (left[2] <= 2 * c) <=> (left[1] <= 2 * (2 * c))
      BY <1>4, <1>5, <1>6, <2>1
    <3>. QED
      BY <1>4, <1>5, <2>1, <3>1, <3>2
  <2>. QED
    BY <1>4, <2>2, <2>3, <2>4
<1>. QED
  <2>1. \A n \in 0..3 : n = 0 \/ n = 1 \/ n = 2 \/ n = 3
    OBVIOUS
  <2>. QED
    BY <1>6, <1>7, <1>8, <2>1 DEF left

LEMMA MmcChosen ==
  ASSUME NEW hz \in Nat \ {0}
  PROVE  LET slow == {s \in MmcSettings : MmcSlowEnough(s, hz)}
             set  == MmcSetting(hz)
         IN  IF slow = {} THEN set = Refused
             ELSE set \in slow /\ \A s \in slow : MmcFactor(set) <= MmcFactor(s)
<1>. DEFINE slow == {s \in MmcSettings : MmcSlowEnough(s, hz)}
            set  == MmcSetting(hz)
            P    == MmcParent(hz)
            div  == MmcDivider(hz)
            left == Halved(div)
            fits == {n \in 0..3 : left[n] <= 16}
            least == CHOOSE k \in fits : \A j \in fits : k <= j
<1>1. P \in Nat \ {0}
  BY RatesAssumption DEF MmcParent
<1>2. div \in Nat \ {0} /\ \A c \in Nat : (div <= c) <=> (P <= hz * c)
  <2>1. div = CeilDiv(P, hz)
    BY DEF MmcDivider
  <2>. HIDE DEF P, div
  <2>2. div \in Nat /\ \A c \in Nat : (div <= c) <=> (P <= hz * c)
    BY <1>1, <2>1, CeilUnder
  <2>3. ~ (div <= 0)
    BY <1>1, <2>2
  <2>. QED
    BY <2>2, <2>3
<1>3. set = IF fits = {} THEN Refused ELSE [m |-> left[least], n |-> least]
  BY DEF MmcSetting
<1>4. \A n \in 0..3 : TwoTo[n] \in Nat \ {0}
  BY TwoToSteps
<1>5. \A s \in MmcSettings : MmcFactor(s) \in Nat \ {0} /\ (MmcSlowEnough(s, hz) <=> div <= MmcFactor(s))
  <2>1. TAKE s \in MmcSettings
  <2>2. s.m \in Nat \ {0} /\ s.m <= 16 /\ TwoTo[s.n] \in Nat \ {0}
    BY <1>4 DEF MmcSettings
  <2>3. MmcFactor(s) \in Nat \ {0}
    BY <2>2 DEF MmcFactor
  <2>4. MmcSlowEnough(s, hz) <=> P <= MmcFactor(s) * hz
    BY <1>1, <2>3, CeilUnder DEF MmcSlowEnough
  <2>5. MmcFactor(s) * hz = hz * MmcFactor(s)
    BY <2>3
  <2>. HIDE DEF P, div
  <2>. QED
    BY <1>2, <2>3, <2>4, <2>5
<1>. HIDE DEF P, div, set
<1>6. \A n \in 0..3 : left[n] \in Nat /\ \A c \in Nat : (left[n] <= c) <=> (div <= c * TwoTo[n])
  BY <1>2, HalvedUnder
<1>. HIDE DEF left
<1>7. \A s \in slow : s.n \in fits
  <2>1. TAKE s \in slow
  <2>2. s.n \in 0..3 /\ s.m \in 1..16 /\ div <= s.m * TwoTo[s.n]
    BY <1>5 DEF MmcSettings, MmcFactor
  <2>3. left[s.n] \in Nat /\ left[s.n] <= s.m
    BY <1>6, <2>2
  <2>. QED
    BY <2>2, <2>3
<1>8. CASE fits = {}
  <2>1. slow = {}
    BY <1>7, <1>8
  <2>. QED
    BY <1>3, <1>8, <2>1 DEF set
<1>9. CASE fits # {}
  <2>1. fits \in SUBSET Nat
    OBVIOUS
  <2>2. least \in fits /\ \A j \in fits : least <= j
    <3>1. \E k \in fits : \A j \in fits : k <= j
      BY <1>9, <2>1, Smallest
    <3>. HIDE DEF fits
    <3>. QED
      BY <3>1
  <2>3. set.m = left[least] /\ set.n = least /\ set = [m |-> left[least], n |-> least]
    BY <1>3, <1>9
  <2>. HIDE DEF least
  <2>4. least \in 0..3 /\ left[least] \in Nat /\ left[least] <= 16
    BY <1>6, <2>2
  <2>5. div <= left[least] * TwoTo[least]
    BY <1>6, <2>4
  <2>6. left[least] # 0
    BY <1>2, <1>4, <2>4, <2>5
  <2>7. set \in MmcSettings
    BY <2>3, <2>4, <2>6 DEF MmcSettings
  <2>8. MmcFactor(set) = left[least] * TwoTo[least]
    BY <2>3 DEF MmcFactor
  <2>9. set \in slow
    BY <1>5, <2>5, <2>7, <2>8
  <2>10. ASSUME NEW s \in slow PROVE MmcFactor(set) <= MmcFactor(s)
    <3>1. s.m \in Nat /\ s.n \in 0..3 /\ div <= s.m * TwoTo[s.n]
      BY <1>5 DEF MmcSettings, MmcFactor
    <3>2. least <= s.n
      BY <1>7, <2>2
    <3>. DEFINE d    == s.n - least
                more == TwoTo[d]
    <3>3. d \in Nat /\ d + least = s.n /\ least \in Nat
      BY <2>4, <3>1, <3>2
    <3>. HIDE DEF d
    <3>4. more \in Nat /\ TwoTo[s.n] = more * TwoTo[least]
      <4>1. more \in Nat
        BY <3>3, TwoToSteps
      <4>2. TwoTo[d + least] = more * TwoTo[least]
        BY <3>3, TwoToSum
      <4>. QED
        BY <3>3, <4>1, <4>2
    <3>. HIDE DEF more
    <3>5. s.m * TwoTo[s.n] = (s.m * more) * TwoTo[least] /\ s.m * more \in Nat
      BY <1>4, <2>4, <3>1, <3>4
    <3>6. left[least] <= s.m * more
      BY <1>6, <2>4, <3>1, <3>5
    <3>7. left[least] * TwoTo[least] <= (s.m * more) * TwoTo[least]
      BY <1>4, <2>4, <3>5, <3>6, Scale
    <3>. QED
      BY <2>8, <3>5, <3>7 DEF MmcFactor
  <2>. QED
    BY <2>9, <2>10 DEF set
<1>. QED
  BY <1>8, <1>9

-----------------------------------------------------------------------------
(* The dot clock.  A divider whose own multiplier is out of reach could     *)
(* still be used with the greatest one, which the loop does not try.  It   *)
(* comes no closer than the last divider within reach with its multiplier. *)

LEMMA Cross ==
  ASSUME NEW m1 \in Nat \ {0}, NEW m2 \in Nat \ {0}, NEW n1 \in Nat, NEW n2 \in Nat,
         n2 * m1 <= n1 * m2
  PROVE  (PllStep * n2) \div m2 <= (PllStep * n1) \div m1
<1>. USE DEF PllStep
<1>. DEFINE c == (PllStep * n2) \div m2
<1>1. c \in Nat /\ m2 * c <= PllStep * n2
  <2>1. PllStep * n2 \in Nat
    OBVIOUS
  <2>. QED
    BY <2>1, Division
<1>. HIDE DEF c
<1>2. m1 * (m2 * c) <= m1 * (PllStep * n2)
  BY <1>1, Scale
<1>3. m1 * (m2 * c) = m2 * (m1 * c) /\ m1 * (PllStep * n2) = PllStep * (n2 * m1)
      /\ m2 * (PllStep * n1) = PllStep * (n1 * m2)
  BY <1>1
<1>4. m1 * c \in Nat /\ n2 * m1 \in Nat /\ n1 * m2 \in Nat /\ m2 * (m1 * c) \in Nat
      /\ PllStep * n1 \in Nat
  BY <1>1
<1>5. m2 * (m1 * c) <= m2 * (PllStep * n1)
  BY <1>2, <1>3, <1>4
<1>6. m1 * c <= PllStep * n1
  BY <1>4, <1>5, Cancel
<1>7. ASSUME NEW x \in Nat, m1 * c <= x PROVE c <= x \div m1
  BY <1>1, <1>7, DivisionUnder
<1>8. c <= (PllStep * n1) \div m1
  BY <1>4, <1>6, <1>7
<1>. QED
  BY <1>8 DEF c

DotLimit == PllStep * 128

\* The multiplier n of the last divider p within reach is as good as 127 is for
\* the divider after it.
LEMMA LastWithinReach ==
  ASSUME NEW khz \in Nat, NEW p \in Nat \ {0}, NEW n \in Nat,
         khz * (p + 1) >= DotLimit, p * khz < PllStep * (n + 1)
  PROVE  127 * p <= n * (p + 1)
<1>. USE DEF PllStep
<1>. DEFINE q == p + 1
<1>1. q \in Nat \ {0} /\ p = q - 1
  OBVIOUS
<1>2. p * DotLimit <= p * (khz * q)
  <2>1. DotLimit \in Nat /\ khz * q \in Nat /\ DotLimit <= khz * q
    BY DEF DotLimit, PllStep
  <2>. HIDE DEF q
  <2>. QED
    BY <2>1, Scale
<1>3. q * (p * khz) < q * (PllStep * (n + 1))
  <2>1. p * khz \in Nat /\ PllStep * (n + 1) \in Nat
    OBVIOUS
  <2>. HIDE DEF q
  <2>. QED
    BY <1>1, <2>1, ScaleStrict
<1>4. p * (khz * q) = q * (p * khz) /\ q * (PllStep * (n + 1)) = PllStep * (n * q) + PllStep * q
  OBVIOUS
<1>5. p * (khz * q) \in Nat /\ n * q \in Nat
  OBVIOUS
<1>6. p * DotLimit = PllStep * (128 * p)
  BY DEF DotLimit, PllStep
<1>7. PllStep * (128 * p) < PllStep * (n * q + q)
  BY <1>2, <1>3, <1>4, <1>5, <1>6
<1>8. 128 * p < n * q + q
  BY <1>5, <1>7
<1>. QED
  BY <1>1, <1>5, <1>8

DotBefore(s, t) == \/ DotClock(s) > DotClock(t)
                   \/ DotClock(s) = DotClock(t) /\ s.m <= t.m
DotTried(m, khz) == [m |-> m, n |-> (m * khz) \div PllStep]
DotUsable(khz) == {s \in {DotTried(m, khz) : m \in 6..127} : s.n \in 9..127}

LEMMA DotRounded ==
  ASSUME NEW khz \in Nat, NEW m \in Nat
  PROVE  /\ DotTried(m, khz).m = m
         /\ DotTried(m, khz).n \in Nat
         /\ PllStep * DotTried(m, khz).n <= m * khz
         /\ m * khz < PllStep * (DotTried(m, khz).n + 1)
         /\ \A c \in Nat : (c <= DotTried(m, khz).n) <=> (PllStep * c <= m * khz)
<1>. USE DEF PllStep
<1>1. m * khz \in Nat /\ DotTried(m, khz).n = (m * khz) \div PllStep /\ DotTried(m, khz).m = m
  BY DEF DotTried
<1>. QED
  BY <1>1, Division, DivisionUnder

LEMMA DotLargest ==
  ASSUME NEW khz \in Nat, NEW m \in Nat, NEW c \in Nat, PllStep * c <= m * khz
  PROVE  c <= DotTried(m, khz).n
BY DotRounded, Zenon

LEMMA DotUsableSlow ==
  ASSUME NEW khz \in Nat, NEW s \in DotUsable(khz)
  PROVE  s \in DotSettings /\ DotSlowEnough(s, khz)
<1>. USE DEF PllStep
<1>1. PICK m \in 6..127 : s = DotTried(m, khz)
  BY DEF DotUsable
<1>2. s.n \in 9..127 /\ s.m = m /\ PllStep * s.n <= m * khz
  BY <1>1, DotRounded DEF DotUsable
<1>3. s = [m |-> s.m, n |-> s.n]
  BY <1>1 DEF DotTried
<1>. QED
  BY <1>2, <1>3 DEF DotSettings, DotSlowEnough

LEMMA DotClockNat ==
  ASSUME NEW khz \in Nat, NEW s \in DotSettings, DotSlowEnough(s, khz)
  PROVE  DotClock(s) \in Nat /\ DotClock(s) <= khz
<1>. USE DEF PllStep
<1>. DEFINE c == DotClock(s)
<1>1. s.m \in Nat \ {0} /\ s.n \in Nat /\ PllStep * s.n \in Nat /\ PllStep * s.n <= s.m * khz
  BY DEF DotSettings, DotSlowEnough
<1>2. c \in Nat /\ s.m * c <= PllStep * s.n
  <2>1. c = (PllStep * s.n) \div s.m
    BY DEF DotClock
  <2>. DEFINE m == s.m
              x == PllStep * s.n
  <2>2. m \in Nat \ {0} /\ x \in Nat /\ c = x \div m
    BY <1>1, <2>1
  <2>. HIDE DEF c, m, x
  <2>3. c \in Nat /\ m * c <= x
    BY <2>2, Division
  <2>. QED
    BY <2>3 DEF m, x
<1>. HIDE DEF c
<1>3. s.m * c <= s.m * khz /\ s.m * c \in Nat /\ s.m * khz \in Nat
  BY <1>1, <1>2
<1>4. c <= khz
  BY <1>1, <1>2, <1>3, Cancel
<1>. QED
  BY <1>2, <1>4 DEF c

LEMMA DotInReach ==
  ASSUME NEW khz \in Nat, NEW m \in Nat, m * khz < DotLimit
  PROVE  DotTried(m, khz).n \in Nat /\ DotTried(m, khz).n <= 127
<1>. USE DEF PllStep
<1>. DEFINE n == DotTried(m, khz).n
            x == m * khz
<1>0. x \in Nat
  OBVIOUS
<1>1. n \in Nat /\ PllStep * n <= x
  <2>. HIDE DEF PllStep
  <2>. QED
    BY DotRounded, Zenon
<1>2. x < DotLimit
  BY DEF DotLimit, PllStep
<1>. HIDE DEF n, x
<1>3. n <= 127
  BY <1>0, <1>1, <1>2 DEF DotLimit, PllStep
<1>. QED
  BY <1>1, <1>3 DEF n

LEMMA DotTriedBefore ==
  ASSUME NEW khz \in Nat, NEW s \in DotSettings, DotSlowEnough(s, khz),
         NEW m \in 6..127, m <= s.m, NEW u, u = DotTried(m, khz),
         u.n \in 9..127, s.n * m <= u.n * s.m
  PROVE  u \in DotUsable(khz) /\ DotBefore(u, s)
<1>1. u.m = m
  BY DEF DotTried
<1>2. u \in DotUsable(khz)
  BY DEF DotUsable
<1>3. s.n \in Nat /\ s.m \in Nat \ {0} /\ u.n \in Nat /\ u.m \in Nat \ {0}
  BY <1>1 DEF DotSettings
<1>4. (PllStep * s.n) \div s.m <= (PllStep * u.n) \div u.m
  <2>1. s.n * u.m <= u.n * s.m
    BY <1>1
  <2>. QED
    BY <1>3, <2>1, Cross, Zenon
<1>5. DotClock(s) <= DotClock(u)
  BY <1>4 DEF DotClock
<1>6. DotClock(s) \in Int /\ DotClock(u) \in Int
  BY <1>2, DotUsableSlow, DotClockNat
<1>. QED
  BY <1>1, <1>2, <1>5, <1>6 DEF DotBefore

LEMMA DotReached ==
  ASSUME NEW khz \in Nat, 6 * khz < DotLimit,
         NEW s \in DotSettings, DotSlowEnough(s, khz)
  PROVE  \E u \in DotUsable(khz) : DotBefore(u, s)
<1>1. s.m \in 6..127 /\ s.n \in 9..127 /\ PllStep * s.n <= s.m * khz
  BY DEF DotSettings, DotSlowEnough
<1>2. CASE s.m * khz < DotLimit
  <2>. DEFINE u == DotTried(s.m, khz)
  <2>0. s.m \in Nat /\ s.n \in Nat
    BY <1>1
  <2>1. u.n \in Nat /\ s.n <= u.n /\ u.n <= 127
    <3>1. u.n \in Nat /\ u.n <= 127
      BY <1>2, <2>0, DotInReach, Zenon
    <3>2. s.n <= u.n
      BY <1>1, <2>0, DotLargest, Zenon
    <3>. QED
      BY <3>1, <3>2
  <2>. HIDE DEF u
  <2>2. u.n \in 9..127
    BY <1>1, <2>1
  <2>3. s.n * s.m <= u.n * s.m
    BY <2>0, <2>1, Scale
  <2>4. u = DotTried(s.m, khz) /\ s.m <= s.m
    BY <2>0 DEF u
  <2>5. u \in DotUsable(khz) /\ DotBefore(u, s)
    BY <1>1, <2>2, <2>3, <2>4, DotTriedBefore, Zenon
  <2>. QED
    BY <2>5
<1>3. CASE ~ (s.m * khz < DotLimit)
  <2>. DEFINE Out == {m \in 6..127 : ~ (m * khz < DotLimit)}
  <2>1. s.m \in Out
    BY <1>1, <1>3
  <2>2. Out \in SUBSET Nat /\ Out # {}
    BY <2>1
  <2>3. PICK q \in Out : \A y \in Out : q <= y
    <3>. HIDE DEF Out
    <3>. QED
      BY <2>2, Smallest
  <2>4. q \in 6..127 /\ q # 6 /\ ~ (q * khz < DotLimit) /\ q <= s.m
    BY <2>1, <2>3
  <2>. DEFINE p == q - 1
              u == DotTried(p, khz)
              n == u.n
  <2>5. p \in 6..127 /\ p + 1 = q /\ p <= s.m /\ ~ (q <= p)
    BY <1>1, <2>4
  <2>. HIDE DEF p
  <2>6. p * khz < DotLimit
    <3>1. p \notin Out
      <4>. HIDE DEF Out
      <4>. QED
        BY <2>3, <2>5
    <3>. QED
      BY <2>5, <3>1
  <2>7. n \in Nat /\ n <= 127 /\ p * khz < PllStep * (n + 1)
    <3>1. p \in Nat
      BY <2>5
    <3>2. n \in Nat /\ n <= 127
      BY <2>6, <3>1, DotInReach, Zenon
    <3>3. p * khz < PllStep * (n + 1)
      BY <3>1, DotRounded, Zenon
    <3>. QED
      BY <3>2, <3>3
  <2>. HIDE DEF n, u
  <2>8. khz * (p + 1) >= DotLimit
    <3>1. q * khz = khz * (p + 1) /\ q * khz \in Nat
      BY <2>4, <2>5
    <3>. QED
      BY <2>4, <3>1 DEF DotLimit, PllStep
  <2>9. 127 * p <= n * (p + 1)
    <3>1. p \in Nat \ {0}
      BY <2>5
    <3>. QED
      BY <2>7, <2>8, <3>1, LastWithinReach, Zenon
  <2>10. n >= 9
    <3>1. ASSUME n <= 8 PROVE FALSE
      <4>1. n * (p + 1) <= 8 * (p + 1)
        BY <2>5, <2>7, <3>1, Scale
      <4>. QED
        BY <2>5, <2>7, <2>9, <4>1
    <3>. QED
      BY <2>7, <3>1
  <2>11. s.n * p <= n * s.m
    <3>1. s.n * p <= 127 * p
      BY <1>1, <2>5, Scale
    <3>2. n * (p + 1) <= n * s.m
      BY <1>1, <2>4, <2>5, <2>7, Scale
    <3>3. s.n * p \in Nat /\ n * s.m \in Nat /\ n * (p + 1) \in Nat
      BY <1>1, <2>5, <2>7
    <3>. QED
      BY <2>5, <2>9, <3>1, <3>2, <3>3
  <2>12. u = DotTried(p, khz) /\ u.n \in 9..127 /\ s.n * p <= u.n * s.m
    BY <2>7, <2>10, <2>11 DEF n, u
  <2>13. u \in DotUsable(khz) /\ DotBefore(u, s)
    BY <2>5, <2>12, DotTriedBefore, Zenon
  <2>. QED
    BY <2>13
<1>. QED
  BY <1>2, <1>3

LEMMA DotBest ==
  ASSUME NEW khz \in Nat, DotUsable(khz) # {}
  PROVE  \E s \in DotUsable(khz) : \A t \in DotUsable(khz) : DotBefore(s, t)
<1>. DEFINE U == DotUsable(khz)
            Gaps == {khz - DotClock(s) : s \in U}
<1>1. \A s \in U : DotClock(s) \in Nat /\ DotClock(s) <= khz /\ s.m \in Nat
  BY DotUsableSlow, DotClockNat DEF DotSettings
<1>2. Gaps \in SUBSET Nat /\ Gaps # {}
  BY <1>1
<1>3. PICK d \in Gaps : \A y \in Gaps : d <= y
  BY <1>2, Smallest
<1>. DEFINE Ms == {m \in Nat : \E s \in U : s.m = m /\ khz - DotClock(s) = d}
<1>4. Ms \in SUBSET Nat /\ Ms # {}
  BY <1>1, <1>3
<1>5. PICK m \in Ms : \A y \in Ms : m <= y
  BY <1>4, Smallest
<1>6. PICK s \in U : s.m = m /\ khz - DotClock(s) = d
  BY <1>5
<1>7. ASSUME NEW t \in U PROVE DotBefore(s, t)
  <2>1. khz - DotClock(t) \in Gaps
    OBVIOUS
  <2>2. khz - DotClock(s) <= khz - DotClock(t)
    BY <1>3, <1>6, <2>1
  <2>3. DotClock(t) <= DotClock(s)
    BY <1>1, <2>2
  <2>4. CASE DotClock(s) = DotClock(t)
    <3>1. t.m \in Ms
      BY <1>1, <1>6, <2>4
    <3>. QED
      BY <1>5, <1>6, <2>4, <3>1 DEF DotBefore
  <2>. QED
    BY <1>1, <2>3, <2>4 DEF DotBefore
<1>. QED
  BY <1>7

LEMMA DotChosen ==
  ASSUME NEW khz \in Nat \ {0}
  PROVE  LET slow == {s \in DotSettings : DotSlowEnough(s, khz)}
             set  == DotSetting(khz)
         IN  IF slow = {} \/ 6 * khz >= PllStep * 128 THEN set = Refused
             ELSE /\ set \in slow
                  /\ \A s \in slow : \/ DotClock(s) < DotClock(set)
                                     \/ DotClock(s) = DotClock(set) /\ set.m <= s.m
<1>. DEFINE slow == {s \in DotSettings : DotSlowEnough(s, khz)}
            U    == DotUsable(khz)
            set  == DotSetting(khz)
<1>1. set = IF U = {} THEN Refused
            ELSE CHOOSE s \in U : \A t \in U : DotBefore(s, t)
  BY DEF DotSetting, DotUsable, DotTried, DotBefore
<1>2. \A s \in U : s \in slow
  BY DotUsableSlow
<1>3. ASSUME 6 * khz >= DotLimit PROVE U = {}
  <2>1. ASSUME NEW m \in 6..127 PROVE DotTried(m, khz).n \notin 9..127
    <3>1. 6 * khz <= m * khz
      <4>1. m \in Nat /\ 6 <= m
        OBVIOUS
      <4>. QED
        BY <4>1, Scale
    <3>2. PllStep * 128 <= m * khz
      BY <1>3, <3>1 DEF DotLimit, PllStep
    <3>3. 128 <= DotTried(m, khz).n
      <4>1. m \in Nat /\ 128 \in Nat
        OBVIOUS
      <4>. QED
        BY <3>2, <4>1, DotLargest, Zenon
    <3>. QED
      BY <3>3
  <2>. QED
    BY <2>1 DEF DotUsable
<1>. HIDE DEF set
<1>4. CASE slow = {} \/ 6 * khz >= PllStep * 128
  <2>1. U = {}
    BY <1>2, <1>3, <1>4 DEF DotLimit, PllStep
  <2>. QED
    BY <1>1, <1>4, <2>1 DEF set
<1>5. CASE ~ (slow = {} \/ 6 * khz >= PllStep * 128)
  <2>1. 6 * khz < DotLimit
    BY <1>5 DEF DotLimit, PllStep
  <2>2. \A s \in slow : \E u \in U : DotBefore(u, s)
    BY <2>1, DotReached
  <2>3. U # {}
    BY <1>5, <2>2
  <2>4. set \in U /\ \A t \in U : DotBefore(set, t)
    BY <1>1, <2>3, DotBest
  <2>5. ASSUME NEW s \in slow
        PROVE  \/ DotClock(s) < DotClock(set)
               \/ DotClock(s) = DotClock(set) /\ set.m <= s.m
    <3>1. PICK u \in U : DotBefore(u, s)
      BY <2>2
    <3>2. DotBefore(set, u)
      BY <2>4
    <3>3. \A x \in slow : DotClock(x) \in Nat /\ x.m \in Nat
      BY DotClockNat DEF DotSettings
    <3>4. set \in slow /\ u \in slow
      BY <1>2, <2>4
    <3>. QED
      BY <3>1, <3>2, <3>3, <3>4 DEF DotBefore
  <2>. QED
    BY <1>2, <1>5, <2>4, <2>5 DEF set
<1>. QED
  BY <1>4, <1>5

-----------------------------------------------------------------------------
(* Every clock is what its driver was asked for, as near as the settings   *)
(* of the hardware come: the card and the panel from below                 *)
(* (mmc_set_mod_clk, sunxi_lcdc_pll_set), the SPI clock within twice       *)
(* (sunxi_spi_set_speed).                                                  *)
THEOREM RatesSafe == RatesSpec => []RatesKept
<1>1. RatesInit => RatesKept
  BY DEF RatesInit, RatesKept, MmcNotFaster, DotNotFaster, SpiWithinTwice
<1>2. ASSUME RatesKept, [RatesNext]_rateVars
      PROVE  RatesKept'
  <2>1. CASE SetMmc
    <3>1. PICK hz \in MmcAsks : rate' = [of |-> "mmc", ask |-> hz, set |-> MmcSetting(hz)]
      BY <2>1 DEF SetMmc
    <3>2. hz \in Nat \ {0}
      BY RatesAssumption
    <3>3. rate'.of = "mmc" /\ rate'.ask = hz /\ rate'.set = MmcSetting(hz)
      BY <3>1
    <3>4. MmcNotFaster'
      BY <3>2, <3>3, MmcChosen DEF MmcNotFaster
    <3>. QED
      BY <3>3, <3>4 DEF RatesKept, DotNotFaster, SpiWithinTwice
  <2>2. CASE SetDot
    <3>1. PICK khz \in DotAsks : rate' = [of |-> "dot", ask |-> khz, set |-> DotSetting(khz)]
      BY <2>2 DEF SetDot
    <3>2. khz \in Nat \ {0}
      BY RatesAssumption
    <3>3. rate'.of = "dot" /\ rate'.ask = khz /\ rate'.set = DotSetting(khz)
      BY <3>1
    <3>4. DotNotFaster'
      BY <3>2, <3>3, DotChosen DEF DotNotFaster
    <3>. QED
      BY <3>3, <3>4 DEF RatesKept, MmcNotFaster, SpiWithinTwice
  <2>3. CASE SetSpi
    <3>1. PICK hz \in SpiAsks : rate' = [of |-> "spi", ask |-> hz, set |-> SpiSetting(hz)]
      BY <2>3 DEF SetSpi
    <3>2. hz \in Nat \ {0}
      BY RatesAssumption
    <3>3. rate'.of = "spi" /\ rate'.ask = hz /\ rate'.set = SpiSetting(hz)
      BY <3>1
    <3>4. SpiWithinTwice'
      BY <3>2, <3>3, SpiChosen DEF SpiWithinTwice
    <3>. QED
      BY <3>3, <3>4 DEF RatesKept, MmcNotFaster, DotNotFaster
  <2>4. CASE UNCHANGED rateVars
    BY <1>2, <2>4 DEF rateVars, RatesKept, MmcNotFaster, DotNotFaster, SpiWithinTwice
  <2>. QED
    BY <1>2, <2>1, <2>2, <2>3, <2>4 DEF RatesNext
<1>. QED
  BY <1>1, <1>2, PTL DEF RatesSpec
=============================================================================
