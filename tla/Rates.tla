-------------------------------- MODULE Rates --------------------------------
(***************************************************************************)
(* The dividers of the clocks that drivers ask for by rate: the card clock *)
(* (mmc_set_mod_clk of uboot/sunxi_mmc.c), the dot clock of the panel      *)
(* (sunxi_lcdc_pll_set of uboot/sunxi_display.c) and the SPI clock         *)
(* (sunxi_spi_set_speed of uboot/sunxi_spi.c).  Each is compared with a    *)
(* search of every setting the hardware has.                               *)
(***************************************************************************)
EXTENDS Integers

CONSTANTS Osc,      \* Hz of the oscillator
          Pll6,     \* Hz of PLL6
          MmcAsks,  \* Hz a card clock is asked for
          DotAsks,  \* kHz a dot clock is asked for
          SpiAsks   \* Hz an SPI clock is asked for

TwoTo[k \in Nat] == IF k = 0 THEN 1 ELSE 2 * TwoTo[k - 1]

\* The oscillator reaches the lowest rate of the SPI clock and fits in an int.
ASSUME RatesAssumption ==
    /\ Osc \in Nat /\ Osc >= 3000 /\ Osc < TwoTo[30]
    /\ Pll6 \in Nat \ {0}
    /\ \A asks \in {MmcAsks, DotAsks, SpiAsks} : asks \subseteq Nat \ {0}

VARIABLE rate  \* the clock set last: [of, ask, set]

rateVars == <<rate>>

Refused == [m |-> 0, n |-> 0]

CeilDiv(a, b) == (a + b - 1) \div b

-----------------------------------------------------------------------------
(* The card clock.                                                         *)

MmcParent(hz) == IF hz <= Osc THEN Osc ELSE Pll6

\* Fault: the division is rounded down.
MmcDividerDown(hz) == MmcParent(hz) \div hz
MmcDivider(hz) == CeilDiv(MmcParent(hz), hz)

\* What is left of a divider after n halvings, of which n can count three.
Halved(div) ==
    LET left[n \in 0..3] == IF n = 0 THEN div ELSE CeilDiv(left[n - 1], 2)
    IN  left

\* The divider is halved until it fits in m.
MmcSetting(hz) ==
    LET left == Halved(MmcDivider(hz))
        fits == {n \in 0..3 : left[n] <= 16}
        n    == CHOOSE k \in fits : \A j \in fits : k <= j
    IN IF fits = {} THEN Refused ELSE [m |-> left[n], n |-> n]

SetMmc ==
    \E hz \in MmcAsks : rate' = [of |-> "mmc", ask |-> hz, set |-> MmcSetting(hz)]

-----------------------------------------------------------------------------
(* The dot clock, 3 MHz * n / m, in kHz.                                   *)

PllStep == 3000

DotClock(s) == (PllStep * s.n) \div s.m

\* Every divider is tried with the multiplier that is not too fast; the loop
\* keeps the first of those that come closest.
DotSetting(khz) ==
    LET tried == {[m |-> m, n |-> (m * khz) \div PllStep] : m \in 6..127}
        usable == {s \in tried : s.n \in 9..127}
        Before(s, t) == \/ DotClock(s) > DotClock(t)
                        \/ DotClock(s) = DotClock(t) /\ s.m <= t.m
    IN IF usable = {} THEN Refused
       ELSE CHOOSE s \in usable : \A t \in usable : Before(s, t)

\* Without a setting the video PLL is turned off.
SetDot ==
    \E khz \in DotAsks : rate' = [of |-> "dot", ask |-> khz, set |-> DotSetting(khz)]

-----------------------------------------------------------------------------
(* The SPI clock: a divider of 2 * m, or a power of two.                   *)

Log2(x) == CHOOSE k \in 0..30 : TwoTo[k] <= x /\ x < 2 * TwoTo[k]

SpiSpeed(hz) == IF hz > Osc THEN Osc ELSE IF hz < 3000 THEN 3000 ELSE hz

SpiSetting(hz) ==
    LET speed == SpiSpeed(hz)
        div   == Osc \div (2 * speed)
    IN IF div <= 256 THEN [m |-> IF div > 0 THEN div ELSE 1, n |-> 1]
                     ELSE [m |-> 1, n |-> Log2(Osc) - Log2(speed)]

SetSpi ==
    \E hz \in SpiAsks : rate' = [of |-> "spi", ask |-> hz, set |-> SpiSetting(hz)]

-----------------------------------------------------------------------------

RatesInit == rate = [of |-> "none", ask |-> 0, set |-> Refused]
RatesNext == SetMmc \/ SetDot \/ SetSpi
RatesSpec == RatesInit /\ [][RatesNext]_rateVars

-----------------------------------------------------------------------------
(* Properties *)

\* The card is never clocked faster than it can be, and no setting of the
\* chosen parent is slower by less; a rate is refused exactly when all are faster.
MmcSettings == [m : 1..16, n : 0..3]
MmcFactor(s) == s.m * TwoTo[s.n]
MmcSlowEnough(s, hz) == CeilDiv(MmcParent(hz), MmcFactor(s)) <= hz

MmcNotFaster ==
    rate.of = "mmc" =>
       LET slow == {s \in MmcSettings : MmcSlowEnough(s, rate.ask)} IN
       IF slow = {} THEN rate.set = Refused
       ELSE rate.set \in slow /\ \A s \in slow : MmcFactor(rate.set) <= MmcFactor(s)

\* Nor is the panel; no setting comes closer from below, none as close has a
\* lower divider.  A rate is refused when all settings are faster, or when even
\* with the lowest divider the multiplier below it is out of reach.
DotSettings == [m : 6..127, n : 9..127]
DotSlowEnough(s, khz) == PllStep * s.n <= s.m * khz

DotNotFaster ==
    rate.of = "dot" =>
       LET slow == {s \in DotSettings : DotSlowEnough(s, rate.ask)} IN
       IF slow = {} \/ 6 * rate.ask >= PllStep * 128 THEN rate.set = Refused
       ELSE /\ rate.set \in slow
            /\ \A s \in slow : \/ DotClock(s) < DotClock(rate.set)
                               \/ DotClock(s) = DotClock(rate.set) /\ rate.set.m <= s.m

\* The SPI clock, which may be faster, is less than twice as fast as asked and
\* at least half as fast, as far as the oscillator reaches.
SpiWithinTwice ==
    rate.of = "spi" =>
       LET factor == rate.set.m * TwoTo[rate.set.n]
           speed  == SpiSpeed(rate.ask)
       IN /\ Osc \div factor < 2 * speed
          /\ 2 * CeilDiv(Osc, factor) >= speed

\* RatesKept: every clock is what its driver was asked for, as near as it gets.
RatesKept == MmcNotFaster /\ DotNotFaster /\ SpiWithinTwice

\* "Maximum SCK rate in Hz" (include/spi.h): a slave is never clocked faster
\* than the rate sunxi_spi_set_speed was asked for.
SpiNeverFaster ==
    rate.of = "spi" => CeilDiv(Osc, rate.set.m * TwoTo[rate.set.n]) <= SpiSpeed(rate.ask)
=============================================================================
