------------------------------- MODULE RtcClock -------------------------------
(***************************************************************************)
(* The real-time clock: driver/drv_rtc.c over uboot/rtc-sun6i.c.           *)
(*                                                                         *)
(* Date and time of day are two registers of a clock that runs on while it *)
(* is read and set.  A store takes effect some time later; until then its  *)
(* bit in LOSC_CTRL is set.  rtc_mutex lets in one call at a time.         *)
(*                                                                         *)
(* A date is the number of a day, a time the number of a tick of the day.  *)
(***************************************************************************)
EXTENDS Integers

CONSTANTS DayLength,  \* ticks of a day
          LastDay,    \* the last day the clock can be set to
          MaxDay,     \* bound: the last day of a behaviour
          MaxCalls    \* bound: calls in a behaviour

ASSUME RtcAssumption ==
    /\ DayLength \in Nat \ {0}
    /\ LastDay \in Nat /\ MaxDay \in Nat /\ MaxCalls \in Nat /\ LastDay <= MaxDay

VARIABLES rtcDay, rtcTime, \* the registers YMD and HMS
          rtcStore,        \* the stores that have not taken effect
          rtcPc,           \* where the caller is
          rtcArg,          \* date and time to set, or read so far
          rtcCalls,        \* history: calls so far
          rtcTrue,         \* history: what a clock would show that is set at once
          rtcShown,        \* history: what the registers showed during a reading
          rtcMidnight      \* history: a day ended between the two stores

rtcVars == <<rtcDay, rtcTime, rtcStore, rtcPc, rtcArg, rtcCalls, rtcTrue, rtcShown, rtcMidnight>>

Time == 0..(DayLength - 1)
Ticks(day, time) == day * DayLength + time
Pair(day, time) == [day |-> day, time |-> time]

RtcInit ==
    /\ rtcDay = 0 /\ rtcTime \in Time
    /\ rtcStore = {} /\ rtcPc = "idle" /\ rtcArg = Pair(0, 0) /\ rtcCalls = 0
    /\ rtcTrue = rtcTime /\ rtcShown = {} /\ rtcMidnight = 0

-----------------------------------------------------------------------------
(* The clock.                                                              *)

InReading == rtcPc \in {"time", "date2", "time2"}

\* The registers become day and time; a caller that reads may see them.
Show(day, time) ==
    /\ rtcDay' = day /\ rtcTime' = time
    /\ rtcShown' = IF InReading THEN rtcShown \cup {Pair(day, time)} ELSE rtcShown

Tick ==
    /\ rtcTime < DayLength - 1 \/ rtcDay < MaxDay
    /\ IF rtcTime < DayLength - 1 THEN Show(rtcDay, rtcTime + 1) ELSE Show(rtcDay + 1, 0)
    /\ rtcTrue' = rtcTrue + 1
    /\ rtcMidnight' = IF rtcTime = DayLength - 1 /\ (rtcPc = "hms" \/ rtcStore # {})
                      THEN 1 ELSE rtcMidnight
    /\ UNCHANGED <<rtcStore, rtcPc, rtcArg, rtcCalls>>

\* A store takes effect, also after the call that made it gave up.
StoreTime ==
    /\ \E s \in rtcStore : /\ s.reg = "HMS"
                           /\ Show(rtcDay, s.value)
                           /\ rtcStore' = rtcStore \ {s}
    /\ rtcTrue' = Ticks(IF rtcPc = "hms" THEN rtcArg.day ELSE rtcDay, rtcTime')
    /\ rtcMidnight' = 0
    /\ UNCHANGED <<rtcPc, rtcArg, rtcCalls>>

StoreDate ==
    /\ \E s \in rtcStore : /\ s.reg = "YMD"
                           /\ Show(s.value, rtcTime)
                           /\ rtcStore' = rtcStore \ {s}
    /\ rtcTrue' = IF rtcPc = "ymd" THEN rtcTrue ELSE Ticks(rtcDay', rtcTime)
    /\ UNCHANGED <<rtcPc, rtcArg, rtcCalls, rtcMidnight>>

-----------------------------------------------------------------------------
(* sun6i_rtc_settime                                                       *)

Go(from, to) == rtcPc = from /\ rtcPc' = to
Clock == <<rtcDay, rtcTime, rtcStore, rtcShown>>

\* The range of years is checked first.
SetBegin ==
    /\ rtcPc = "idle" /\ rtcCalls < MaxCalls
    /\ rtcCalls' = rtcCalls + 1
    /\ \E day \in 0..(LastDay + 1), time \in Time : rtcArg' = Pair(day, time)
    /\ rtcPc' = IF rtcArg'.day > LastDay THEN "refused" ELSE "acc"
    /\ rtcTrue' = Ticks(rtcDay, rtcTime)
    /\ UNCHANGED <<rtcDay, rtcTime, rtcStore, rtcShown, rtcMidnight>>

\* sun6i_rtc_wait for every bit, then the store of the time ...
SetTime ==
    /\ Go("acc", "hms") /\ rtcStore = {}
    /\ rtcStore' = {[reg |-> "HMS", value |-> rtcArg.time]}
    /\ UNCHANGED <<rtcDay, rtcTime, rtcShown, rtcArg, rtcCalls, rtcTrue, rtcMidnight>>

\* Fault: the date is stored while the time is on its way.
SetDateHasty ==
    /\ Go("hms", "ymd")
    /\ rtcStore' = rtcStore \cup {[reg |-> "YMD", value |-> rtcArg.day]}
    /\ UNCHANGED <<rtcDay, rtcTime, rtcShown, rtcArg, rtcCalls, rtcTrue, rtcMidnight>>

\* ... for its bit, then the store of the date ...
SetDate ==
    /\ Go("hms", "ymd") /\ \A s \in rtcStore : s.reg # "HMS"
    /\ rtcStore' = {[reg |-> "YMD", value |-> rtcArg.day]}
    /\ UNCHANGED <<rtcDay, rtcTime, rtcShown, rtcArg, rtcCalls, rtcTrue, rtcMidnight>>

\* ... and for the bit of the date.
SetDone ==
    /\ Go("ymd", "set") /\ \A s \in rtcStore : s.reg # "YMD"
    /\ UNCHANGED <<Clock, rtcArg, rtcCalls, rtcTrue, rtcMidnight>>

\* -EBUSY: nothing was stored.  -ETIMEDOUT: a store may still take effect.
WaitTimeout ==
    /\ rtcStore # {}
    /\ Go("acc", "refused") \/ Go("hms", "failed") \/ Go("ymd", "failed")
    /\ UNCHANGED <<Clock, rtcArg, rtcCalls, rtcTrue, rtcMidnight>>

-----------------------------------------------------------------------------
(* sun6i_rtc_gettime: both registers are read, and both again.             *)

GetDate ==
    /\ Go("idle", "time") /\ rtcCalls < MaxCalls
    /\ rtcCalls' = rtcCalls + 1
    /\ rtcArg' = Pair(rtcDay, 0)
    /\ rtcShown' = {Pair(rtcDay, rtcTime)}
    /\ UNCHANGED <<rtcDay, rtcTime, rtcStore, rtcTrue, rtcMidnight>>

GetTime ==
    /\ Go("time", "date2")
    /\ rtcArg' = [rtcArg EXCEPT !.time = rtcTime]
    /\ UNCHANGED <<Clock, rtcCalls, rtcTrue, rtcMidnight>>

Again(same, to) ==
    /\ rtcPc' = IF same THEN to ELSE "date"
    /\ UNCHANGED <<Clock, rtcArg, rtcCalls, rtcTrue, rtcMidnight>>

\* Fault: the date is not compared.
DateStableNot == TRUE

DateStable == rtcArg.day = rtcDay

GetDateAgain == rtcPc = "date2" /\ Again(DateStable, "time2")
GetTimeAgain == rtcPc = "time2" /\ Again(rtcArg.time = rtcTime, "got")

GetLoop ==
    /\ Go("date", "time")
    /\ rtcArg' = Pair(rtcDay, 0)
    /\ rtcShown' = {Pair(rtcDay, rtcTime)}
    /\ UNCHANGED <<rtcDay, rtcTime, rtcStore, rtcCalls, rtcTrue, rtcMidnight>>

\* rtc_mutex is released; rt_rtc_control drops the result.
Release ==
    /\ rtcPc \in {"set", "refused", "failed", "got"}
    /\ rtcPc' = "idle" /\ rtcShown' = {} /\ rtcArg' = [rtcArg EXCEPT !.time = 0]
    /\ UNCHANGED <<rtcDay, rtcTime, rtcStore, rtcCalls, rtcTrue, rtcMidnight>>

RtcSet == SetBegin \/ SetTime \/ SetDate \/ SetDone \/ WaitTimeout
RtcGet == GetDate \/ GetTime \/ GetDateAgain \/ GetTimeAgain \/ GetLoop
RtcNext == Tick \/ StoreTime \/ StoreDate \/ RtcSet \/ RtcGet \/ Release

RtcSpec == RtcInit /\ [][RtcNext]_rtcVars

-----------------------------------------------------------------------------
(* Properties *)

RtcTypeOK ==
    /\ rtcDay \in Nat /\ rtcTime \in Time
    /\ rtcStore \subseteq [reg : {"HMS", "YMD"}, value : Nat]
    /\ rtcArg \in [day : Nat, time : Time] /\ rtcTrue \in Nat /\ rtcCalls \in Nat
    /\ rtcShown \subseteq [day : Nat, time : Time] /\ rtcMidnight \in {0, 1}

\* Date and time that a reading returns were shown together at one moment of
\* the call: never the date before midnight with the time after it, also not
\* while the store of a call that gave up takes effect -- if the reading lasts
\* less than a day, so that some time of the day is not shown.
LessThanADay == Time \ {shown.time : shown \in rtcShown} # {}

ReadAtOnce == rtcPc = "got" /\ LessThanADay => rtcArg \in rtcShown

\* After a call that returned 0 the clock shows what a clock would show that
\* was set to date and time at once, unless a day ended between the two stores;
\* after -EINVAL and -EBUSY it is as if nobody had called.
SetAsAsked ==
    \/ rtcPc = "set" /\ rtcMidnight = 0
    \/ rtcPc = "refused"
    => Ticks(rtcDay, rtcTime) = rtcTrue
=============================================================================
