------------------------------- MODULE Watchdog -------------------------------
(***************************************************************************)
(* The watchdog: _wdt_control of driver/drv_wdt.c over uboot/sunxi_wdt.c,  *)
(* used by several threads at once (an application, and the shell's reboot *)
(* command of driver/board.c), which no lock keeps apart.                  *)
(*                                                                         *)
(* The mode register holds the enable bit and the code of the interval; a  *)
(* start reads and writes it twice.  The counter runs on the interval it   *)
(* was last loaded with, at a keepalive or a start.                        *)
(***************************************************************************)
EXTENDS Integers

CONSTANTS Callers,   \* the threads
          Args,      \* the seconds they ask for
          Milli,     \* milliseconds of a second
          IntMax     \* the largest int

ASSUME WatchdogAssumption ==
    /\ Args \subseteq Int
    /\ Milli \in Nat \ {0} /\ IntMax \in Nat /\ 16 * Milli <= IntMax

VARIABLES wdtMsecs,  \* param->msecs
          wdtMode,   \* the mode register: enable bit and interval code
          wdtLoaded, \* code of the interval the counter runs on
          wdtCall,   \* where every thread is, its timeout, what it read of mode
          wdtAsked,  \* history: seconds last asked for by SET_TIMEOUT
          wdtOn,     \* history: what the call that returned last did, 1 for START
          wdtStarts, \* history: timeouts of the starts since the last rest
          wdtCut     \* history: a stop fell inside one of them

wdtVars == <<wdtMsecs, wdtMode, wdtLoaded, wdtCall, wdtAsked, wdtOn, wdtStarts, wdtCut>>

\* wdt_timeout_map, by register value: the seconds of a code.  Code 0, which
\* the map does not have, is half a second.
Seconds == [code \in 0..11 |-> IF code <= 6 THEN code ELSE 2 * code - 6]

Code(seconds) == CHOOSE code \in 1..11 : Seconds[code] = seconds

\* The next second that has a code.
Rounded(timeout) ==
    IF \E code \in 1..11 : Seconds[code] = timeout THEN timeout ELSE timeout + 1

\* The product of two ints, as a two's complement machine leaves it.
Wrapped(x) == ((x + IntMax + 1) % (2 * (IntMax + 1))) - (IntMax + 1)

Clamp(x, low, high) == IF x < low THEN low ELSE IF x > high THEN high ELSE x

NoMode == [on |-> 0, code |-> 0]
Idle == [at |-> "idle", timeout |-> 0, read |-> NoMode]
AtRest == \A c \in Callers : wdtCall[c] = Idle

\* rt_hw_wdt_init: the probe stops the watchdog.
WdtInit ==
    /\ wdtMsecs = Milli /\ wdtMode = NoMode /\ wdtLoaded = 0
    /\ wdtCall = [c \in Callers |-> Idle]
    /\ wdtAsked = 1 /\ wdtOn = 0 /\ wdtStarts = {} /\ wdtCut = 0

SetTimeout(c) ==
    /\ wdtCall[c] = Idle
    /\ \E seconds \in Args :
          /\ wdtMsecs' = Clamp(Wrapped(seconds * Milli), Milli, 16 * Milli)
          /\ wdtAsked' = seconds
    /\ UNCHANGED <<wdtMode, wdtLoaded, wdtCall, wdtOn, wdtStarts, wdtCut>>

\* RT_DEVICE_CTRL_WDT_START, up to the first reading of the mode register ...
StartRead(c) ==
    /\ wdtCall[c] = Idle
    /\ LET timeout == wdtMsecs \div Milli IN
          /\ wdtCall' = [wdtCall EXCEPT ![c] =
                [at |-> "set", timeout |-> Rounded(timeout), read |-> wdtMode]]
          /\ wdtStarts' = {timeout} \cup IF AtRest THEN {} ELSE wdtStarts
    /\ wdtCut' = IF AtRest THEN 0 ELSE wdtCut
    /\ UNCHANGED <<wdtMsecs, wdtMode, wdtLoaded, wdtAsked, wdtOn>>

\* ... its first store, the keepalive of sunxi_wdt_set_timeout and the reset
\* configuration ...
StartSet(c) ==
    /\ wdtCall[c].at = "set"
    /\ wdtMode' = [on |-> wdtCall[c].read.on, code |-> Code(wdtCall[c].timeout)]
    /\ wdtCall' = [wdtCall EXCEPT ![c].at = "ping"]
    /\ UNCHANGED <<wdtMsecs, wdtLoaded, wdtAsked, wdtOn, wdtStarts, wdtCut>>

StartPing(c) ==
    /\ wdtCall[c].at = "ping"
    /\ wdtLoaded' = wdtMode.code
    /\ wdtCall' = [wdtCall EXCEPT ![c].at = "reread"]
    /\ UNCHANGED <<wdtMsecs, wdtMode, wdtAsked, wdtOn, wdtStarts, wdtCut>>

\* Fault: the second store starts from what the first reading gave.
StartRereadNot(c) ==
    /\ wdtCall[c].at = "reread"
    /\ wdtCall' = [wdtCall EXCEPT ![c].at = "enable"]
    /\ UNCHANGED <<wdtMsecs, wdtMode, wdtLoaded, wdtAsked, wdtOn, wdtStarts, wdtCut>>

\* ... the second reading and the second store.
StartReread(c) ==
    /\ wdtCall[c].at = "reread"
    /\ wdtCall' = [wdtCall EXCEPT ![c].at = "enable", ![c].read = wdtMode]
    /\ UNCHANGED <<wdtMsecs, wdtMode, wdtLoaded, wdtAsked, wdtOn, wdtStarts, wdtCut>>

StartEnable(c) ==
    /\ wdtCall[c].at = "enable"
    /\ wdtMode' = [on |-> 1, code |-> wdtCall[c].read.code]
    /\ wdtOn' = 1
    /\ wdtCall' = [wdtCall EXCEPT ![c] = Idle]
    /\ UNCHANGED <<wdtMsecs, wdtLoaded, wdtAsked, wdtStarts, wdtCut>>

Stop(c) ==
    /\ wdtCall[c] = Idle
    /\ wdtMode' = NoMode
    /\ wdtOn' = 0
    /\ wdtCut' = IF AtRest THEN wdtCut ELSE 1
    /\ UNCHANGED <<wdtMsecs, wdtLoaded, wdtCall, wdtAsked, wdtStarts>>

KeepAlive(c) ==
    /\ wdtCall[c] = Idle
    /\ wdtLoaded' = wdtMode.code
    /\ UNCHANGED <<wdtMsecs, wdtMode, wdtCall, wdtAsked, wdtOn, wdtStarts, wdtCut>>

WdtNext ==
    \E c \in Callers :
       \/ SetTimeout(c) \/ Stop(c) \/ KeepAlive(c)
       \/ StartRead(c) \/ StartSet(c) \/ StartPing(c) \/ StartReread(c) \/ StartEnable(c)

WdtSpec == WdtInit /\ [][WdtNext]_wdtVars

-----------------------------------------------------------------------------
(* Properties *)

Call == [at : {"idle", "set", "ping", "reread", "enable"}, timeout : 0..16,
         read : [on : {0, 1}, code : 0..11]]

\* Types; the timeout of a call that looked it up has a code.
WdtTypeOK ==
    /\ wdtMsecs \in Milli..(16 * Milli)
    /\ wdtMode \in [on : {0, 1}, code : 0..11] /\ wdtLoaded \in 0..11
    /\ wdtCall \in [Callers -> Call]
    /\ \A c \in Callers : wdtCall[c].at \in {"set", "ping"} =>
                             \E code \in 1..11 : Seconds[code] = wdtCall[c].timeout
    /\ wdtAsked \in Int /\ wdtOn \in {0, 1} /\ wdtStarts \subseteq 1..16 /\ wdtCut \in {0, 1}

\* Whenever no call is in progress, the watchdog runs exactly if the call that
\* returned last was a start: what a stop of another thread undid inside a
\* start is done again, and a stop with no start around it stays.
StoppedAsCalled == AtRest => wdtMode.on = wdtOn

\* And it runs on an interval that one of the starts since the last rest was
\* asked for, rounded up to a second the hardware has -- the starts mix only
\* as whole intervals -- unless a stop cleared the code inside a start: then it
\* may run on half a second.
Covers(code) == \E t \in wdtStarts : Seconds[code] \in {t, t + 1}

IntervalAsAsked == AtRest /\ wdtMode.on = 1 /\ wdtCut = 0 => Covers(wdtMode.code)

\* What was asked for is kept to the range of 1 to 16 seconds, as long as the
\* milliseconds fit in an int: longer waits than that may come out as one second.
TimeoutKept ==
    wdtAsked <= IntMax \div Milli /\ wdtAsked >= -(IntMax \div Milli)
        => wdtMsecs = Milli * Clamp(wdtAsked, 1, 16)

\* RunsAsCalled: the watchdog is on or off, and as long, as its callers said.
RunsAsCalled == StoppedAsCalled /\ IntervalAsAsked /\ TimeoutKept

=============================================================================
