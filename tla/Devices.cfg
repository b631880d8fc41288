\* A timer that takes a count to reload; two threads at the watchdog, with int
\* and second scaled down together; days of four ticks; every rate the drivers
\* ask for and the boundaries of the dividers; FIFOs shorter than the messages;
\* partners with and without the modes of the PHY; a buffer of one line, of two,
\* and one across two; two threads that update the panel.
SPECIFICATION DevicesSpec
CONSTANTS
    Load = 3
    Period = 4
    Rate = 2
    WdPeriod = 2
    MaxUsec = 5
    MaxTurns = 2
    Callers = {a, b}
    Args = {0, 7, 30, 300}
    Milli = 10
    IntMax = 2047
    DayLength = 4
    LastDay = 1
    MaxDay = 3
    MaxCalls = 2
    Osc = 24000000
    Pll6 = 600000000
    MmcAsks = {187499, 187500, 187501, 375000, 400000, 1411765, 1500000, 1500001, 20000000, 24000000, 24000001, 25000000, 36000000, 37500000, 37500001, 50000000, 52000000}
    DotAsks = {212, 213, 5000, 9200, 25175, 33000, 33260, 51200, 63999, 64000}
    SpiAsks = {1000, 3000, 23437, 23438, 32767, 32768, 46692, 46693, 46875, 100000, 5000000, 11999999, 12000000, 12000001, 24000000, 50000000}
    Buses = {i2c0, i2c1}
    BusLines = {sda}
    Depth = 3
    MaxLen = 5
    MaxMsgs = 3
    FifoSize = 3
    Trigger = 2
    Own = {"10HD", "10FD", "100HD", "100FD"}
    AfterReset = {"10HD", "10FD", "100HD"}
    Partners = {{"10HD", "10FD", "100HD", "100FD"}, {"10HD", "10FD"}, {"100HD"}, {"10HD"}}
    MaxPlugs = 2
    MaxStarts = 2
    Words = 4
    LineLen = 2
    Values = 2
    Ranges = {{0, 1}, {0, 1, 2, 3}, {1, 2}}
    Painters = {p, q}
    MaxFrames = 3
INVARIANTS DelayedEnough DelayedNoMore RunsAsCalled ReadAtOnce SetAsAsked RatesKept
INVARIANTS LinesAsSet MacAsNegotiated CoherentBuffers FramesWhole
PROPERTIES MessagesAnswered InputServed
CHECK_DEADLOCK FALSE
