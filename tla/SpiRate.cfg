SPECIFICATION RatesSpec
CONSTANTS
    Osc = 24000000
    Pll6 = 600000000
    MmcAsks = {400000}
    DotAsks = {33000}
    SpiAsks = {1000000, 5000000, 12000000, 20000000, 24000000}
INVARIANT SpiNeverFaster
CHECK_DEADLOCK FALSE
