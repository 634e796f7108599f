SPECIFICATION Spec
CONSTANTS
    short = short
    middle = middle
    long = long
    broken = broken
    Ticker = {AAPL, MSFT}
    LastYear = 2
    Text = {short, middle, long, broken}
    Size <- TextSize
    MaxSize = 3
    Good = {short, middle, long}
    MaxRuns = 3
    None = None
SYMMETRY CompanySymmetry
INVARIANTS OneHashIsWhole HandledIsExact NeverAbsent
PROPERTIES GateIsAllOrNothing
CHECK_DEADLOCK FALSE
