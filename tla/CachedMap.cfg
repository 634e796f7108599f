SPECIFICATION FairSpec
CONSTANTS
    k1 = k1
    k2 = k2
    p1 = p1
    Worker = {w1, w2}
    Process = {p1}
    ProcessOf <- PoolProcess
    Key = {k1, k2}
    Value = {v1, v2}
    MaxLookups = 3
    Items <- OwnCells
    MaxRuns = 3
    None = None
INVARIANTS PaidOnlyWhenAbsent ReturnedIsWhole
PROPERTIES KeepsStore EntriesStayWhole StageEnds
CHECK_DEADLOCK FALSE
