SPECIFICATION CacheSpec
CONSTANTS
    w1 = w1
    w2 = w2
    w3 = w3
    p1 = p1
    p2 = p2
    Worker = {w1, w2, w3}
    Process = {p1, p2}
    ProcessOf <- MixedProcesses
    Key = {k1}
    Value = {v1, v2}
    MaxLookups = 2
    None = None
SYMMETRY CellSymmetry
INVARIANTS ServedWasPaidFor PaidIsReturned
CHECK_DEADLOCK FALSE
