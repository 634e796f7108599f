SPECIFICATION Spec
CONSTANTS
    None = None
    Odd = Odd
    Nobody = Nobody
    Sessions = {s1, s2}
    Usages <- Reported
    MaxTurns = 2
    MaxCalls = 3
    MaxRuns = 2
    MaxLines = 5
    MaxAccidents = 1
SYMMETRY Symmetry
INVARIANTS NoLineTwice SpendIsHonest
CHECK_DEADLOCK FALSE
