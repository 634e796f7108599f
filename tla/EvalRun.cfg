SPECIFICATION Spec
CONSTANTS
    None = None
    r1 = r1
    r2 = r2
    Row = {r1, r2}
    s1 = s1
    s2 = s2
    Sink = {s1, s2}
    y1 = y1
    y2 = y2
    Reply = {y1, y2}
    Arms <- MCArms
    Plans <- MCPlans
    Judged <- MCJudged
    Invocation <- MCInvocation
    MaxRuns = 2
    MaxEdits = 1
    MaxOthers = 1
    OthersBeside = TRUE
    RechunkBeside = FALSE
SYMMETRY ReplySymmetry
INVARIANTS
    OneExperiment
    ContextsAreTheOnesNamed
    PastStaysOut
CHECK_DEADLOCK FALSE
