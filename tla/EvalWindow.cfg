SPECIFICATION Spec
CONSTANTS
    None = None
    r1 = r1
    r2 = r2
    Row = {r1}
    s1 = s1
    s2 = s2
    Sink = {s1}
    y1 = y1
    Reply = {y1}
    Arms <- MCArms
    Plans <- MCPlans
    Judged <- MCJudged
    Invocation <- MCWindowInvocation
    MaxRuns = 2
    MaxEdits = 0
    MaxOthers = 1
    OthersBeside = FALSE
    RechunkBeside = FALSE
INVARIANTS
    WindowIsOneRun
CHECK_DEADLOCK FALSE
