SPECIFICATION FairSpec
CONSTANTS
    MaxQuestions = 2
    MaxAgentSteps = 6
    MaxCalls = 2
    Found = {1, 2}
    Histories <- NewOrOld
INVARIANTS NumbersAreForGood PanelAgrees ReportedBeforeRun
PROPERTIES LimitFallsBetweenRounds TurnEnds
