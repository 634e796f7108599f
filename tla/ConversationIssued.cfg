SPECIFICATION Spec
CONSTANTS
    MaxQuestions = 2
    MaxAgentSteps = 6
    MaxCalls = 1
    Found = {1}
    Histories <- OnlyNew
INVARIANT IssuedIsKnown
