SPECIFICATION Spec
CONSTANTS
    Fold <- Forms
    Names <- Naming
    TickerFold <- AsTicker
    RRF_K = 60
    Depth = 2
    AlphaInverse = 20
    None = None
    Odd = Odd
    Jobs <- EveryJob
INVARIANTS VariantsAreSound FusionIsRRF TestIsExact
    PartsMakeTheWhole AbsenceIsSaid
    GateSeesThroughDisguise ClausesAnswerForThemselves PassingIsEvidence FileIsThePage DecisionsAgree
    ReadingsIgnoreInterleaving
CHECK_DEADLOCK FALSE
