SPECIFICATION FairSpec
CONSTANTS
    c1 = c1
    c2 = c2
    tsla = tsla
    f = f
    gm = gm
    None = None
    Caller = {c1, c2}
    Site <- Sites
    Arg = {0, 1, 2}
    Settings = 0
    MaxSize <- OneEach
    MaxClears <- StoreOnce
    Ticker = {tsla, f, gm}
    Peers <- Autos
    Argument = {"tsla ", "NVDA.US"}
    Resolve <- Named
    TTL = 1
    MaxClock = 2
    MaxCalls = 1
INVARIANTS MadeAgainOnlyIfDropped CardsAreHonest OneFigurePerWindow
PROPERTY EveryCallEnds
CHECK_DEADLOCK FALSE
