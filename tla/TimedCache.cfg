SPECIFICATION FairSpec
CONSTANTS
    t1 = t1
    t2 = t2
    nvda = nvda
    msft = msft
    Thread <- Threads
    Key <- Tickers
    TTL = 1
    Attempts = 2
    Backoff = 1
    Horizon = 2
    None = None
INVARIANT RefreshSeesCurrentEntry
PROPERTIES NeverGoesBack KeepsContract EveryFetchReturns
