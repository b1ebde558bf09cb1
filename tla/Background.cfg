SPECIFICATION BackgroundSpec
CONSTANTS
    Parts = {"restart", "parking", "providers"}
    MaxAttempts = 2
    MaxDeployments = 3
    MaxLoops = 2
    MaxToggles = 1
    w1 = w1
    w2 = w2
    w3 = w3
    w4 = w4
    m1 = m1
    m2 = m2
    Waiters = {w1, w2, w3, w4}
    Models = {m1, m2}
    ModelOf <- MCModelOf
    Large = {}
    MaxWaiters = 3
    MaxPerModel = 2
    Provs = {"p1"}
    NeedsKey = {"p1"}
    Refs = {"r1", "own"}
    MintedRef <- MCRef
    Sends = {"s1"}
    Budget = 1
    Retries = 1
    MaxTurns = 2
INVARIANT LoopBooks
PROPERTIES WaitsEnd LotPromise ComesBack
CHECK_DEADLOCK FALSE
