CONSTANTS
    BackoffMin = 1
    BackoffMax = 30
    Env = {"network", "http", "refresh", "close", "expire", "sign_out", "block", "forbid"}
    MaxFaults = 4
    MaxFrames = 2
    Servers = {a, b}
    None = none
    RingCap = 1
    Retained = 1
    MaxViews = 2
    MaxLines = 2
SPECIFICATION LiveParts
INVARIANT TypesOK
INVARIANT RefreshNeverLoops
INVARIANT BackoffTellsFailures
INVARIANT ScreenHasTheSession
INVARIANT EveryLineOnce
PROPERTY SessionLivesAndEnds
PROPERTY KeepsPromise
PROPERTY OffScreenCloses
CHECK_DEADLOCK FALSE
