CONSTANTS
    Token = {k1, k2}
    None = None
    Task = {t1}
    UiTask = {t1}
    Status = Status
    SignIn = SignIn
    SignOut = SignOut
    Free = Free
    Env = {"revoke", "lose_twice", "load", "clear", "crash"}
    MaxCrashes = 1
SPECIFICATION LiveSpec
INVARIANT LocksHeldByWorkers
INVARIANT NoStaleRefresh
PROPERTY CallsFinish
CHECK_DEADLOCK FALSE
