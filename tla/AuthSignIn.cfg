CONSTANTS
    Token = {k1, k2, k3}
    None = None
    Task = {t1}
    UiTask = {t1}
    Status = Status
    SignIn = SignIn
    SignOut = SignOut
    Free = Free
    Env = {"sign_in", "mfa"}
    MaxCrashes = 0
SPECIFICATION Spec
SYMMETRY Symmetry
INVARIANT MemoryNeverSpent
