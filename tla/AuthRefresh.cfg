CONSTANTS
    Token = {k1, k2, k3}
    None = None
    Task = {t1, t2}
    UiTask = {}
    Status = Status
    SignIn = SignIn
    SignOut = SignOut
    Free = Free
    Env = {"store", "revoke", "offline_sign_out"}
    MaxCrashes = 0
SPECIFICATION Spec
SYMMETRY Symmetry
INVARIANT TypeOK
INVARIANT NeverBurned
INVARIANT DiskIsSound
INVARIANT SingleFlight
