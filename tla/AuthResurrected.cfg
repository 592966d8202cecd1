CONSTANTS
    Token = {k1, k2, k3}
    None = None
    Task = {t1}
    UiTask = {}
    Status = Status
    SignIn = SignIn
    SignOut = SignOut
    Free = Free
    Env = {"offline_sign_out"}
    MaxCrashes = 0
SPECIFICATION Spec
PROPERTY SignOutIsFinal
