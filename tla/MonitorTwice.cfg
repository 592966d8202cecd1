CONSTANTS
    s1 = s1
    s2 = s2
    Server = {s1}
    NameOf <- OwnNames
    Commander = {ui}
    None = None
    Page = 3
    Notices = {"crash", "online"}
    Env = {}
    MaxRows = 3
    MaxIncidents = 2
    MaxBoots = 2
    MaxActions = 0
SPECIFICATION Spec
INVARIANT CrashToldOnce
