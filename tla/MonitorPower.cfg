CONSTANTS
    s1 = s1
    s2 = s2
    Server = {s1}
    NameOf <- OwnNames
    Commander = {ui, tray}
    None = None
    Page = 3
    Notices = {"crash"}
    Env = {"reject", "lost_reply", "expire", "suspend", "delete", "remote"}
    MaxRows = 1
    MaxIncidents = 1
    MaxBoots = 2
    MaxActions = 2
SPECIFICATION Spec
INVARIANT MarksAreBacked
INVARIANT RecoveryToldOnce
