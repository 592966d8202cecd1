CONSTANTS
    s1 = s1
    s2 = s2
    Server = {s1}
    NameOf <- OwnNames
    Commander = {ui}
    None = None
    Page = 3
    Notices = {"crash", "online"}
    Env = {"list", "feed", "session"}
    MaxRows = 2
    MaxIncidents = 2
    MaxBoots = 2
    MaxActions = 0
SPECIFICATION LiveSpec
PROPERTY NewsArrives
INVARIANT TypeOK
INVARIANT EveryNoticeOnce
INVARIANT StateTellsOnce
