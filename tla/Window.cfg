CONSTANTS
    None = None
    Servers = {a, b}
    Link = {l1, l2, l3}
    MaxCalls = 2
    Calls = {1, 2}
    MaxOrphans = 1
SPECIFICATION LiveParts
INVARIANT TypesOK
INVARIANT ShowsOnlySelected
PROPERTY FocusServes
PROPERTY EachLinkOnce
PROPERTY StoreIsSound
PROPERTY BannerKeepsFaith
PROPERTY LandsSomewhere
CHECK_DEADLOCK FALSE
