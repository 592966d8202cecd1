CONSTANTS
    None = None
    Texts = {"", "t"}
    Picks = {p1, p2}
    Pages = {1, 2}
    MaxWork = 3
    MaxChanges = 2
    MaxOpened = 3
    MaxSent = 2
    MaxMade = 2
    MaxTexts = 1
    Folders = {root, sub}
    Root = root
    Files = {f, g}
    MaxAsked = 3
    MaxEdits = 2
SPECIFICATION Spec
INVARIANT TypeOK
INVARIANT ShownIsAsked
INVARIANT FormsAreTrue
INVARIANT EditorIsTrue
INVARIANT SettingsAreTrue
PROPERTY ActionErrorStays
CHECK_DEADLOCK FALSE
