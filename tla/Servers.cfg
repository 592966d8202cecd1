CONSTANTS
    Servers = {a}
    None = None
    Searches = {"all", "none"}
    Matches <- AllOrNone
    Moves <- PowerMoves
    MaxActions = 2
SPECIFICATION LiveSpec
INVARIANT TypeOK
PROPERTY OptimismIsSound
PROPERTY SearchIsAnswered
PROPERTY ListSettles
