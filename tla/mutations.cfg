SPECIFICATION FairSpec
CONSTANTS
    NumMutations = 3
    Kinds = {"read", "unread", "swap", "move", "delete", "bare", "lost"}
    PeekLimit = 2
    MaxRetries = 3
    MaxRestarts = 1
    Settings <- MCSettings
INVARIANTS NeitherLostNorMultiplied NewestWins
PROPERTIES ChangesSettle ImplementsChangeQueue
CHECK_DEADLOCK FALSE
