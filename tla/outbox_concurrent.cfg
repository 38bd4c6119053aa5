SPECIFICATION FairSpec
CONSTANTS
    NumMsgs = 2
    Dispatchers = {d1, d2}
    PeekLimit = 2
    MaxRetries = 2
    MaxRestarts = 1
    Kinds = {"mail", "bare"}
    Faults = {"network", "storage", "restart"}
INVARIANTS StatusIsTrue SendingHasOwner
PROPERTIES QueuedIsSettled
CHECK_DEADLOCK FALSE
