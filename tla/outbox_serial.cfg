SPECIFICATION Spec
CONSTANTS
    NumMsgs = 3
    Dispatchers = {d1}
    PeekLimit = 2
    MaxRetries = 2
    MaxRestarts = 1
    Kinds = {"mail", "bare", "draft"}
    Faults = {"network", "storage", "restart"}
INVARIANTS FailuresAreBounded
PROPERTIES ImplementsMailQueue
CHECK_DEADLOCK FALSE
