SPECIFICATION Spec
CONSTANTS
    Mails = {m1, m2}
    NoMail = NoMail
    WithFiles = {m1}
    MaxUid = 2
    MaxEpoch = 1
    Workers = {w}
    Requests = {r1}
    ListLimit = 2
    MaxRestarts = 1
    Faults = {"network", "storage", "restart"}
INVARIANTS NoSilentGap FilesAreComplete
CHECK_DEADLOCK FALSE
