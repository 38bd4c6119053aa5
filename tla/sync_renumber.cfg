SPECIFICATION FairSpec
CONSTANTS
    Mails = {m1, m2}
    NoMail = NoMail
    WithFiles = {m1}
    MaxUid = 3
    MaxEpoch = 2
    Workers = {}
    Requests = {r1}
    ListLimit = 2
    MaxRestarts = 0
    Faults = {"delete"}
INVARIANTS CacheMatchesServer
PROPERTIES CatchesUp
CHECK_DEADLOCK FALSE
