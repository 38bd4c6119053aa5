SPECIFICATION FairSpec
CONSTANTS
    Accounts = {a, b}
    Known = {a}
    Folders = 2
    Stored = {1, 2}
    MaxTasks = 5
    MaxTurns = 2
    Faults = {"list", "crash", "lost"}
INVARIANTS OneWorker LastOneFinishes
PROPERTIES AccountIsWatched
CHECK_DEADLOCK FALSE
