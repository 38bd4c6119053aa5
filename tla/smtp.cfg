SPECIFICATION FairSpec
CONSTANTS
    Addrs <- MCAddrs
    Batches <- MCBatches
    Bad = {"nobody"}
    Securities = {"plain", "starttls", "tls"}
    MaxLines = 2
    Faults = {"refuse", "close"}
INVARIANTS ArrivesWhole OutcomeIsTrue LoginIsCovered
CHECK_DEADLOCK FALSE
