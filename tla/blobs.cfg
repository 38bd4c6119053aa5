SPECIFICATION BlobSpec
CONSTANTS
    m1 = m1
    m2 = m2
    m3 = m3
    source1 = source1
    source2 = source2
    picture = picture
    Contents = {source1, source2, picture}
    Messages = {m1, m2, m3}
    Parts <- SharedParts
    Nothing = nothing
    MaxCrashes = 2
    Failures = {"write", "crash", "power"}
INVARIANTS RowsHaveBlobs
PROPERTIES SafeStays
CHECK_DEADLOCK FALSE
