SPECIFICATION FairLoadSpec
CONSTANTS
    Accounts = {0, 1, 2, 3}
    Segs = {0, 1}
    SegOf <- MCSegOf
    NoCode = NoCode
    c1 = c1
    c2 = c2
    CodeOf <- MCCodeOf
    Stored = {0, 3}
    Sizes = {1, 3}
    ChanCap = 2
    MaxRuns = 3
    MaxFails = 1
INVARIANTS ProgressBehindRows WatermarkSound StorageQueued ClaimsKept 
PROPERTY Completes
CHECK_DEADLOCK FALSE
