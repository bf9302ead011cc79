SPECIFICATION FairLoadSpec
CONSTANTS
    Accounts = {0, 1, 2, 3}
    Segs = {0, 1}
    SegOf <- MCSegOf
    NoCode = NoCode
    c1 = c1
    c2 = c2
    CodeOf <- MCCodeOf
    Stored = {0, 3}
    Sizes = {3}
    ChanCap = 1
    MaxRuns = 1
    MaxFails = 1
PROPERTY RunReturns
CHECK_DEADLOCK FALSE
