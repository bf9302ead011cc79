SPECIFICATION BotSpec
CONSTANTS
    a1 = a1  s1 = s1  u = u  v = v  c0 = c0  c1 = c1
    g = g  x1 = x1  x2 = x2  y1 = y1
    Zero = Zero  NoAcct = NoAcct  None = None  Fail = Fail
    Addr <- MCAddr  Slot <- MCSlot  Acct <- MCAcct  Val <- MCVal
    Block <- MCBlock  Root = g  Parent <- MCParent  Height <- MCHeight
    Chain <- MCChain  WorldOf <- MCWorldOf  Diff <- MCDiff  Run <- MCRun
    MaxCrash = 0  MaxLog = 2  Execs = 1
INVARIANT ServedExact
CHECK_DEADLOCK FALSE
