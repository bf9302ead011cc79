SPECIFICATION FairSpec
CONSTANTS
    a1 = a1  s1 = s1  v = v  c0 = c0  c1 = c1  c2 = c2  c3 = c3  c5 = c5
    g = g  x1 = x1  x2 = x2  x3 = x3  y1 = y1  y2 = y2  z2 = z2
    Zero = Zero  NoAcct = NoAcct  None = None  Fail = Fail
    Addr <- MCAddr  Slot <- MCSlot  Acct <- MCAcct  Val <- MCVal
    Block <- MCBlock  Root = g  Parent <- MCParent  Height <- MCHeight
    Chain <- MCChain  WorldOf <- MCWorldOf  Diff <- MCDiff  Run <- MCRun
    MaxCrash = 2  MaxLog = 5
INVARIANTS NoHalt ExecutedOnParent OnlyAcceptedPersists
    MirrorsAgree 
PROPERTIES WatermarkStepsUp ComesBack
CHECK_DEADLOCK FALSE
