SPECIFICATION PartsSpec
CONSTANTS
    x1 = x1  s1 = s1  v0 = v0  v1 = v1  p = p  q = q  None = None  NoAcct = NoAcct
    KeyMax = 15  Tries <- MCTries  Sizes = {2}
    SplitAfter = 1  SplitWays = 3  MaxStop = 2
    Addr = {x1}  Slot = {s1}  Norm <- MCNorm  Val = {v0, v1}  Zero = v0
    Log = {"log"}  MaxRefund = 1  Overrides <- MCOverrides  Tip = {"t1", "t2"}
    MaxJournal = 3  MaxDepth = 2
    Caller = {"c1", "c2"}  Peer = {"p1"}  Limits <- MCLimits
    IdBits = 3  MaxReq = 2  Copies = 2
    Acct = {p, q}  Genesis = 1  Origin <- MCOrigin  Batches <- MCBatches
    SuiteBlock = 2  MaxBlocks = 3
INVARIANTS StorageWhole NothingSkipped SplitCovers
    EvmIsCurrent
    AnswersItsRequest ReplyNeverWaits ClientAccounted
    SessionExact CacheExact
PROPERTIES WalkLoads JournalImplementsCopies
CHECK_DEADLOCK FALSE
