SPECIFICATION Spec
CONSTANTS
    a1 = a1  a2 = a2  a3 = a3  s1 = s1  p = p  q = q  u = u  v = v
    Zero = Zero  NoAcct = NoAcct  None = None
    Addr <- MCAddr  Slot <- MCSlot  Acct <- MCAcct  Val <- MCVal
    Genesis = 1  MaxHeight = 2  Chunk = 2
    Base <- MCBase  Batches <- MCBatches
INVARIANT ReadExactOrError
