SPECIFICATION Spec
CONSTANTS
    n1 = n1  n2 = n2
    g0 = g0  g1 = g1  g2 = g2  a = a  b = b  c = c  d = d  m = m  f3 = f3  f4 = f4  fork = fork
    None = None
    Peer <- MCPeer
    Container <- MCContainer
    Parent <- MCParent
    Height <- MCHeight
    Chain <- MCChain
    Mismatched = {m}
    AlphaPreference = 2
    AlphaConfidence = 2
    Resumes <- MCResumes
    HeaderBackfill = 1
    Reports <- MCReports
    MaxAnswer = 2
    MaxNoise = 2
    Req = {1, 2}
    ConcurrentRepolls = 2
    Samples <- MCSamples
    Answers <- MCAnswers
INVARIANTS GapExecuted  PollsAccounted KnownIsLive ParkedOnUnknown
PROPERTY GoesLive
CHECK_DEADLOCK FALSE
