SPECIFICATION Spec
CONSTANTS
    b1 = b1
    b2 = b2
    m1 = m1
    m2 = m2
    Requests = {r1, r2, r3}
    Backends = {b1, b2}
    Models = {m1, m2}
    Workers = {w1, w2, w3}
    Options <- AllModels
    Hosts <- TwoModels
    SlotCounts = {1}
    QueueMax = 2
    CacheHitQueueLimit = 2
    IncomingCap = 1
    MaxChanges = 0
    AllowStop = FALSE
    AllowAbortAll = FALSE
    None = None
    NoHit = NoHit
SYMMETRY Symmetry
INVARIANTS SlotExclusion
