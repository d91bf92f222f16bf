SPECIFICATION FairSpec
CONSTANTS
    b1 = b1
    b2 = b2
    m1 = m1
    m2 = m2
    Requests = {r1, r2}
    Backends = {b1}
    Models = {m1}
    Workers = {w1, w2}
    Options <- AllModels
    Hosts <- OneBackend
    SlotCounts = {1}
    QueueMax = 1
    CacheHitQueueLimit = 1
    IncomingCap = 1
    MaxChanges = 1
    AllowStop = TRUE
    AllowAbortAll = TRUE
    None = None
    NoHit = NoHit
PROPERTIES EveryRequestSettles SettledOnce
\* the matcher exits and the last clients are served
CHECK_DEADLOCK FALSE
