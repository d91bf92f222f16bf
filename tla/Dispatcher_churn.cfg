SPECIFICATION Spec
CONSTANTS
    b1 = b1
    b2 = b2
    m1 = m1
    m2 = m2
    Requests = {r1, r2}
    Backends = {b1, b2}
    Models = {m1}
    Workers = {w1, w2}
    Options <- AllModels
    Hosts <- SharedModel
    SlotCounts = {1}
    QueueMax = 2
    CacheHitQueueLimit = 1
    IncomingCap = 1
    MaxChanges = 1
    AllowStop = FALSE
    AllowAbortAll = FALSE
    None = None
    NoHit = NoHit
SYMMETRY Symmetry
INVARIANTS NoSlotLeak HeldSlotsMarked InFlightExact OneDiscoverer OneOwner
PROPERTIES QueueFIFO ImplementsService
