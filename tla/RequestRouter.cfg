SPECIFICATION Spec
CONSTANTS
    b1 = b1
    b2 = b2
    b3 = b3
    m1 = m1
    m2 = m2
    Backends = {b1, b2, b3}
    Lists <- MCLists
    QueueMax = 3
    CacheHitQueueLimit = 2
    NoHit = NoHit
INVARIANTS SelectBackendRefines RotationFair
