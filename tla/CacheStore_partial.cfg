SPECIFICATION Spec
CONSTANTS
    b1 = b1
    b2 = b2
    DirOrder <- TwoBackends
    Agents = {}
    Slots = {s1}
    Keys = {k1, k2}
    Checkpointed = {k1}
    Sizes = {1, 2}
    BlocksKnown = {TRUE}
    MaxBytes = 2
    Transfers = {t1}
    MaxCrashes = 0
    None = None
INVARIANTS CopiesRestoreWhole
