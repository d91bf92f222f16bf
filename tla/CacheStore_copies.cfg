SPECIFICATION Spec
CONSTANTS
    b1 = b1
    b2 = b2
    DirOrder <- TwoBackends
    Agents = {b2}
    Slots = {s1}
    Keys = {k1}
    Checkpointed = {k1}
    Sizes = {1, 2}
    BlocksKnown = {TRUE}
    MaxBytes = 1
    Transfers = {t1, t2}
    MaxCrashes = 0
    None = None
INVARIANTS TypeOK KeysListedOnce WithinBudget TrackerExact
SYMMETRY Symmetry
