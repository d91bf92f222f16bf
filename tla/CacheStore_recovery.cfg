SPECIFICATION Spec
CONSTANTS
    b1 = b1
    b2 = b2
    DirOrder <- OneBackend
    Agents = {b1}
    Slots = {s1}
    Keys = {k1, k2, k3}
    Checkpointed = {}
    Sizes = {1, 2}
    BlocksKnown = {TRUE, FALSE}
    MaxBytes = 2
    Transfers = {t1}
    MaxCrashes = 2
    None = None
INVARIANTS TotalIsSum MetaInSync
