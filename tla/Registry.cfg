SPECIFICATION Spec
CONSTANTS
    b1 = b1
    b2 = b2
    m1 = m1
    m2 = m2
    KeyOrder <- MCKeyOrder
    Models = {m1, m2}
    Loads <- MCLoads
    Rounds = {r1, r2}
    Matcher = matcher
    MaxChanges = 1
INVARIANTS RegistryTypeOK OneLiveRound
PROPERTIES LoopGoesOn RecoversRegistry
