SPECIFICATION SessionSpec
CONSTANTS
    a = a
    a2 = a2
    x = x
    Prompts = {a, a2, x}
    Blocks <- MCBlocks
    NearFull = {x}
    Summaries = {a}
    SingleSlot = TRUE
    SkipThreshold = 90
    SkipMaxDiff = 25
    SaveRatio = 75
    HitRatio = 20
    None = None
    Empty = Empty
    Partial = Partial
    QueueSize = 2
    MaxChunks = 4
INVARIANTS SessionTypeOK NoGap CompleteReachesClient FilesHonest TrackingHonest StatusMatchesFate
PROPERTIES ImplementsStream SkippedSaveKept NearFullNotSaved StreamEnds
