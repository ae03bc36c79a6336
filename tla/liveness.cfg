SPECIFICATION FairSpec
CONSTANTS
    Topics <- MCTopics
    Payloads <- MCPayloads
    Patterns <- MCPatterns
    Selections <- MCSelections
    Limits = {0, 2}
    Persistent <- OnlyEnduring
    Bounds <- TightBounds
    EvictionPolicy = "RecencyWeighted"
    DemotionTarget = "Drop"
    Cadence = "AfterEachQuery"
    MinorAccesses = 0
    MinorWindow = 1
    MajorReferences = 0
    MaxId = 2
    MaxBatch = 2
    MaxTime = 2
    MaxCalls = 2
PROPERTY EveryCallEnds
