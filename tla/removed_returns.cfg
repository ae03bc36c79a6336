SPECIFICATION HistorySpec
CONSTANTS
    Topics <- MCTopics
    Payloads <- OnePayload
    Patterns <- MCPatterns
    Selections <- AllScopes
    Limits = {2}
    Persistent <- OnlyEnduring
    Bounds <- OneEach
    EvictionPolicy = "Lru"
    DemotionTarget = "OneStepThenDrop"
    Cadence = "AfterEachQuery"
    MinorAccesses = 0
    MinorWindow = 0
    MajorReferences = 0
    MaxId = 2
    MaxBatch = 2
    MaxTime = 0
    MaxCalls = 3
INVARIANT RemovedStaysRemoved
