SPECIFICATION CalmHistorySpec
CONSTANTS
    Topics <- MCTopics
    Payloads <- OnePayload
    Patterns <- MCPatterns
    Selections <- AllScopes
    Limits = {1, 3}
    Persistent <- OnlyEnduring
    Bounds <- TightBounds
    EvictionPolicy = "Lru"
    DemotionTarget = "OneStepThenDrop"
    Cadence = "AfterEachQuery"
    MinorAccesses = 0
    MinorWindow = 0
    MajorReferences = 0
    MaxId = 3
    MaxBatch = 2
    MaxTime = 1
    MaxCalls = 4
INVARIANTS OneTierPerQuery OneStepDown LruKeepsTheBatch
