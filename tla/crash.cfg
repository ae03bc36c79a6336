SPECIFICATION HistorySpec
CONSTANTS
    Topics <- MCTopics
    Payloads <- OnePayload
    Patterns <- MCPatterns
    Selections <- TwoScopes
    Limits = {3}
    Persistent <- EnduringAndMajor
    Bounds <- TightBounds
    EvictionPolicy = "Lfu"
    DemotionTarget = "NextColder"
    Cadence = "AfterEachQuery"
    MinorAccesses = 0
    MinorWindow = 1
    MajorReferences = 0
    MaxId = 3
    MaxBatch = 1
    MaxTime = 0
    MaxCalls = 2
INVARIANTS IndexedIsStored FreshIds WorkIsLive OneCopy QueriesSeeTheIndex WithinBounds CountersAreRight RemovedForGood
PROPERTY CitationsNeverRebound
