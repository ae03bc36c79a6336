SPECIFICATION ContractSpec
CONSTANTS
    Quads <- SomeQuads
    Txs <- TwoTxs
    MaxOps = 8
    MaxVersion = 6
    Base <- Lists
    Positions <- SomePositions
    Nowhere <- InG3
    FreeQuads <- TwoQuads
    FreeOps = 2
    FreeVersion = 2
INVARIANTS VersionTellsChange ContractHolds
PROPERTY SerialWrites
