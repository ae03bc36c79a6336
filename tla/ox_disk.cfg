SPECIFICATION Spec
CONSTANTS
    Persistent = TRUE
    Quads <- MCOtherQuads
    Foreign <- MCPadded
    Iris <- MCIris
    ValidIris <- MCValidIris
    Labels <- MCLabels
    ValidLabels <- MCLabels
    Tags <- MCTags
    ValidTags <- MCValidTags
    Lexicals <- MCLexicals
    Parse <- MCParse
    Show <- MCShow
    t1 = t1
    t2 = t2
    Txs <- TwoTxs
    MaxOps = 2
    Lists = FALSE
SYMMETRY AnyTx
INVARIANT SnapshotReads
PROPERTY LastCommitWins
