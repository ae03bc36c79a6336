SPECIFICATION Spec
CONSTANTS
    Persistent = FALSE
    Quads <- MCQuads
    Foreign <- MCForeign
    Iris <- MCIris
    ValidIris <- MCValidIris
    Labels <- MCLabels
    ValidLabels <- MCLabels
    Tags <- MCTags
    ValidTags <- MCValidTags
    Lexicals <- MCLexicals
    Parse <- MCParse
    Show <- MCShow
    t1 = t1
    t2 = t2
    Txs <- TwoTxs
    MaxOps = 3
    Lists = TRUE
SYMMETRY AnyTx
INVARIANTS WriterSeesLatest NamedGraphsInBetween ScanFindsWhatContainsFinds
PROPERTY SerialWrites
