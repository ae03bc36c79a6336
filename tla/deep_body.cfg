SPECIFICATION Spec
CONSTANTS
    Iris <- MCIris
    ValidIris <- MCValidIris
    Labels <- MCLabels
    ValidLabels <- MCLabels
    Tags <- MCTags
    ValidTags <- MCValidTags
    Lexicals <- MCLexicals
    Parse <- MCParse
    Show <- MCShow
    Spellings <- MCSpellings
    ParseU64 <- MCParseU64
    Whitespace <- MCWhitespace
    Finite <- MCFinite
    Reparse <- MCReparse
    MaxDepth = 4
    IntBits = 3
    Unencodable <- MCUnencodable
    AsF32 <- MCAsF32
    Batches <- DeepBatches
    QueryCalls <- MCQueryCalls
    ForeignMeta <- MCForeignMeta
    MaxItems = 2
    Bounds <- MCBounds
INVARIANT Reopens
