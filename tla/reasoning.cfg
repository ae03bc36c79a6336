SPECIFICATION Spec
CONSTANTS
    Quads <- AllQuads
    MaxOps = 3
    Ops <- SomeOps
    Named <- SomeNamed
    Data <- SomeData
    Shapes <- SomeShapes
    Foci <- OneNode
    Programs <- SomePrograms
    Candidates <- Asked1
INVARIANTS
    NoQuadTwice ReadsItsWrites InferredIsEntailed EntailmentsPresent
    EntailedInBetween ReportInBetween FactsInBetween
