SPECIFICATION Spec
CONSTANTS
    Workspaces = {w1}
    Production = production
    Collections = {c1}
    Docs = {d1, d2}
    Values = {v1, v2}
    NoRow = NoRow
    MaxVersions = 2
    MaxSequence = 2
    ResentCreates = FALSE
SYMMETRY Symmetry
INVARIANT TypeOK
INVARIANT NoHiddenInProduction
INVARIANT SequencesAreUnique
PROPERTY PublishedOnBothSides
PROPERTY ProductionOrderIsAuthored
PROPERTY EditsKeepFormerData
