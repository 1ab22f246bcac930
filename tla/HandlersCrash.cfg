SPECIFICATION HistorySpec
CONSTANTS
    Workspaces = {w1}
    Production = production
    Collections = {c1}
    Docs = {d1}
    Values = {v1, v2}
    NoRow = NoRow
    MaxVersions = 2
    Pool = {t1}
    Loop = loop
    Requests <- AllRequests
    Overlap <- Harmless
    Crashes = TRUE
SYMMETRY Symmetry
INVARIANT TypeOK
INVARIANT EditableDocumentsExist
PROPERTY EditsKeepFormerData
PROPERTY PublishedOnBothSides
PROPERTY ImplementsDocStore
