SPECIFICATION Spec
CONSTANTS
    Workspaces = {w1, w2}
    Production = production
    Collections = {c1}
    Docs = {d1}
    Values = {v1, v2}
    NoRow = NoRow
    MaxVersions = 2
    MaxSequence = 2
    ResentCreates = TRUE
SYMMETRY SymmetryW
PROPERTY ProductionMatchesSource
PROPERTY WorkspacesAreIsolated
INVARIANT ListedDocumentsAgree
INVARIANT NoHiddenDocuments
