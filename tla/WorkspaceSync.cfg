SPECIFICATION Spec
CONSTANTS
    None = None
    ProjectPage = ProjectPage
    w1 = w1
    w2 = w2
    d1 = d1
    v0 = v0
    v1 = v1
    Workspaces = {w1, w2}
    Existing = {w1}
    Docs = {d1}
    Values = {v0, v1}
    Default = v0
    MaxRequests = 2
    MaxEvents = 1
CHECK_DEADLOCK FALSE
INVARIANT SyncsDoNotOverlap
INVARIANT NamesTellTheServer
PROPERTY PullsOverwriteOnlyWhatWasListed
PROPERTY DialogsSettle
