SPECIFICATION Spec
CONSTANTS
    None = None
    New = New
    List = List
    d1 = d1
    d2 = d2
    f1 = f1
    f2 = f2
    Ids = {d1, d2}
    Existing = {}
    Fields = {f1}
    Values = {v0, v1}
    Default = v0
    OthersEditPublished = FALSE
    MaxEdits = 1
    MaxRequests = 3
    MaxVisits = 2
    MaxEvents = 1
    MaxTotal = 5
CHECK_DEADLOCK FALSE
INVARIANT EditsGoToTheirDocument
INVARIANT FormsShowTheirDocument
PROPERTY PagesSettle
