SPECIFICATION Spec
CONSTANTS
    Empty = Empty
    Unset = Unset
    x = x
    u1 = u1
    Texts = {Empty, x}
    Urls = {Empty, u1}
    MaxItems = 2
    MaxEdits = 4
    MaxUploads = 2
CHECK_DEADLOCK FALSE
INVARIANT TextIsKept
PROPERTY AnswersReachUnmovedItems
