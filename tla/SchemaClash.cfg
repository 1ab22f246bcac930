SPECIFICATION Spec
CONSTANTS
    None = None
    SchemaList = SchemaList
    s1 = s1
    s2 = s2
    Schemas = {s1, s2}
    Existing = s1
    StartFields = 2
    Imports <- MCImports
    MaxEdits = 2
    MaxRequests = 2
    MaxEvents = 1
    MaxTotal = 4
CHECK_DEADLOCK FALSE
INVARIANT FieldsNeverClash
