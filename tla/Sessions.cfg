CONSTANTS
    t1 = t1
    t2 = t2
    u1 = u1
    None = None
    Tabs = {t1, t2}
    Users = {u1}
    MaxActions = 3
    MaxExpiries = 2
    MaxFaults = 1
SPECIFICATION Spec
INVARIANT TypeOK
INVARIANT FailedChecksEndInAReload
PROPERTY TokensAreTriedFirst
PROPERTY ChecksSettle
CHECK_DEADLOCK FALSE
