SPECIFICATION HistorySpec
CONSTANTS
    Calls = {k1}
    Offered = {"rtdb_set"}
    RateLimit = 2
    TicksPerToken = 3
    MaxRetries = 1
    Threshold = 2
    HalfOpenMax = 2
    RecoveryTime = 1
INVARIANT CallsStayWithinTheRate
