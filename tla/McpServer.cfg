SPECIFICATION Spec
CONSTANTS
    Calls = {k1, k2}
    Offered <- ReadAndDelete
    RateLimit = 1
    TicksPerToken = 1
    MaxRetries = 1
    Threshold = 2
    HalfOpenMax = 2
    RecoveryTime = 2
INVARIANT ReadOnlyWritesNothing
PROPERTY CircuitFollowsTheCalls
PROPERTY CallsAreAnswered
PROPERTY CircuitClosesAgain
