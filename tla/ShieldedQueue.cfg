\* One withdrawal, the workers of two servers, one administrator's request.
SPECIFICATION LiveSpec
CONSTANTS
    w1 = w1
    k1 = k1
    k2 = k2
    a1 = a1
    None = None
    Withdrawals = {w1}
    Workers = {k1, k2}
    Requests = {a1}
    MaxAttempts = 2
    BatchLimit = 1
    MaxGrants = 1
    Overtaking = FALSE
INVARIANTS
    TypeOK
    OneExecutor
    AttemptsBounded
    ConfirmedMeansSpent
PROPERTIES
    ConfirmedStays
    SuspiciousHeld
    EventuallyDecided
    KeepsPromise
CHECK_DEADLOCK FALSE
