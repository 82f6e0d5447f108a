SPECIFICATION Spec
CONSTANTS
    w1 = w1
    w2 = w2
    MaxIntents = 2
    Workers = {w1, w2}
    NoWorker = NoWorker
    Leases = {1}
    RetryDelay = 1
    MaxAttempts = 2
    MaxRedrives = 1
    MaxClaims = 4
    MaxTime = 2
SYMMETRY WorkerSymmetry
CHECK_DEADLOCK FALSE
INVARIANT TypeOK
INVARIANT LedgerStaysValid
INVARIANT ShownOnce
PROPERTY LeaseExcludes
PROPERTY DeliverySpec
