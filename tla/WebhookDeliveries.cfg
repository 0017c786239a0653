SPECIFICATION LiveSpec
CONSTANTS
    d1 = d1
    w1 = w1
    w2 = w2
    k1 = k1
    k2 = k2
    q1 = q1
    q2 = q2
    Deliveries = {d1}
    Workers = {w1, w2}
    NoWorker = NoWorker
    Requests = {q1, q2}
    Keys = {k1, k2}
    NoRecord = NoRecord
    MaxAttempts = 2
    AttemptLimit = 3
    LeaseDuration = 1
    MaxRetryDelay = 1
    Lag = 0
INVARIANTS
    AttemptsAccounted
    OutcomeDeserved
PROPERTIES
    OneReopeningPerKey
    LeaseHonoured
    EveryDeliverySettles
CHECK_DEADLOCK FALSE
