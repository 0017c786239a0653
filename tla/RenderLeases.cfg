SPECIFICATION Spec
CONSTANTS
    w1 = w1
    w2 = w2
    NoWorker = NoWorker
    Workers = {w1, w2}
    Requests = {}
    Faulty = {w1}
    PhaseCount = 4
    OpCount = 1
    MaxAttempts = 2
    LeaseDuration = 2
    BaseDelay = 1
    MaxDelay = 2
    ScanLimit = 1
    Lag = 0
    MaxClock = 2
INVARIANTS
    TypeOK
    HydratableRows
    DeadLetterDeserved
    SuccessIsProven
PROPERTIES
    LeaseHonoured
    FreshAttemptPerOwner
    AttemptGoesForward
    CheckpointByHolder
CHECK_DEADLOCK FALSE
