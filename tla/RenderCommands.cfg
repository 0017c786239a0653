SPECIFICATION Spec
CONSTANTS
    w1 = w1
    q1 = q1
    q2 = q2
    q3 = q3
    q4 = q4
    NoWorker = NoWorker
    Workers = {w1}
    Requests = {q1, q2, q3, q4}
    Faulty = {}
    PhaseCount = 4
    OpCount = 1
    MaxAttempts = 1
    LeaseDuration = 1
    BaseDelay = 1
    MaxDelay = 2
    ScanLimit = 1
    Lag = 1
    MaxClock = 1
CONSTRAINT
    FewRequests
INVARIANTS
    FeedMatchesRow
    LifecycleHolds
PROPERTIES
    TerminalStable
    ImplementsLifecycle
SYMMETRY Symmetry
CHECK_DEADLOCK FALSE
