SPECIFICATION Spec
CONSTANTS
    w1 = w1
    w2 = w2
    w3 = w3
    w4 = w4
    w5 = w5
    NoWorker = NoWorker
    Workers = {w1, w2, w3, w4, w5}
    MaxAttempts = 4
    Budgets = {4, 5, 6, 7, 8, 9, 10, 11}
PROPERTY Ends
CHECK_DEADLOCK FALSE
