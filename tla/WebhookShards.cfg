SPECIFICATION LiveSpec
CONSTANTS
    w1 = w1
    w2 = w2
    w3 = w3
    Workers = {w1, w2, w3}
    Counts = {2}
    NoLease = NoLease
    LeaseDuration = 3
    Lag = 1
    MaxFaults = 2
PROPERTIES
    LeaseHonoured
    LoserStops
    EveryShardServed
