SPECIFICATION LiveSpec
CONSTANTS
    v1 = v1
    v2 = v2
    Writers = {v1, v2}
    Ids = {1, 2, 3}
    Hidden = {2}
    NoTx = NoTx
    Limit = 1
    Delay = 1
    Margin = 1
    Slack = 1
    LastStart = 2
    MaxTime = 5
INVARIANTS
    CursorSound
PROPERTIES
    ServedInOrder
    EverythingServed
CHECK_DEADLOCK FALSE
