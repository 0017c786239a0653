SPECIFICATION LiveSpec
CONSTANTS
  Workers = {w1, w2}
  Callers = {c1}
  Events = {e1}
  Adapters <- MCAdapters
  Lease = 1
  Window = 1
  MaxAttempts = 1
  MaxFaults = 1
INVARIANTS
    OnePaidSubmission
    JobSound
PROPERTIES
    TerminalIsFinal
    CancelIntentKept
    EveryJobEnds
