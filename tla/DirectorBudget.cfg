CONSTANTS
  Dimensions <- TwoDimensions
  Spend = "spend"
  Elapsed = "elapsed"
  Limits <- MCLimits
  Estimates <- MCEstimates
  Usages <- MCUsages
  Costs = {0, 1, 2}
  Durations = {0, 2}
  Candidates <- MCCandidates
  ClientKeys = {k1, k2, k3}
  Batches = {b1}
  Executions = {e1, e2}
  None = None
SPECIFICATION Spec
SYMMETRY ExecutionSymmetry
INVARIANTS
    RowAccounts
    ActiveWithinLimits
    BestIsBestValid
PROPERTIES
    ClosedForGood
CHECK_DEADLOCK FALSE
