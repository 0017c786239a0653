CONSTANTS
  Clients = {c1, c2}
  Workspace = Workspace
  Requests = {r1, r2, r3}
  Capabilities <- MCCapabilities
  DefaultLimits <- MCDefaults
  PolicyLimits <- MCPolicies
  RateWindow = 1
  ReservationWindow = 2
  QuotaWindow = 2
  BaselineWindow = 1
  ErrorWindow = 1
  Multiplier = 2
  Baselines = 1
  RequestMinimum = 1
  SpendMinimum = 4
  TerminalMinimum = 1
  Skew = 1
  MaxTime = 1
  None = None
SPECIFICATION Spec
SYMMETRY Symmetry
INVARIANTS
    WindowsHold
PROPERTIES
    PolicyHolds
CHECK_DEADLOCK FALSE
CONSTRAINT FewRequests
