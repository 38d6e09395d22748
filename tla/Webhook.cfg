SPECIFICATION Spec
CONSTANTS
  message = message
  s1 = s1
  s2 = s2
  Events = {message}
  Encrypted = {message}
  Sandboxes = {s1, s2}
  Faults <- AllFaults
  Window = 1
  Margin = 2
  Life = 3
  Timeout = 1
  Retries = 1
  MaxDeliveries = 1
  MaxRuns = 2
  MaxRotations = 1
  MaxTime = 2
CHECK_DEADLOCK FALSE
SYMMETRY SandboxSymmetry
INVARIANTS
  TypeOK
  AckedAccounted
  TurnPerStart
  LiveTenantToken
PROPERTIES
  RepliesAsPromised
