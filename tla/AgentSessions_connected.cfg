CONSTANTS
  alice = alice
  early = early
  late = late
  Actors = {alice}
  Tokens <- TwoTokens
  Owner <- OneOwner
  Exp <- TwoExpiries
  Margin = 1
  Calls = {c1, c2}
  Nobody = Nobody
  NoToken = NoToken
  Faults = {}
  MaxSessions = 5
  MaxTime = 3
SPECIFICATION Spec
INVARIANT RunsConnected
CHECK_DEADLOCK FALSE
