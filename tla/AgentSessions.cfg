CONSTANTS
  alice = alice
  early = early
  late = late
  Actors = {alice}
  Tokens <- TwoTokens
  Owner <- OneOwner
  Exp <- TwoExpiries
  Margin = 1
  Calls = {c1, c2}
  Nobody = Nobody
  NoToken = NoToken
  Faults = {"reject", "unavailable", "list_fails"}
  MaxSessions = 5
  MaxTime = 3
SPECIFICATION FairSpec
INVARIANTS
  TypeOK
  OwnToken
  NoDuplicateOutput
  ConnectionsOwned
  CachedConnected
PROPERTIES
  StartsLive
  RunsTurns
  CallEnds
CHECK_DEADLOCK FALSE
