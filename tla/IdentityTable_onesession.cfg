SPECIFICATION Spec
CONSTANTS
  OpenIds = {u1}
  Requests = {r1, r2}
  NoUser = NoUser
  Open = FALSE
  Faults = {}
  MaxSessions = 3
  MaxAdmin = 1
INVARIANT
  OneSession
