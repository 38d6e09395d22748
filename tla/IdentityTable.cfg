SPECIFICATION Spec
CONSTANTS
  OpenIds = {u1, u2}
  Requests = {r1, r2, r3}
  NoUser = NoUser
  Open = FALSE
  Faults = {"crash"}
  MaxSessions = 3
  MaxAdmin = 2
SYMMETRY Symmetry
INVARIANTS
  TypeOK
  RegisteredWhole

  
  
