CONSTANTS
  Users = {u1, u2}
  NoUser = NoUser
  Tasks = {t1, t2}
  AccessTTL = 3
  Margin = 2
  Timeout = 1
  Faults = {"crash", "unreachable", "response_lost", "put_fails", "lapse"}
  MaxGrants = 3
  MaxTime = 3
SPECIFICATION Spec
INVARIANTS
  TypeOK
  ActsAsCaller
  ActsWithLiveToken
  NoStranding
PROPERTY
  WritesAreCurrent
SYMMETRY Symmetry
