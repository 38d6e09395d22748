CONSTANTS
  Users = {u1}
  NoUser = NoUser
  Tasks = {t1, t2}
  AccessTTL = 4
  Margin = 2
  Timeout = 1
  Faults = {}
  MaxGrants = 3
  MaxTime = 6
SPECIFICATION Spec
PROPERTY RefusedOnlyWithoutToken
CHECK_DEADLOCK FALSE
