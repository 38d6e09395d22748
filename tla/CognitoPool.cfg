SPECIFICATION Spec
CONSTANTS
  Users = {u1}
  Routers = {r1, r2}
  WebApis = {w1}
  NoUser = NoUser
  Faults = {"fail"}
  Margin = 1
  Life = 2
  MaxRotations = 1
  MaxTime = 1
SYMMETRY Symmetry
INVARIANTS
  TypeOK
  NeverRefused
PROPERTY
  FailsOnlyRaced
