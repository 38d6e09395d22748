SPECIFICATION Spec
CONSTANTS
  Users = {u1, u2}
  NoUser = NoUser
  Turns = {a, b}
  Boxes = {box}
  NoBox = NoBox
  Window = 1
  Timeout = 1
  Faults = {"refuse", "lost", "unnamed"}
  MaxKeys = 1
  MaxChanges = 1
  MaxDocs = 1
  MaxCalls = 2
  MaxTime = 3
INVARIANTS
  TypeOK
  CreatedIsWhole
  EveryDocumentTold
PROPERTIES
  ActsWithinRights
  KeyRecent
SYMMETRY Symmetry
