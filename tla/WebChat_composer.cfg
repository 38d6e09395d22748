SPECIFICATION Spec
CONSTANTS
  Faults <- AtomicClose
  Life = 1
  Skew = 0
  Workers = 1
  MaxMessages = 2
  MaxDeltas = 1
  MaxTime = 0
CHECK_DEADLOCK FALSE
INVARIANT
  ComposerBusy
