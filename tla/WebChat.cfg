SPECIFICATION FairSpec
CONSTANTS
  Faults <- AllFaults
  Life = 1
  Skew = 0
  Workers = 1
  MaxMessages = 2
  MaxDeltas = 1
  MaxTime = 1
CHECK_DEADLOCK FALSE
INVARIANTS
  TypeOK
  BubbleSingleTurn
  BusyUntilFailure
PROPERTIES
  ComposerRecovers
  AnswerComes
  ConversationKept
