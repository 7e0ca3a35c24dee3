SPECIFICATION Spec
CONSTANTS
  MaxTurns = 2
  MaxChunks = 1
  MaxTime = 1
  LockStale = 0
  AskTimeout = 0
  MaxReplay = 1
  Faults <- Hostile
INVARIANTS
  SeqsNameOneTurn
  AnswersAreWhole
