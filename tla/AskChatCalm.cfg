SPECIFICATION FairSpec
CONSTANTS
  MaxTurns = 2
  MaxChunks = 2
  MaxTime = 3
  LockStale = 2
  AskTimeout = 1
  MaxReplay = 1
  Faults <- Calm
INVARIANTS
  OneTurnAtATime
  CancelIsTrue
  HistoryIsAnswered
PROPERTIES
  IsAConversation
  NoLockout
  CloseReaps
