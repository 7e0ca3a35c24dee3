SPECIFICATION FairSpec
CONSTANTS
  Deciders = {ls, watch}
  Humans <- MCHumans
  Autos <- MCAutos
  MaxWorkers = 2
  MaxVer = 2
  MaxTime = 2
  LockStale = 1
  Cooldown = 1
  CallTimeout = 1
  Concurrency = 1
  Limit = 2
  MaxPerPass = 2
  RefreshDistance = 1
  Starts <- AllStarts
INVARIANTS
  NoFeedback
  PassesAreOrderly
PROPERTIES
  SummariesMoveForward
  MarksEnd
