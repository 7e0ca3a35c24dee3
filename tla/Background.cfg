SPECIFICATION FairSpec
CONSTANTS
  Daemons = {d1, d2}
  Watchers = {w1, w2}
  Users = {u1, u2}
  Clients = {c1, c2}
  Nobody = Nobody
  Starts <- AllStarts
INVARIANTS
  CalmRuns
  QuietIsCurrent
PROPERTIES
  LinesMoveForward
  OnlyTheRecordedWatcher
CHECK_DEADLOCK FALSE
