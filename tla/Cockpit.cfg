SPECIFICATION FairSpec
CONSTANTS
  Projects = {1, 2}
  MaxPane = 4
  MaxWindow = 3
  Replies <- HostileReplies
  MaxPlanSteps = 3
  Starts <- MixedStarts
  NoSnapshot = NoSnapshot
  Faults = {"tmux"}
  MaxGen = 2
  MaxJobs = 1
  MaxChanges = 1
INVARIANTS
  PlansAreClosed
  LateResultsAreDropped
  BusyMeansWork
  PlansWork
PROPERTIES
  Closes
CHECK_DEADLOCK FALSE
