SPECIFICATION Spec
CONSTANTS
  Files = {"a", "b", "c"}
  Codex = {"c"}
  Subagents = {"b"}
  IdOf <- Ids
  Size <- Sizes
  ArgvCap = 2
  Matching <- Matches
  Users = {u1, u2}
  NoFile = NoFile
  NoJob = NoJob
  NoDir = NoDir
  Jobs <- AllJobs
  Starts <- Runs
  ArcCap = 2
  RecentCap = 2
  EndWindow = 1
CHECK_DEADLOCK FALSE
INVARIANTS
  ArcIsEven
  RecordsSayTheEnd
  IndexIsCurrent
  AnswersAreOfTheirTime
SYMMETRY Twins
