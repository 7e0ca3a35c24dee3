SPECIFICATION Spec
CONSTANTS
  Procs = {p1, p2}
  Catalog <- Known
  NoProvider = NoProvider
  Malformed = Malformed
  Unset = Unset
  NoConfig = NoConfig
  NoArgv = NoArgv
  NoReport = NoReport
  Starts <- AllStarts
SYMMETRY Terminals
CHECK_DEADLOCK FALSE
INVARIANTS
  ChoiceHolds
  DoctorTells
  BindingsSettle
