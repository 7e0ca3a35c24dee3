SPECIFICATION FairSpec
CONSTANTS
  Panes = {1, 2}
  Sessions = {1, 2, 3, 4}
  NoSession = NoSession
  NoHarness = NoHarness
  HarnessOf <- H
  DirOf <- D
  ShellDir <- Shells
  Earlier <- EarlierOnes
  Pruners = {1}
  MaxTime = 7
INVARIANTS
  SharedOnlyIfExact
  OrderIsImmaterial
  FreshAgentsResolve
PROPERTIES
  DeadLinksGo
CHECK_DEADLOCK FALSE
