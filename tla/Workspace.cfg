SPECIFICATION FairSpec
CONSTANTS
  Panes = {1, 2}
  Policies = {"auto", "notify", "off"}
  Cooldown = 3
  LogSize = 1
  Faults = {"tmux", "ps", "crash"}
  MaxCrashes = 1
INVARIANTS
  ModelFollowsTmux
PROPERTIES
  AnnouncementsAreSpaced
  DaemonMakesProgress
