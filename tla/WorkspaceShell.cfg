SPECIFICATION Spec
CONSTANTS
  Panes = {1, 2}
  Policies = {"auto"}
  Cooldown = 3
  LogSize = 1
  Faults = {}
  MaxCrashes = 1
PROPERTY
  OnlyAgentPanesAreTyped
