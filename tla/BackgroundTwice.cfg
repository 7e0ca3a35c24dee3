SPECIFICATION Spec
CONSTANTS
  Daemons = {d1, d2}
  Watchers = {w1}
  Users = {u1}
  Clients = {c1}
  Nobody = Nobody
  Starts <- TwoCommands
INVARIANT
  OneDaemon
CHECK_DEADLOCK FALSE
