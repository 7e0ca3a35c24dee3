SPECIFICATION FairSpec
CONSTANTS
  Panes = {1, 2}
  Hung = {2}
  Concurrency = 2
  Distance = 1
  Debounce = 2
  Looks <- MCLooks
  MaxTime = 4
  MaxWaiters = 1
INVARIANTS
  PoolIsSound
  LabelTracksPane
PROPERTIES
  BestFirst
  KeepsThePromise
  EverybodyIsServed
