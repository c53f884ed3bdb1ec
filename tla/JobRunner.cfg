CONSTANTS
  Jobs = {j1, j2}
  Requests = {r1}
  Target <- OneTarget
  MaxStages = 1
  Free = Free
  Nothing = Nothing
SPECIFICATION FairSpec
INVARIANTS
  WaiterSawTheEnd
  CancelStopsAtCheckpoint
PROPERTIES
  EventsInOrder
  KeepsPromise
  EveryJobEnds
CHECK_DEADLOCK FALSE
