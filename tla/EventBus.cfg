CONSTANTS
  Kinds = {"state", "job"}
  Clients = {c1}
  MaxQueued = 2
  MaxEvents = 3
SPECIFICATION FairSpec
INVARIANTS
  NewestStateIsShown
  QueueIsInOrder
PROPERTIES
  ChangesReachClients
CHECK_DEADLOCK FALSE
