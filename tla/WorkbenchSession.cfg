CONSTANTS
  Jobs = {j1}
  Selectors = {}
  Nested = {"activate", "select", "clear", "style"}
  Failing = TRUE
  MaxDepth = 2
  MaxNets = 3
  MaxSteps = 4
  Nothing = Nothing
SPECIFICATION Spec
INVARIANTS
  HistoryReplays
  ReferencesAreLive
  NestedEntriesFollowTheirParent
PROPERTIES
  FailedActionChangesNothing
CHECK_DEADLOCK FALSE
