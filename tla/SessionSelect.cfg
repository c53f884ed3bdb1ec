CONSTANTS
  Jobs = {j1, j2}
  Selectors = {r1}
  Nested = {"close", "activate", "select", "clear", "style"}
  Failing = FALSE
  MaxDepth = 1
  MaxNets = 3
  MaxSteps = 2
  Nothing = Nothing
SPECIFICATION Spec
INVARIANTS
  JobsAreRecordedOnce
PROPERTIES
  SelectionIsOfTheAppliedTables
CHECK_DEADLOCK FALSE
