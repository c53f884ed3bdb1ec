CONSTANTS
  Builds = {b1, b2, b3}
  Parts = 2
  Formats = {"file", "folder"}
  Strangers = {"file", "emptyFolder"}
  Nothing = Nothing
SPECIFICATION Spec
INVARIANTS
  ReportedOutputIsThere
  FailedBuildLeavesNothing
  WorkInProgressIsKept
PROPERTY NeverClobbers
CHECK_DEADLOCK FALSE
