CONSTANTS
  link = link
  node = node
  from = from
  to = to
  kind = kind
  id = id
  x = x
  y = y
  Null = Null
  Tables = {link, node}
  Contents <- SomeContents
  ForeignKeys <- Ends
  Required <- FromRequired
  Loaded <- Network
  Assigned = {node}
  MaxChanges = 2
  MaxStamps = 4
  Absent = Absent
SPECIFICATION Spec
INVARIANTS
  BrokenIsStale
  FailedWriteKeepsOutput
PROPERTIES
  StrictWriteIsAsLoaded
CHECK_DEADLOCK FALSE
