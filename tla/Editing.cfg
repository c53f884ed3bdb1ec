CONSTANTS
  link = link
  node = node
  id = id
  val = val
  x = x
  y = y
  Tables = {link, node}
  Columns = {id, val}
  Values = {x, y, Null}
  Null = Null
  Initial <- Packages
  Edits <- SomeEdits
  MaxStamp = 3
  Nothing = Nothing
SPECIFICATION Spec
INVARIANTS
  ReversalRetraces
  CoalescingIsInvisible
PROPERTIES
  UndoneIsRestored
CHECK_DEADLOCK FALSE
