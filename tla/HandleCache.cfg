CONSTANTS
  link = link
  node = node
  links_df = links_df
  nodes_df = nodes_df
  all = all
  Readers = {r1, r2}
  Tables = {link, node}
  Artifacts = {links_df, nodes_df, all}
  Needs <- NeedsBoth
  Base <- Frames
  MaxEdits = 1
  Unread = Unread
  Nothing = Nothing
SPECIFICATION Spec
SYMMETRY Symmetry
INVARIANTS
  CacheDescribesTables
  AnswerIsOfTheCall
CHECK_DEADLOCK FALSE
