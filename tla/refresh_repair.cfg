CONSTANTS
  facility = facility
  attribute = attribute
  view = view
  edges = edges
  results = results
  daily = daily
  solve = solve
  e1 = e1
  e2 = e2
  Nil = Nil
  Table <- MCTable
  Graph <- MCGraph
  Reads <- MCReads
  Edited <- MCEdited
  Editor = {e1}
  Job = {daily, solve}
  Plan <- MCPlan
  Daily = {daily}
  Env = {"overlap", "fails", "killed", "unlogged"}
  MaxEdits = 1
  MaxStarts = 1
  MaxFailures = 1
SPECIFICATION FairSpec
INVARIANT TypeOK
PROPERTY RefreshRepairs
