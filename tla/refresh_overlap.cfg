CONSTANTS
  facility = facility
  attribute = attribute
  view = view
  edges = edges
  results = results
  daily = daily
  solve = solve
  e1 = e1
  e2 = e2
  Nil = Nil
  Table <- MCTable
  Graph <- MCGraph
  Reads <- MCReads
  Edited <- MCEdited
  Editor = {e1}
  Job = {daily}
  Plan <- MCDailyPlan
  Daily = {daily}
  Env = {"overlap"}
  MaxEdits = 1
  MaxStarts = 0
  MaxFailures = 0
SPECIFICATION Spec
INVARIANT CleanMeansUpToDate
