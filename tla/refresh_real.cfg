CONSTANTS
  solve = solve
  e1 = e1
  Nil = Nil
  Table <- MCTable
  Graph <- OG
  Reads <- MCReads
  Edited <- MCEdited
  Editor = {e1}
  Job = {solve}
  Plan <- MCPlan
  Daily = {solve}
  Env = {"fails"}
  MaxEdits = 1
  MaxStarts = 0
  MaxFailures = 1
SPECIFICATION Spec
INVARIANTS
  CleanMeansUpToDate
