CONSTANTS
  daily = daily
  admin = admin
  user = user
  first = first
  second = second
  row = row
  changed = changed
  StaticTables <- MCStatic
  Slots = 2
  Run = {daily, admin}
  WorkflowOf <- MCRuns
  Page = {user}
  Submission = {first, second}
  Data <- MCData
  Single = {row}
  MaxRequests = 4
  MaxTroubles = 1
SPECIFICATION Spec
INVARIANTS
  TypeOK
  OnlyAfterSuccess
  ParallelTasksIndependent
PROPERTIES
  RunEnds
  SolveAllEnds
  ThrowsOnlyForQueueOrLoss
  ButtonComesBack
CHECK_DEADLOCK FALSE
