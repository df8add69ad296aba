CONSTANTS
  d1 = d1  d2 = d2  t1 = t1  t2 = t2  n1 = n1  n2 = n2  e1 = e1
  Delin = {d1}
  Tmnt = {t1}
  Name = {n1, n2}
  None = None
  Editor = {e1}
  Race = FALSE
  MaxPatches = 1
  MaxSolves = 1
SPECIFICATION Spec
CHECK_DEADLOCK FALSE
PROPERTY OnlyMissingFilled
