CONSTANTS
  d1 = d1  d2 = d2  t1 = t1  t2 = t2  n1 = n1  n2 = n2  e1 = e1
  Delin = {d1, d2}
  Tmnt = {t1, t2}
  Name = {n1, n2}
  None = None
  Editor = {e1}
  Race = FALSE
  MaxPatches = 3
  MaxSolves = 2
SPECIFICATION Spec
CHECK_DEADLOCK FALSE
INVARIANTS
  TypeOK
  InSync
  HashOfInput
