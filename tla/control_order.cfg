CONSTANTS
  Parts = {"controls"}
  n1 = n1
  n2 = n2
  Node = {n1, n2}
  c1 = c1
  c2 = c2
  Client = {c1, c2}
  k1 = k1
  k2 = k2
  Cost = {k1, k2}
  y1 = y1
  Year = {y1}
  standard = standard
  edited = edited
  Type = {standard, edited}
  s1 = s1
  s2 = s2
  Setting = {s1, s2}
  Garbled = Garbled
  Bad = Bad
  None = None
  Patches <- MCPatches
  MaxRequests = 3
  Null = Null
  Request <- MCRequest
  Subbasin = {u1, u2}
  Activity = {sweep, dump, other}
  sweeping = sweep
  dumping = dump
  Order <- MCOrder
  MaxControls = 4
  f1 = f1
  f2 = f2
  v1 = v1
  v2 = v2
  Feature <- MCFeature
  t1 = t1
  t2 = t2
  Ground <- MCGround
  Outside = "None"
  Treatment = {t1, t2}
  Delineation <- MCDelineation
  Absent = Absent
  MaxEdits = 2
  Straddling = {f2}
  Updater = {w1, w2}
  ChunkSize = 2
  Nothing = Nothing
  MaxFeatures = 3
  MaxChanges = 3
  Ranked = {r1, r2, r3}
  Criterion = {wide, deep}
  Level = {0, 1}
  NaN = NaN
  Weight = {0, 1, 3}
SPECIFICATION Spec
INVARIANT AlwaysInOrder
CHECK_DEADLOCK FALSE
