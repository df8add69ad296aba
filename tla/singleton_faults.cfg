\* Every event of the surroundings, with one restart of the worker: two
\* submissions of one key, over two slots.
CONSTANTS
  c1 = c1  c2 = c2  c3 = c3  d1 = d1  k1 = k1  k2 = k2
  Call = {c1, c2}
  Key = {k1}
  KeyOf <- MCKeyOf
  Slot = {w1, w2}
  Nil = Nil
  RaiseOnDuplicate = FALSE
  Env = {"publish_fails", "publish_unsure", "caller_lost", "child_lost",
         "expire", "clear", "restart", "send_task"}
  MaxRestarts = 1
SPECIFICATION FairSpec
CHECK_DEADLOCK FALSE
INVARIANTS TypeOK AnsweredTaskKept
PROPERTIES AnsweredTaskEnds 
