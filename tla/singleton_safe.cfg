\* Everything that leaves the lock with its owner: broker errors and killed
\* child processes.  Two keys, three submissions of the first one.
CONSTANTS
  c1 = c1  c2 = c2  c3 = c3  d1 = d1  k1 = k1  k2 = k2
  Call = {c1, c2, c3, d1}
  Key = {k1, k2}
  KeyOf <- MCKeyOf
  Slot = {w1, w2}
  Nil = Nil
  RaiseOnDuplicate = FALSE
  Env = {"publish_fails", "caller_lost", "child_lost"}
  MaxRestarts = 0
SPECIFICATION FairSpec
CHECK_DEADLOCK FALSE
INVARIANTS MutualExclusion PendingHoldsLock
PROPERTIES CallReturns ImplementsPromise
