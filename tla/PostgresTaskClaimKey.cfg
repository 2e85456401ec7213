SPECIFICATION Spec
CONSTANTS
  t1 = t1
  t2 = t2
  k1 = k1
  NoKey = NoKey
  NoTask = NoTask
  Free = Free
  Task = {t1, t2}
  Claimer = {c1, c2}
  KeyOf <- OneKey
  StartTimes <- PastAndNow
  Rank <- IdOrder
  LeaseDuration = 2
  MaxAttempts = 1
  MaxTime = 2
CHECK_DEADLOCK FALSE
INVARIANTS
  OneLiveLeasePerKey
