SPECIFICATION Spec
CONSTANTS
  t1 = t1
  t2 = t2
  k1 = k1
  NoKey = NoKey
  NoTask = NoTask
  Free = Free
  Task = {t1, t2}
  Claimer = {c1, c2}
  KeyOf <- OneKey
  StartTimes = {0}
  Rank <- IdOrder
  LeaseDuration = 2
  MaxAttempts = 2
  MaxTime = 2
INVARIANTS
  KeysMeetOnlyLate
  WritesAreFenced
PROPERTIES
  ClaimTakesLapsedRows
CHECK_DEADLOCK FALSE
SYMMETRY Symmetry
