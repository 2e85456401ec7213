SPECIFICATION FairSpec
CONSTANTS
  t1 = t1
  t2 = t2
  t3 = t3
  a = a
  b = b
  Tx = {t1, t2, t3}
  Store = {a, b}
  Doc = {d1}
  Slots = 2
  MaxLocks = 1
  Deployments <- Stream
PROPERTIES
  ExclusiveIsServed
CHECK_DEADLOCK FALSE
