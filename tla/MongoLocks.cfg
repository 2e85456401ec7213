SPECIFICATION Spec
CONSTANTS
  t1 = t1
  t2 = t2
  t3 = t3
  a = a
  b = b
  Tx = {t1, t2}
  Store = {a, b}
  Doc = {d1, d2}
  Slots = 2
  MaxLocks = 2
  Deployments <- ReplicasAndOneStore
INVARIANTS
  ExclusiveExcludes
  LockedDocumentsAreCurrent
  NoOrphanFence
  NoWaitCycle
SYMMETRY AlikeDocs
CHECK_DEADLOCK FALSE
