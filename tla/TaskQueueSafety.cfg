SPECIFICATION Spec
CONSTANTS
  t1 = t1
  t2 = t2
  t3 = t3
  d1 = d1
  k1 = k1
  NoDoc = NoDoc
  NoKey = NoKey
  Key = {k1}
  Doc = {d1}
  Task = {t1, t2}
  Worker = {w1, w2}
  KeyOf <- KeyOfTask
  TargetOf <- TargetOfTask
  RequesterOf <- RequesterOfTask
  Registered = {t1, t2}
  MaxAttempts = 2
  Limit = 2
  PruneLimit = 1
  LeaseDuration = 2
  StartDelays = {0}
  RetryDelays = {1}
  Retention = 1
  MaxFaults = 1
INVARIANTS
  OneLiveLeasePerKey
  OneOwnerPerKey
  HandlerRunsAreBounded
  ResultIsOfLastAttempt
  AttemptsArePaidFor
  NoOrphanTask
PROPERTIES
  ImplementsContract
SYMMETRY WorkerSymmetry
