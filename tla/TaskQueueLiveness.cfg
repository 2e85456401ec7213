SPECIFICATION FairSpec
CONSTANTS
  t1 = t1
  t2 = t2
  t3 = t3
  d1 = d1
  k1 = k1
  NoDoc = NoDoc
  NoKey = NoKey
  Key = {k1}
  Doc = {}
  Task = {t1, t2}
  Worker = {w1, w2}
  KeyOf <- KeyOfTask
  TargetOf <- TargetOfTask
  RequesterOf <- RequesterOfTask
  Registered <- OnlyFirst
  MaxAttempts = 1
  Limit = 2
  PruneLimit = 1
  LeaseDuration = 2
  StartDelays = {1}
  RetryDelays = {1}
  Retention = 1
  MaxFaults = 1
PROPERTIES
  EveryTaskSettles
  TerminalRowsArePruned
