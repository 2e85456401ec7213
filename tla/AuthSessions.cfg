SPECIFICATION Spec
CONSTANTS
  Request = {r1, r2}
  Password = {p1, p2}
  NoPassword = NoPassword
  MaxLoginAttempts = 2
  LockDuration = 1
  SessionDuration = 1
  ResetDuration = 1
  MaxHashes = 3
  MaxIssued = 3
  MaxTime = 1
INVARIANTS
  SessionsOfCurrentPassword
  KeysOfCurrentPassword
  RotationsAreSerial
PROPERTIES
  LockHolds
  NoReplacementIsOverwritten
  NothingNewForTrashed
CHECK_DEADLOCK FALSE
SYMMETRY Symmetry
