SPECIFICATION Spec
CONSTANTS
  MaxInt = 63
  Millisecond = 2
  MaxTaskRetryDelay = 12
  MaxTaskAttempts = 5
  Overrides <- SomeOverrides
INVARIANTS
  DelayIsCappedGrowth
  FailTaskAcceptsDelay
CHECK_DEADLOCK FALSE
