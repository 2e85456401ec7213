SPECIFICATION ScheduleSpec
CONSTANTS
  a = a
  b = b
  t1 = t1
  Text = {a, b}
  Missing = Missing
  None = None
  Configs <- OneConfig
  Scheduled <- TasksOf
  Task = {t1}
  Action = {"publish", "unpublish"}
  Given = {0}
  MaxAttempts = 2
INVARIANT
  FailedChangedNothing
CHECK_DEADLOCK FALSE
