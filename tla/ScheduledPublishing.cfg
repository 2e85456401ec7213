SPECIFICATION ScheduleSpec
CONSTANTS
  a = a
  b = b
  t1 = t1
  Text = {a, b}
  Missing = Missing
  None = None
  Configs <- BothConfigs
  Scheduled <- TasksOf
  Task = {t1}
  Action = {"publish", "unpublish"}
  Given = {0, 2}
  MaxAttempts = 2
INVARIANTS
  HeadsAgree
  HistoryIsRecent
  PublicationHappensOnce
PROPERTIES
  PublicIsPublished
  PublishesWhatWasScheduled
CHECK_DEADLOCK FALSE
