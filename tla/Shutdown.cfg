SPECIFICATION FairSpec
CONSTANTS
  x = x
  y = y
  Topic = {x, y}
  Configs <- MCConfigs
  Failed = Failed
  Other = {t1}
  Facade = Facade
  PublishQ = PublishQ
  Request = {r1, r2}
  QueueDepth = 1
  None = None
INVARIANTS
  WiringSound
  CauseReported
  SettledAtExit
PROPERTIES
  DeadTaskEndsAll
CHECK_DEADLOCK FALSE
