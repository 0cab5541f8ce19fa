SPECIFICATION FairSpec
CONSTANTS
  p1 = p1
  p2 = p2
  p3 = p3
  Publisher = {p1, p2, p3}
  Size <- MixedSize
  Depth = 1
  MaxBytes = 3
  Waits = TRUE
  NoItem = NoItem
INVARIANTS
  BytesAccounted
  AcceptedAccounted
  NoLostWakeup
PROPERTIES
  WaitersGetRoom
  AcceptedSettles
CHECK_DEADLOCK FALSE
