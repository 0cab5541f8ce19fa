SPECIFICATION Spec
CONSTANTS
  r1 = r1
  r2 = r2
  r3 = r3
  e1 = e1
  o1 = o1
  t1 = t1
  t2 = t2
  Request = {r1, r2, r3}
  Delivery = {e1}
  Object = {o1}
  Topic = {t1, t2}
  ObjectOf <- SameObject
  TopicsOf <- MixedTopics
  Trusted <- LastTrusted
  ShadowFacade = TRUE
  MaxRotations = 1
INVARIANTS
  TypeOK
  NoRepublish
  DropJustified
  OtherTargetsServed
CHECK_DEADLOCK FALSE
