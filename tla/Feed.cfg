SPECIFICATION MCSpec
CONSTANTS
  d1 = d1
  d2 = d2
  d3 = d3
  Delivery = {d1, d2, d3}
  Size <- MixedSize
  Names <- MixedNames
  Worker = {w1, w2}
  QueueDepth = 1
  QueueBytes = 2
  Retries = 1
  Enforce = TRUE
  NoDelivery = NoDelivery
  o1 = o1
  o2 = o2
  o3 = o3
  AlsoOffers = {o1, o2, o3}
  AlsoSize <- AlsoSizes
  ShadowOffers = {o1, o2}
  TargetWorker = {w1, w2}
  TargetDepth = 1
  AlsoBytes = 3
  AlsoRetries = 1
  Answers <- FewAnswers
  NoTargetOffer = NoTargetOffer
  NoAnswer = NoAnswer
INVARIANTS
  BytesAccounted
  DeliveryAccounted
  TargetBytesAccounted
  EveryOfferCounted
  VerdictsRight
PROPERTIES
  AcceptedSettles
  TargetsLetGo
CHECK_DEADLOCK FALSE
