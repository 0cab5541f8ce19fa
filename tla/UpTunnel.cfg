SPECIFICATION FairSpec
CONSTANTS
  Record = {r1, r2}
  NoRecord = NoRecord
  NAddr = 2
  MaxResends = 1
  Grace = 1
  Prefer = 1
  MaxUnconfirmed = 1
  OutqKnown = TRUE
INVARIANTS
  TypeOK
  Conservation
  ConfirmedWasAcked
  ResendBudget
  AwayClock
PROPERTIES
  CleanCloseKeepsAcked
  EveryRecordSettles
  ImplementsDelivery
