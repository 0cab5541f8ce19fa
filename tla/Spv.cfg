SPECIFICATION Spec
CONSTANTS
  Object <- MCObject
  Confs <- MCConfs
  Branch = {one, two}
  RootOf <- MCRootOf
  MaxHeight = 4
  StartHeight = 2
  MaxSats = 5
  CoinbaseMaturity = 2
  ConfiscationMaturity = 3
  LockTimeThreshold = 8
  Genesis = 1
  NoTx = NoTx
  NoPath = NoPath
  NoRoot = NoRoot
  a = a
  b = b
  c = c
  d = d
  gone = gone
  one = one
  two = two
INVARIANTS
  OKVerified
  RefusedJustified
  WorkReported
  TrustEarned
PROPERTY
  VerificationEnds
CHECK_DEADLOCK FALSE
