SPECIFICATION Spec
CONSTANTS
  l1 = l1
  g0 = g0
  a1 = a1
  c1 = c1
  c2 = c2
  m2 = m2
  m3 = m3
  f2 = f2
  f3 = f3
  f4 = f4
  b2 = b2
  Easy = {b2}
  Header = {g0, a1, m2, m3, f2, f3, f4, b2}
  ParentOf <- MCParent
  HeightOf <- MCHeight
  Target <- MCTarget
  Work <- MCWork
  MinTarget = 5
  Anchor = a1
  MaxHeight = 4
  HeightWrap = 100
  Window = 2
  WarmDepth = 0
  FallbackCap = 2
  UseAnchor = TRUE
  Lane = {l1}
  Reader = {}
  NoHeader = NoHeader
INVARIANTS
  CanonServedAcrossGap
