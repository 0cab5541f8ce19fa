SPECIFICATION Spec
CONSTANTS
  l1 = l1
  l2 = l2
  r1 = r1
  r2 = r2
  g0 = g0
  a1 = a1
  c1 = c1
  c2 = c2
  m2 = m2
  m3 = m3
  f2 = f2
  f3 = f3
  f4 = f4
  b2 = b2
  Easy = {g0}
  Header = {g0, a1, c1, c2}
  ParentOf <- MCParent
  HeightOf <- MCHeight
  Target <- MCTarget
  Work <- MCWork
  MinTarget = 5
  Anchor = a1
  MaxHeight = 2
  HeightWrap = 100
  Window = 1
  WarmDepth = 1
  FallbackCap = 2
  UseAnchor = TRUE
  Lane = {l1, l2}
  Reader = {r1, r2}
  NoHeader = NoHeader
SYMMETRY ActorSymmetry
CONSTRAINT Crew
INVARIANTS
  LaneAnswers
  AnswerHeights
