CONSTANTS
  j = j
  t = t
  fd = fd
  sv = sv
  c = c
  n = n
  x1 = x1
  x2 = x2
  fa = fa
  fb = fb
  fc = fc
  Missing = Missing
  A = A
  B = B
  C = C
  y1 = y1
  y2 = y2
  m1 = m1
  m2 = m2
  Entity <- All
  KindOf <- MCKindOf
  Home <- MCHome
  SystemDefault = {}
  Row <- MCRow
  Grants <- MCGrants
  Session = {x1, x2}
  NoEntity = NoEntity
  NoRow = NoRow
  NoSession = NoSession
  Field = {fa, fb, fc}
  Journey = {1, 2}
  Value = {1, 2}
  Writer = {x1, x2}
  Worlds <- MCWorlds
  MaxRequest = 2
  NoField = NoEntity
  NoJourney = NoRow
  Card = {y1, y2}
  Column = {A, B, C}
  Slot = {m1, m2}
  Absent = NoRow
  PageSize = 1
  MaxPages = 2
  MaxDrops = 2
SPECIFICATION MCSpec
INVARIANTS PurgesAreAccountedFor InactiveIsQuiet QuietBoardIsTrue
PROPERTIES ValuesAreRight
CHECK_DEADLOCK FALSE
SYMMETRY MCSymmetry
