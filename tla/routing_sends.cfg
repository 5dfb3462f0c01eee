CONSTANTS
  p1 = p1
  p2 = p2
  routed = routed
  other = other
  x1 = x1
  x2 = x2
  m1 = m1
  User = {1, 2, 3}
  Instance = {p1, p2}
  Status = {routed, other}
  Open = {routed, other}
  RoundRobin = {routed}
  StatusChange = {x1, x2}
  RoutingAssign = {}
  Reassign = {m1}
  FirstHolder <- OneHeld
  FirstRule <- TwoRules
  FirstTeam <- TeamOfTwo
  PoolChoice = {{}, {3}}
  MaxRequest = 3
  MaxChange = 1
  NoInstance = NoInstance
  NoStatus = NoStatus
  NoSession = NoSession
  Campaign = {c1}
  Lead = {l1}
  Drain = {d1, d2}
  Lease = 1
  MaxAttempts = 2
  BatchLimit = 1
  MaxAge = 2
  MaxFaults = 2
  NoSend = NoSend
SPECIFICATION MCSpec
INVARIANTS
  CursorIsFresh HandoversChain TurnsAreEven
  OverlapsAreOverruns DuplicatesAreExplained AttemptsCoverDeliveries
PROPERTIES ImplementsCustody OutcomesAreFinal
CHECK_DEADLOCK FALSE
SYMMETRY MCSymmetry
