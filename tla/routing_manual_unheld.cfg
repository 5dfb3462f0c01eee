CONSTANTS
  p1 = p1
  p2 = p2
  routed = routed
  other = other
  x1 = x1
  x2 = x2
  m1 = m1
  User = {1, 2, 3}
  Instance = {p1, p2}
  Status = {routed, other}
  Open = {routed, other}
  RoundRobin = {routed}
  StatusChange = {x1}
  RoutingAssign = {m1}
  Reassign = {}
  FirstHolder <- OneHeld
  FirstRule <- UserRule
  FirstTeam <- TeamOfTwo
  PoolChoice = {{}, {2}}
  MaxRequest = 2
  MaxChange = 0
  NoInstance = NoInstance
  NoStatus = NoStatus
  NoSession = NoSession
SPECIFICATION Spec
PROPERTIES NeverUnheld
CHECK_DEADLOCK FALSE
