CONSTANTS
  Status = {a, b, c}
  Instance = {p, q}
  User = {1, 2}
  Ruled = {b}
  SetDefault = {d1, d2}
  Retire = {r1}
  Change = {c1, c2}
  FirstStatus = a
  Outside = {q}
  FirstDefaults = {a, NoStatus}
  MaxRequest = 2
  NoStatus = NoStatus
  NoInstance = NoInstance
SPECIFICATION Spec
INVARIANT OneDefault
CHECK_DEADLOCK FALSE
