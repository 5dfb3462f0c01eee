CONSTANTS
  u1 = u1
  u2 = u2
  u3 = u3
  chief = chief
  clerk = clerk
  d1 = d1
  d2 = d2
  x1 = x1
  x2 = x2
  User = {u1, u2, u3}
  Role = {chief, clerk}
  Department = {d1, d2}
  Team = {1, 2}
  TeamDepartment <- BothInD1
  Session = {x1, x2}
  Organizations <- MCOrganizations
  MaxRequest = 2
  NoUser = NoUser
  NoRole = NoRole
  NoDepartment = NoDepartment
  NoTeam = NoTeam
  View = View
  None = None
  none = none
  some = some
  own = own
  all = all
  Grants = {none, some}
  Nobody = none
  MaxRecords = 2
  MaxSaves = 2
  MaxSurprises = 1
  Catalog <- Actions
  Sorted <- Alphabetically
  Scoped <- Ranged
  Scope = {own, all}
  Default = own
  Widest = all
  Journey = {1}
  FieldId = {1}
  Level = {View}
  MaxEdits = 2
  MaxPuts = 2
SPECIFICATION MCSpec
INVARIANTS TeamsAreLed MembersServe NoDeadlock SavesChangeWhatWasEdited
PROPERTIES AdministratorsRemain RolesKeepServing ChartStaysLoopless FieldSidesQueue
CHECK_DEADLOCK FALSE
