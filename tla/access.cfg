CONSTANTS
  v = v
  m = m
  a = a
  j1 = j1
  j2 = j2
  s1 = s1
  s2 = s2
  s3 = s3
  d1 = d1
  User = {v, m, a}
  DepartmentOf <- MCDepartmentOf
  Journey = {j1, j2}
  Status = {s1, s2, s3}
  JourneyOf <- MCJourneyOf
  Type = {"owner"}
  i1 = i1
  i2 = i2
  Instance = {i1, i2}
  Charts <- MCCharts
  Roles <- MCRoles
  MaxLeavers = 1
  MaxShares = 1
  NoUser = NoUser
  NoDepartment = NoDepartment
  Query <- MCQuery
  NoJourney = NoJourney
  NoStatus = NoStatus
SPECIFICATION Spec
INVARIANTS AccessIsOne TeamIsTheLineBelow QueriesStayWithin
PROPERTY DeparturesHideOnlyTheirOwn
SYMMETRY MCSymmetry
