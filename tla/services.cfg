CONSTANTS
  k1 = k1
  u1 = u1
  u2 = u2
  a = a
  b = b
  x1 = x1
  x2 = x2
  NoOne = NoOne
  f1 = f1
  f2 = f2
  Session = {x1, x2}
  File <- MCFile
  MatchKey = {k1}
  Configs <- MCConfigs
  User = {u1, u2}
  MaxRun = 2
  MaxOther = 1
  Blank = Blank
  c1 = c1
  c2 = c2
  c3 = c3
  n1 = n1
  n2 = n2
  Person = {u1, u2}
  Manager <- MCManager
  Holders = {u2}
  Field = {a, b}
  Rule = {1}
  Handler = {x1, x2}
  Settings <- MCSettings
  Shares <- MCShares
  MaxEdit = 3
  MaxActivity = 1
  NoUser = NoOne
  NoField = NoOne
  Worker = {c1, c2, c3}
  Name = {n1, n2}
  MaxUpload = 2
  MaxRow = 2
  Prefix = Prefix
  Client = {x1, x2}
  Password = {n1, n2}
  NoHash = NoHash
  MaxTime = 2
  Window = 1
  LockFor = 1
  SessionTtl = 1
  TokenTtl = 1
  MaxAttempts = 2
  MaxSession = 2
  MaxToken = 2
  MaxWrite = 3
  MaxFail = 3
  Sheet = {f1, f2}
  Header = {"h", "i"}
  Custom = {"field"}
  OwnerType = {"owner"}
  Journey = {"a", "b"}
  Statuses <- StatusesOf
  FieldsOf <- UsedBy
  Skip = "skip"
  LeadName = "name"
  Unset = NoOne
  MaxEdits = 6
  MaxRequests = 4
SPECIFICATION MCSpec
INVARIANTS AccountIsGuarded FilesAreStored CommitsWerePreviewed
PROPERTIES ImportsAddUp ConcernedAreTold
CHECK_DEADLOCK FALSE
SYMMETRY MCSymmetry
