CONSTANTS
  Nil = Nil
  Empty = Empty
  u1 = u1
  u2 = u2
  t1 = t1
  mine = mine
  other = other
  fh = fh
  fa = fa
  fb = fb
  fc = fc
  f1 = f1
  f2 = f2
  f3 = f3
  f4 = f4
  l1 = l1
  l2 = l2
  la = la
  lb = lb
  lc = lc
  ld = ld
SPECIFICATION ClientSpec
INVARIANTS PagesTypeOK OfferedIsTaken ShownIsOfTheServer
PROPERTIES RequestsChangeWhatWasEdited
CHECK_DEADLOCK FALSE
