CONSTANTS
  o1 = o1
  o2 = o2
  t1 = t1
  t2 = t2
  p1 = p1
  routed = routed
  other = other
  x1 = x1
  x2 = x2
  m1 = m1
  Nothing = Nothing
  Organization = {o1, o2}
  CampaignsOf <- MCCampaignsOf
  Campaign = {t1, t2}
  Lead = {l1}
  Drain = {h1, d1}
  Handler = {h1}
  Toggled = {t1}
  NoDrain = NoDrain
  Lease = 0
  MaxAttempts = 1
  BatchLimit = 1
  MaxAge = 0
  MaxFaults = 1
  NoSend = NoSend
SPECIFICATION MCSpec
PROPERTIES PendingIsDrained EveryRequestEnds
CHECK_DEADLOCK FALSE
