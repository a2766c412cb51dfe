SPECIFICATION MCSpec
CONSTANTS
  l1 = l1
  LoginIds = {l1, l2}
  SocialIds = {k1}
  Emails = {e1}
  Registered <- MCRegistered
  MaxUsers = 3
  MaxTime = 1
  Lifetime = 1
  Calls = {c1, c2}
  None = None
  MaxAddresses = 4
  AddressCalls = {a1}
  NoAddress = NoAddress
  People = {u1}
  Topics = {t1, t2}
  NoticeCalls = {n1, n2}
  MaxNotices = 2
  Owners = {o1, o2}
  Devices = {d1, d2}
  PushCalls = {p1, p2}
  MulticastLimit = 1
  Nobody = Nobody
  Bookings = {b1, b2}
  HoursKst = {0, 9, 20}
  LastDay = 1
INVARIANTS
  DeletionNotRefused
CHECK_DEADLOCK FALSE
