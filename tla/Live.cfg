SPECIFICATION MCSpec
CONSTANTS
  b1 = b1
  b2 = b2
  u1 = u1
  u2 = u2
  p1 = p1
  k1 = k1
  v1 = v1
  r1 = r1
  r2 = r2
  s1 = s1
  m1 = m1
  t1 = t1
  d1 = d1
  d2 = d2
  Creates = {c1}
  Designs = {g1}
  Runs = {x1, x2}
  MaxDay = 1
  Window = 1
  DateLag = 0
  None = None
  Callers = {o1}
INVARIANTS
  PostsTruthful
  ClosedOnceInTime
  MessagesKept
  OwnTimerRuns
PROPERTIES
  EveryPostAnswered
  RequestsEnd
  CallsEnd
  OutboundEnds
