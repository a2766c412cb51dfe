SPECIFICATION Spec
CONSTANTS
  s1 = s1
  s2 = s2
  m1 = m1
  m2 = m2
  t1 = t1
  Requests = {r1}
  Shops = {s1}
  Messages = {m1, m2}
  Sender <- MCOneSender
  Deliveries = {d1, d2}
  Times = {t1}
  Offers <- MCOffers
  MaxSent = 1
  None = None
SYMMETRY MCSymmetry
INVARIANTS
  TimesStoredOnce
