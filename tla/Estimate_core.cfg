SPECIFICATION MCSpec
CONSTANTS
  s1 = s1
  s2 = s2
  m1 = m1
  m2 = m2
  m3 = m3
  t1 = t1
  Requests = {r1}
  Shops = {s1, s2}
  Messages = {m1, m2, m3}
  Sender <- MCSenders
  Deliveries = {d1, d2, d3}
  Times = {t1}
  Offers <- MCOffers
  MaxSent = 2
  None = None
  a1 = a1
  a2 = a2
  a3 = a3
  Asked = {a1, a2, a3}
  Stars <- MCStars
  Kilometres <- MCKilometres
  Prices = {1, 2}
  OfferTimes = {1}
  Readers = {c3}
  Missing = Missing
SYMMETRY MCSymmetry
INVARIANTS
  EstimatesTypeOK
  OneParsingPerMessage
  SavedWhole
  NoticesTruthful
  EveryShopOnce
  OffersInOrder
PROPERTY SelectedKept
