SPECIFICATION MCSpec
CONSTANTS
  u1 = u1
  u2 = u2
  p1 = p1
  p2 = p2
  Users = {u1}
  Proposals = {p1}
  Owner <- MCOwner
  Slots = {s1, s2}
  Times = {t1, t2}
  Creates = {c1, c2, c3}
  Cancels = {k1, k2}
  Savers = {v1}
  MaxRequests = 4
  None = None
SYMMETRY MCSymmetry
INVARIANTS
  TypeOK
  OneActivePerProposal
  SlotsMatchReservations
  ClientsToldTheTruth
PROPERTIES
  FinalStatusFrozen
  ImplementsBooking
