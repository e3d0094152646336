SPECIFICATION FairSpec
CONSTANTS
  b1 = b1
  b2 = b2
  p1 = p1
  p2 = p2
  r1 = r1
  r2 = r2
  Bookings = {b1}
  Payments = {p1}
  Requests = {r1, r2}
  NumSlots = 1
  MaxTime = 2
  PayWindow = 1
  Rates = {2}
  Unit = 1
  Surge <- MCSurge
  Sources = {"webhook"}
  Calls = {"order", "confirm", "check_in", "extend", "cancel", "fail"}
  Overlapping = {"order", "confirm", "check_in", "extend", "cancel"}
  NoPayment = NoPayment
  ProcessingFee = 1
  Goodwill = 1
  Grace = 1
PROPERTIES
  PendingResolves
  ActiveEnds
  PaidIsAnswered
CHECK_DEADLOCK FALSE
