SPECIFICATION Spec
CONSTANTS
  b1 = b1
  b2 = b2
  p1 = p1
  p2 = p2
  r1 = r1
  r2 = r2
  Bookings = {b1}
  Payments = {p1, p2}
  Requests = {r1}
  NumSlots = 1
  MaxTime = 2
  PayWindow = 1
  Rates = {2}
  Unit = 1
  Surge <- MCSurge
  Sources = {"callback", "webhook"}
  Calls = {"order", "confirm", "check_in", "extend", "cancel", "admin_refund", "fail"}
  Overlapping = {}
  NoPayment = NoPayment
  ProcessingFee = 1
  Goodwill = 1
  Grace = 1
SYMMETRY RowSymmetry
INVARIANTS
  BilledWhileItStands
  CaptureNeverLost
  PaidOnce
  DischargesExplained
PROPERTIES
  CancelSettles
  NothingAfterFullReversal
CHECK_DEADLOCK FALSE
