SPECIFICATION Spec
CONSTANTS
  b1 = b1
  b2 = b2
  p1 = p1
  p2 = p2
  r1 = r1
  r2 = r2
  Bookings = {b1}
  Payments = {p1}
  Requests = {r1, r2}
  NumSlots = 1
  MaxTime = 3
  PayWindow = 1
  Rates = {1, 2}
  Unit = 2
  Surge <- MCSurge
  Sources = {"webhook"}
  Calls = {"order", "confirm", "check_in", "extend", "cancel", "admin_refund"}
  Overlapping = {"order", "extend", "cancel"}
  NoPayment = NoPayment
  ProcessingFee = 1
  Goodwill = 1
  Grace = 1
SYMMETRY RowSymmetry
INVARIANTS
  LiveHoldsSlot
  WindowPaidFor
PROPERTIES
  LifecycleSpec
CHECK_DEADLOCK FALSE
