SPECIFICATION FairSpec
CONSTANTS
  ProcessingFee = 2000
  Goodwill = 5000
  Grace = 15
  Bases = {10003}
  Waivers = {TRUE}
  Amounts = {3334}
  MaxRefunds = 2
  MaxAttempts = 2
  RetryLimit = 1
  Faulty = {1}
  MaxFaults = 2
  MaxDeliveries = 1
  MaxSettles = 1
INVARIANTS
  TypeOK
  SentOnce
  SettledOnce
  CalledOffLeavesNoTrace
  DriftBounded
PROPERTIES
  DecidedIsSettled
CHECK_DEADLOCK FALSE
