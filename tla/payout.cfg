SPECIFICATION FairSpec
CONSTANTS
  LastWeek = 2
  Earning = 20000
  MaxEarnings = 1
  MaxAccounts = 2
  MaxDeaths = 1
  MaxApplies = 2
  TcsRate = 100
  TdsRate = 10
INVARIANTS
  LedgerFollowsStatus
  NeverOverpaid
  ReplacedIsNotPaid
PROPERTIES
  PayoutResolves
  ReturnedIsOwedAgain
CHECK_DEADLOCK FALSE
