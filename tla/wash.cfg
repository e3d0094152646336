SPECIFICATION FairSpec
CONSTANTS
  w1 = w1
  w2 = w2
  nobody = nobody
  Washers = {w1, w2}
  Nobody = nobody
  LastRound = 1
  Price = 29999
  Orders = {1, 2}
  MaxCalls = 2
  MaxSearches = 1
INVARIANTS
  BilledWhileItStands
PROPERTIES
  SearchResolves
CHECK_DEADLOCK FALSE
