SPECIFICATION FairSpec
CONSTANTS
  v1 = v1
  v2 = v2
  nobody = nobody
  Valets = {v1, v2}
  Nobody = nobody
  LastRound = 1
  Distances = {0, 10003}
  MaxCalls = 2
  MaxSearches = 2
INVARIANTS
  TakenIsSettled
  ChargedForWorkDone
PROPERTIES
  LifecycleSpec
  OfferResolves
CHECK_DEADLOCK FALSE
