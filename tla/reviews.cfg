SPECIFICATION RatingFairSpec
CONSTANTS
  r1 = r1
  r2 = r2
  job = job
  Reviews = {r1, r2}
  Job = job
  Stars = {1, 5}
  Window = 1
  CatchUp = 3
  MaxDay = 5
INVARIANTS
  RatingOfVisible
PROPERTIES
  RatingCatchesUp
CHECK_DEADLOCK FALSE
