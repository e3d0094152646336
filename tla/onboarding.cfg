SPECIFICATION Spec
CONSTANTS
  s1 = s1
  s2 = s2
  nobody = nobody
  dead = dead
  Submits = {s1, s2}
  Nobody = nobody
  Dead = dead
  MaxTime = 2
  MaxLost = 1
SYMMETRY SubmitSymmetry
INVARIANTS
  MadeOnce
  StatusSettles
  QualifiedIsGranted
CHECK_DEADLOCK FALSE
