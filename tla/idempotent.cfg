SPECIFICATION FairSpec
CONSTANTS
  a1 = a1
  a2 = a2
  Attempts = {a1, a2}
  StaleAfter = 2
  Kinds = {"request", "webhook"}
  None = None
INVARIANTS
  WrittenOnce
PROPERTIES
  AnswerKept
  Unblocked
