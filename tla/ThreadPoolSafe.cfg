CONSTANTS
  Size = 3
  Callers = {c1, c2}
  MaxRuns = 3
SPECIFICATION FairSpec
INVARIANTS FnAlive TeamRan
PROPERTY RunReturns
CHECK_DEADLOCK FALSE
