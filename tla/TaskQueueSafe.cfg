CONSTANTS
  Items <- MCItems
  Callers = {c1, c2}
  MaxMoves = 2
  None = None
SPECIFICATION FairSpec
INVARIANT LayerOrder
PROPERTIES ImplementsExecutor TasksFinish
CHECK_DEADLOCK FALSE
