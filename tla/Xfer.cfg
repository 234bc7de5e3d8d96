CONSTANTS
  NumWq = 2
  Depth = 1
  MaxBatch = 2
  MaxXfer = 8
  PageSize = 8
  TicketAll = 99
  Waiters = {1, 2}
  None = None
  H2D = H2D
  D2H = D2H
  Submitters = {H2D, D2H}
  Procs <- MCProcs
SPECIFICATION Spec
CHECK_DEADLOCK FALSE
INVARIANTS
  TransfersLand
  WaitCovers
  BarInside
  AfterCompute
  DlistAlive
PROPERTIES
  XferReturns
