CONSTANTS
  r0 = r0
  r1 = r1
  g1 = g1
  g2 = g2
  q1 = q1
  q2 = q2
  Ranks <- RanksTwo
  Rank0 = r0
  Groups <- GroupsTwo
  NumLayers = 2
  Reqs <- ReqsOne
  Prompts <- PromptsChain
  Lease = 1
  MaxTime = 4
  SubTicks = 2
  EvictBatch = 1
  EvictCounts <- CountsLeased
  PersistMode = "quiescent"
  MaxCrashes = 0
SPECIFICATION Spec
INVARIANTS
  NoAbort
  Consistency
  NoPutToEvicting
  LeaseProtects
  ResidentAboveCut
  PauseHolds
