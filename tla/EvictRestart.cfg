CONSTANTS
  r0 = r0
  r1 = r1
  g1 = g1
  g2 = g2
  q1 = q1
  q2 = q2
  Ranks <- RanksOne
  Rank0 = r0
  Groups <- GroupsTwo
  NumLayers = 2
  Reqs <- ReqsTwo
  Prompts <- PromptsChain
  Lease = 0
  MaxTime = 2
  SubTicks = 2
  EvictBatch = 1
  EvictCounts <- CountsLeased
  PersistMode = "quiescent"
  MaxCrashes = 1
SPECIFICATION FairSpec
PROPERTIES
  EvictionFinishes
  RequestFinishes
  CutAdvances
INVARIANTS Consistency Completeness
