CONSTANTS
  g1 = g1
  g2 = g2
  b1 = b1
  b2 = b2
  b3 = b3
  Groups <- MCGroups
  Tensors <- OneTensor
  Buffers <- MCBuffers
  SizeOf <- MCSizeOf
  Nil = Nil
  Batches <- MCBatches
  Evictors = {e1}
  EvictCalls <- MCCalls
  MaxPersist = 1
SPECIFICATION FairSpec
INVARIANTS HeapExact DetachedApart Bookkeeping
PROPERTY FreedWhenIdle
CHECK_DEADLOCK FALSE
