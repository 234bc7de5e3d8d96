CONSTANTS
  g1 = g1
  g2 = g2
  b1 = b1
  b2 = b2
  b3 = b3
  Groups <- MCGroups
  Tensors <- OneTensor
  Buffers <- MCBuffers
  SizeOf <- MCSizeOf
  Nil = Nil
  Batches <- MCBatches
  Evictors = {e1}
  EvictCalls <- OnlyGroups
  MaxPersist = 2
SPECIFICATION Spec
INVARIANT NoUseAfterFree
CHECK_DEADLOCK FALSE
