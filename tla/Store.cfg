CONSTANTS
  Groups <- OneGroup
  TensorKeys <- OneLayer
  Handlers = {h1}
  Main = Main
  Omp = Omp
  Nobody = Nobody
  Operators <- AnyOperator
  MaxBehind = 0
SPECIFICATION FairSpec
INVARIANTS DiskComplete LoadsServed
PROPERTY StoreReturns
