CONSTANTS
  Groups <- OneGroup
  TensorKeys <- OneLayer
  Handlers = {h1, h2}
  Main = Main
  Omp = Omp
  Nobody = Nobody
  Operators <- WaitingOperator
  MaxBehind = 0
SPECIFICATION FairSpecWithCandidates
PROPERTY StoreReturns
