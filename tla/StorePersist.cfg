CONSTANTS
  Groups <- OneGroup
  TensorKeys <- TwoLayers
  Handlers = {h1}
  Main = Main
  Omp = Omp
  Nobody = Nobody
  Operators <- PersistingOperator
  MaxBehind = 0
SPECIFICATION Spec
INVARIANT OnDisk
