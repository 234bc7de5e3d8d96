SPECIFICATION Spec
CONSTANTS
  QatDevices <- MCQatDevices
  IaaDevices <- MCIaaDevices
  NumTensors = 2
  TensorBytes = 10
  Configs <- MCConfigs
  Growth = 1
  ReplayLimit = 1
  MaxSlots = 2
  None = None
INVARIANTS
  BlocksRight
  RoundTrip
  SlotsExclusive
PROPERTIES
  BatchEnds
CHECK_DEADLOCK FALSE
