SPECIFICATION FairSpec
CONSTANTS
  NumBlocks = 3
  Calls <- MCCalls
  Op <- MCOp
  Keys <- MCKeys
  None = None
INVARIANTS
  OneOwner
  InFlightOwned
  SavesRight
  LoadsRight
  RaiseJustified
PROPERTIES
  CallReturns
CHECK_DEADLOCK FALSE
