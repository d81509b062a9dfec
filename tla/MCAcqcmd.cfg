SPECIFICATION FairSpec
CONSTANTS
  States = {"ARM", "RUN", "STOP"}
  Course <- ArmRunStop
  NoState = NoState
  MaxLines = 2
  MaxLag = 2
  Options <- Uses
  Environments <- OneByOne
CHECK_DEADLOCK FALSE
INVARIANTS ResultIsSeen InStep
PROPERTIES EndsInTime
