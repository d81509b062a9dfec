SPECIFICATION Spec
CONSTANTS
  MaxBlocks = 7
  IdMod = 8
  MaxTO = 2
  MaxWaiting = 6
  Environments <- Slow
INVARIANTS FilledInTurn
CHECK_DEADLOCK FALSE
