SPECIFICATION StreamFairSpec
CONSTANTS
  MaxBlocks = 7
  IdMod = 4
  MaxTO = 2
  MaxWaiting = 6
  NFILES = 2
  MAXFILE = 5
  Lengths = {1, 2, 6}
  Environments <- GoodAndBad
INVARIANTS EachBlockOnce InTurnForQuickClient StableWhileRead NewestKept
PROPERTIES ReachesEnd
CHECK_DEADLOCK FALSE
