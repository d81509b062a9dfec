SPECIFICATION DriverSpec
CONSTANTS
  W = 4
  MaxDepth = 2
  Writers = {w1, w2}
  Environments <- Both
  Width = 3
  HbEnvironments <- HbAll
  Cards = {c1, c2}
  NoCard = NoCard
  MAXDEV = 3
  MaxLoads = 2
  MaxPaths = 1
  DtEnvironments <- DtOneByOne
CHECK_DEADLOCK FALSE
INVARIANTS WalkIsMask MaskedExactly LockKnown HeartbeatIsRate
INVARIANTS NoStaleUse FindsOwn CleanUnload ReadyWhenUsed
