SPECIFICATION FairSpec
CONSTANTS
  Paths = {p1, p2}
  ABPaths = {p2}
  NoPath = NoPath
  NHandlers = 3
  NMappings = 3
  NoMap = NoMap
  ABMap = ABMap
  IdMod = 4
  InFrames = 3
  Environments <- All
INVARIANTS DmaSafe ActivePath ListSound ReplyFindsRequest NoLeak
PROPERTIES CallsReturn
CHECK_DEADLOCK FALSE
