SPECIFICATION FairSpec
CONSTANTS
  a1 = a1
  a2 = a2
  f1 = f1
  Paths = {a1, a2, f1}
  MaxSkew = 0
  Settings <- CalmAndRough
INVARIANTS BusyBalanced BackstopWhileOpen MappedIsFilled 
PROPERTIES OpensAndClosesEnd
