SPECIFICATION FairSpec
CONSTANTS
  MFAs = {m1, m2}
  NoMfa = NoMfa
  N = 4
  Overlap = FALSE
  BadMfaThreshold = 0
  Glitches = TRUE
PROPERTIES PostedIsReturned
