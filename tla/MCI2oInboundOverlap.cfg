SPECIFICATION Spec
CONSTANTS
  MFAs = {m1, m2, m3}
  NoMfa = NoMfa
  N = 4
  Overlap = TRUE
  BadMfaThreshold = 1
  Glitches = FALSE
INVARIANTS MfaConserved
