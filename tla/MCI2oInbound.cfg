SPECIFICATION Spec
CONSTANTS
  MFAs = {m1, m2, m3}
  NoMfa = NoMfa
  N = 4
  Overlap = FALSE
  BadMfaThreshold = 1
  Glitches = TRUE
SYMMETRY Symmetry
INVARIANTS MfaConserved NoLostWakeup
PROPERTIES RingUse
