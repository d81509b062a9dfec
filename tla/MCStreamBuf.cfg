SPECIFICATION Spec
CONSTANTS
  N = 4
  Data = {d1, d2}
  Invalid = Invalid
  Producers = {isr, backstop}
  Overlap = FALSE
INVARIANTS RingInv PutBackSlotKept TakesQueuedWord
PROPERTIES RefusedOnlyWhenFull FifoSpec
