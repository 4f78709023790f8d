SPECIFICATION Spec
CONSTANTS
  Ids = {b1, b2}
  TVs = {d1}
  Slots <- MCSlots
  None = None
  Workers = {w1, w2}
  Serial = FALSE
CHECK_DEADLOCK FALSE
INVARIANT CheckedBookingsExclusive
