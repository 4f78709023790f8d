SPECIFICATION Spec
CONSTANTS
  Ids = {b1, b2, b3}
  TVs = {d1, d2}
  Slots <- MCSlots
  Windows <- MCWindows
  None = None
  Workers = {w1}
  Serial = TRUE
CHECK_DEADLOCK FALSE
SYMMETRY Symmetric
INVARIANTS
  CheckedBookingsExclusive
  FreeSlotsCorrect
