SPECIFICATION Spec
CONSTANTS
  Ids = {b1, b2}
  TVs = {d1}
  Slots <- MCSlots
  None = None
  Workers = {w1}
  Serial = TRUE
CHECK_DEADLOCK FALSE
INVARIANT ConflictIsReported
