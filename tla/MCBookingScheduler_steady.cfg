SPECIFICATION FairScheduler
CONSTANTS
  Ids = {b1, b2}
  TVs = {d1}
  Slots <- MCSlots
  None = None
  Workers = {w1}
  Serial = TRUE
  Horizon = 4
  Crashes = FALSE
  MappingArgs = TRUE
CHECK_DEADLOCK FALSE
PROPERTY ArmedBookingEnds
