SPECIFICATION SpecScheduler
CONSTANTS
  Ids = {b1}
  TVs = {d1}
  Slots <- MCSlots
  None = None
  Workers = {w1}
  Serial = TRUE
  Horizon = 4
  Crashes = FALSE
  MappingArgs = FALSE
CHECK_DEADLOCK FALSE
PROPERTY ActivationActivates
