SPECIFICATION SpecScheduler
CONSTANTS
  Ids = {b1, b2}
  TVs = {d1}
  Slots <- MCSlots
  None = None
  Workers = {w1}
  Serial = TRUE
  Horizon = 4
  Crashes = TRUE
  MappingArgs = TRUE
CHECK_DEADLOCK FALSE
SYMMETRY Symmetric
INVARIANTS
  TypeOKScheduler
  NoJobRunsTwice
  OneActiveInTime
  FutureJobsAreArmed
  MissedOnlyWhileDown
