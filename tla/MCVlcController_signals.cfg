SPECIFICATION FairSpec
CONSTANTS
  Poll = poll
  Shutdowns = {s1}
  MaxPlays = 3
CHECK_DEADLOCK FALSE
INVARIANTS
  TypeOK
  RunningVlcIsKnown
  ReportsAreTrue
PROPERTIES
  StopReturns
  SignalEndsAgent
