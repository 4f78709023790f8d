SPECIFICATION FairSpec
CONSTANTS
  MaxIssued = 3
  PlaybackIds <- SameIds
  BackendStops = FALSE
  AgentStops = FALSE
  KeywordLogging = TRUE
CHECK_DEADLOCK FALSE
INVARIANTS
  UnfetchedIsPollable
  KeptUntilBegun
PROPERTY CommandsAreExecuted
