SPECIFICATION Spec
CONSTANTS
  MaxIssued = 3
  PlaybackIds <- OtherIds
  BackendStops = TRUE
  AgentStops = FALSE
  KeywordLogging = TRUE
CHECK_DEADLOCK FALSE
INVARIANT UnfetchedIsPollable
