SPECIFICATION Spec
CONSTANTS
  MaxIssued = 2
  PlaybackIds <- OtherIds
  BackendStops = FALSE
  AgentStops = TRUE
  KeywordLogging = TRUE
CHECK_DEADLOCK FALSE
INVARIANT CommandsExecutedOnce
