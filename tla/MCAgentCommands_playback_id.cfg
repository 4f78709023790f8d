SPECIFICATION Spec
CONSTANTS
  MaxIssued = 2
  PlaybackIds <- SameIds
  BackendStops = FALSE
  AgentStops = FALSE
  KeywordLogging = TRUE
CHECK_DEADLOCK FALSE
INVARIANT OnlyExecutedLeave
