SPECIFICATION Spec
CONSTANTS
  MaxIssued = 3
  PlaybackIds <- SameIds
  BackendStops = TRUE
  AgentStops = TRUE
  KeywordLogging = TRUE
CHECK_DEADLOCK FALSE
INVARIANTS
  TypeOK
  InOrderOnce
