SPECIFICATION FairSpec
CONSTANTS
  MaxIssued = 2
  PlaybackIds <- OtherIds
  BackendStops = FALSE
  AgentStops = FALSE
  KeywordLogging = FALSE
CHECK_DEADLOCK FALSE
PROPERTY AgentPolls
