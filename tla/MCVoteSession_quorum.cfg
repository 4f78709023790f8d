SPECIFICATION Spec
CONSTANTS
  Users = {u1, u2}
  Movies = {m1, m2}
  None = None
  MinVotes = 2
  TopNChoices <- MCTopNChoices
  TopN0 = 5
  FactoryReady = TRUE
  ServiceCallers = FALSE
CHECK_DEADLOCK FALSE
PROPERTY QuorumFailureCancels
