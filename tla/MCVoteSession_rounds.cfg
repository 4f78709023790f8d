SPECIFICATION FairSpec
CONSTANTS
  Users = {u1, u2}
  Movies = {m1, m2, m3}
  None = None
  MinVotes = 2
  TopNChoices <- MCTopNChoices
  TopN0 = 5
  FactoryReady = TRUE
  ServiceCallers = TRUE
INVARIANTS
  TypeOK
  CountersMatchVotes
  FairRounds
  LegitimateOutcome
PROPERTIES
  FilterKeepsTopN
  SuggestionsEnd
  ArmedFinalVoteIsDecided
CHECK_DEADLOCK FALSE
