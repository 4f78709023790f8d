SPECIFICATION Spec
CONSTANTS
  Users = {u1, u2}
  Titles = {t1, t2}
  Rows = {r1, r2}
  Workers = {w1}
  None = None
  MaxCount = 3
  MinVotes = 1
  TopNChoices = {2}
  TopN0 = 5
  ServiceCallers = TRUE
CHECK_DEADLOCK FALSE
PROPERTY ImplementsVoteSession
