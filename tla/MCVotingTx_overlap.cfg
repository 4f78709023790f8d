SPECIFICATION Spec
CONSTANTS
  Users = {u1, u2}
  Titles = {t1}
  Rows = {r1}
  Workers = {w1, w2}
  None = None
  MaxCount = 3
  MinVotes = 0
  TopNChoices = {2}
  TopN0 = 5
  ServiceCallers = FALSE
CHECK_DEADLOCK FALSE
SYMMETRY Symmetric
INVARIANTS
  NoInventedBallots
  DecidedHasWinner
