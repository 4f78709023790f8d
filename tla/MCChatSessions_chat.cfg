SPECIFICATION Spec
CONSTANTS
  Tasks = {t1, t2}
  Members = {m1, m2}
  MaxSessions = 3
SYMMETRY Symmetric
CHECK_DEADLOCK FALSE
INVARIANTS
  TypeOK
  VotesMeetOnlyByRace
  SecondActiveIsRevived
