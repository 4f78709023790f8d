\* Three handlers at once over one session and two downloaded files.
\* A cancelled session takes no more calls; waiting calls are CallsEnd's subject.
CHECK_DEADLOCK FALSE
CONSTANTS
  Tasks = {t1, t2, t3}
  Files = {f1, f2}
  NoFile = NoFile
  NoTask = NoTask
  max_concurrent = 2
SPECIFICATION FairSpec
INVARIANT TypeOK
INVARIANT RowsHaveFiles
INVARIANT ReadyIsPlayable
PROPERTY CallsEnd
