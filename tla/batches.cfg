CONSTANTS
  q1 = q1
  Jobs = {j1, j2}
  TotalJobs = 1
  Queues = {q1}
  Workers = {w1, w2}
  Detectors = {d1}
  QueueOf <- Together
  Limit <- MCLimit
  MaxAttempts = 2
  FailJobs = {j1}
  Crashable = {w1}
  Lapsing = {}
  MaxErrors = 1
  None = none
SPECIFICATION FairSpec
INVARIANT TypeOK
INVARIANT BatchTellsTruth
INVARIANT NoDeadlock
PROPERTY BatchEnds
CHECK_DEADLOCK FALSE
