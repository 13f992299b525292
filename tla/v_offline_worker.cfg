CONSTANTS
  Jobs = {1}
  Queues = {1}
  Workers = {w1, w2}
  None = None
  QueueOf <- OneQueue
  Deps <- NoDeps
  MaxAttempts <- OneAttempt
  Limit <- LimitOne
  Capacity = 1
  FailJobs = {}
  MaxClaims = 2
  MaxDbErrors = 0
  Fallible = {"claim", "run", "pass"}
  Crashable = {w1}
  FalseSuspects = {w1}
  Detectors = {w2}
  Cancellable = {}
  Pausable = {}
  Requeueable = {}
SPECIFICATION FairSpec
PROPERTY OrphansRecovered
