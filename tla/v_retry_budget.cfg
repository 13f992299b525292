CONSTANTS
  Jobs = {1}
  Queues = {1}
  Workers = {w1, w2}
  None = None
  QueueOf <- OneQueue
  Deps <- NoDeps
  MaxAttempts <- TwoAttempts
  Limit <- LimitOne
  Capacity = 1
  FailJobs = {1}
  MaxClaims = 2
  MaxDbErrors = 0
  Fallible = {"claim", "run", "pass"}
  Crashable = {w1}
  FalseSuspects = {}
  Detectors = {w2}
  Cancellable = {}
  Pausable = {}
  Requeueable = {}
SPECIFICATION Spec
INVARIANT RetryBudget
