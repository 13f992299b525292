CONSTANTS
  Jobs = {1}
  Queues = {1}
  Workers = {w1}
  None = None
  QueueOf <- OneQueue
  Deps <- NoDeps
  MaxAttempts <- OneAttempt
  Limit <- LimitOne
  Capacity = 1
  FailJobs = {}
  MaxClaims = 1
  MaxDbErrors = 0
  Fallible = {"claim", "run", "pass"}
  Crashable = {}
  FalseSuspects = {}
  Detectors = {}
  Cancellable = {1}
  Pausable = {}
  Requeueable = {}
SPECIFICATION Spec
INVARIANT SlotsReturned
