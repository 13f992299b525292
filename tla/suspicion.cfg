CONSTANTS
  Jobs = {1}
  Queues = {1, 2}
  Workers = {w1, w2}
  None = None
  QueueOf <- OneQueue
  Deps <- NoDeps
  MaxAttempts <- OneAttempt
  Limit <- LimitOne
  Capacity = 1
  FailJobs = {}
  MaxClaims = 3
  MaxDbErrors = 1
  Fallible = {"claim", "run", "pass"}
  Crashable = {w1}
  FalseSuspects = {w1}
  Detectors = {w2}
  Cancellable = {1}
  Pausable = {1}
  Requeueable = {1}
SPECIFICATION Spec
INVARIANTS TypeOK DeadLetterHasEntry SlotsWithinLimit CompletedHasRecord LoadWithinCapacity
CHECK_DEADLOCK FALSE
