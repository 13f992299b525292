CONSTANTS
  Jobs = {1, 2}
  Queues = {1}
  Workers = {w1, w2, w3}
  None = None
  QueueOf <- OneQueue
  Deps <- NoDeps
  MaxAttempts <- TwoAttempts
  Limit <- LimitTwo
  Capacity = 2
  FailJobs = {2}
  MaxClaims = 2
  MaxDbErrors = 1
  Fallible = {"claim", "run", "pass"}
  Crashable = {w1}
  FalseSuspects = {}
  Detectors = {w2, w3}
  Cancellable = {}
  Pausable = {}
  Requeueable = {}
SPECIFICATION Spec
SYMMETRY DetectorSymmetry
INVARIANTS Exclusion SlotsCoverWork OneExecutor SlotsExact AttemptsNumberedOnce
PROPERTY LifecycleFollowed
