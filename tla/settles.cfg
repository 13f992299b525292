CONSTANTS
  Jobs = {1, 2, 3}
  Queues = {1}
  Workers = {w1, w2}
  None = None
  QueueOf <- OneQueue
  Deps <- LastOnFirst
  MaxAttempts <- TwoAttempts
  Limit <- LimitOne
  Capacity = 2
  FailJobs = {2}
  MaxClaims = 3
  MaxDbErrors = 1
  Fallible = {"claim", "pass"}
  Crashable = {w1}
  FalseSuspects = {}
  Detectors = {w1, w2}
  Cancellable = {}
  Pausable = {}
  Requeueable = {}
SPECIFICATION FairSpec
INVARIANT DependencyOrder
PROPERTIES EventuallySettles OrphansRecovered ImplementsBoard
