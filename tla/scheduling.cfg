CONSTANTS
  Procs = {p1, p2}
  Nobody = nobody
  Templates = {daily, broken}
  Poison = {}
  BadCron = {broken}
  CronNext <- MCCronNext
  Forever = 9
  LastTime = 1
  Overlap = 1
  MaxLapses = 1
  MaxErrors = 1
  MaxDeaths = 1
  Crashable = {p1}
  Closable = {p1}
SPECIFICATION FairSpec
INVARIANT TypeOK
INVARIANT AtMostOnce
PROPERTY ImplementsSchedule
PROPERTY SchedulesAdvance
PROPERTY OrphansLookedFor
PROPERTY StaleBeliefHeals
CHECK_DEADLOCK FALSE
