CONSTANTS
  Procs = {p1, p2}
  Nobody = nobody
  Templates = {daily, broken}
  Poison = {broken}
  BadCron = {}
  CronNext <- MCCronNext
  Forever = 9
  LastTime = 1
  Overlap = 1
  MaxLapses = 0
  MaxErrors = 0
  MaxDeaths = 1
  Crashable = {}
  Closable = {}
SPECIFICATION FairSpec
PROPERTY OrphansLookedFor
CHECK_DEADLOCK FALSE
