CONSTANTS
  Users = {u1, u2}
  Calls = {c1, c2}
  AccessTTL = 1
  RefreshTTL = 2
  LastTime = 3
  MaxLost = 1
  None = none
SPECIFICATION FairSpec
INVARIANT TypeOK
PROPERTY RefreshHonoured
PROPERTY NobodyWatches
CHECK_DEADLOCK FALSE
