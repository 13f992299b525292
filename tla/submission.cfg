CONSTANTS
  r1 = r1
  r2 = r2
  r3 = r3
  r4 = r4
  k1 = k1
  p0 = p0
  Requests = {r1, r2, r3, r4}
  Menu <- MCMenu
  OldProjects = {p0}
  NoKey = nokey
  EmptyKey = emptykey
  Malformed = malformed
  None = none
  Unknown = unknown
  MaxFaults = 1
SYMMETRY Twins
SPECIFICATION Spec
INVARIANT TypeOK
INVARIANT KeyedOnce
INVARIANT KeyedAnswered
INVARIANT BatchWhole
INVARIANT TreeIntact
CHECK_DEADLOCK FALSE
