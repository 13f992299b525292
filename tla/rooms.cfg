CONSTANTS
  q1 = q1
  q2 = q2
  o1 = o1
  o2 = o2
  Sockets = {s1, s2}
  Queues = {q1, q2}
  Orgs = {o1, o2}
  OrgOf <- MCOrgOf
  Asks = {a1, a2, a3}
  None = none
SYMMETRY Sames
SPECIFICATION Spec
INVARIANT TypeOK
INVARIANT RoomsAuthorized
INVARIANT AnswersTrue
CHECK_DEADLOCK FALSE
