SPECIFICATION FairSpec
CONSTANTS
  e1 = e1
  e2 = e2
  k1 = k1
  m1 = m1
  m2 = m2
  o1 = o1
  o2 = o2
  d1 = d1
  f1 = f1
  c1 = c1
  c2 = c2
  None = None
  Managers = {m1, m2}
  Ensures = {e1, e2}
  Keys = {k1}
  agentKey <- MCagentKey
  Opens = {o1, o2}
  SessionIDs = {sA}
  Containers = {c1, c2}
  RootSockets = {c1}
  Deletes = {d1}
  Finds = {f1}
  Mixes <- MCMixes
INVARIANTS SessionsAreRouted NoStrayProcess OnlyReplacedSessionsLost HandleReaches OrphansAccounted NotFoundGenuine
PROPERTY ExitIsNoticed
CHECK_DEADLOCK FALSE
