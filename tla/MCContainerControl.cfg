SPECIFICATION FairSpec
CONSTANTS
  s1 = s1
  i1 = i1
  i2 = i2
  n1 = n1
  l1 = l1
  h1 = h1
  d1 = d1
  digestA = digestA
  digestB = digestB
  Updates = {s1, i1, n1, l1, h1, d1}
  kind <- MCkind
  digest <- MCdigest
  Mixes <- MCMixes
  MaxAttempts = 2
  MaxFaults = 1
INVARIANTS HandleServes RowBacked DeleteReleases ReturnedSessionLives
PROPERTY DeleteCompletes
CHECK_DEADLOCK FALSE
