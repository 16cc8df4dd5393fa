SPECIFICATION Spec
CONSTANTS
  q1 = q1
  q2 = q2
  n1 = n1
  n2 = n2
  c1 = c1
  c2 = c2
  c3 = c3
  none = none
  Requests = {q1, q2}
  Containers = {c1, c2, c3}
  Inputs <- MCInputs
  Docs <- MCDocs
  Nodes <- MCNodes
  Host <- linux
INVARIANTS TypeOK  
CHECK_DEADLOCK FALSE
