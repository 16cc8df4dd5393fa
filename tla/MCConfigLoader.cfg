SPECIFICATION FairLoader
CONSTANTS
  Callers = {l1}
  Loop = loop
  Readers = {r1}
  MaxVersion = 4
  NoHolder = NoHolder
INVARIANTS ServedIsGood
PROPERTIES NeverBack Reloads
