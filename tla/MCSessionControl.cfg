SPECIFICATION Spec
CONSTANTS
  Prompts = {p1, p2}
  Cancels = {c1}
  RunIDs = {r1}
  NoRun = NoRun
  MaxAttempts = 2
  MaxFaults = 1
SYMMETRY UpdateSymmetry
INVARIANTS StreamingIsLive ReturnedRunStored FailedNamesFailedRun
PROPERTY RunRowLegal
CHECK_DEADLOCK FALSE
