SPECIFICATION FairSpec
CONSTANTS
  Calls = {c1, c2, c3}
  Nobody = Nobody
  PipeCap = 1
  MaxNoise = 1
INVARIANTS SendSafe NoCallForgotten AnswersMatch
PROPERTIES ExitReleasesCallers EncodeBlocksOnlyInCycle
CHECK_DEADLOCK FALSE
