SPECIFICATION Spec
CONSTANTS
  Prompts = {p1, p2}
  RunIDs = {r1, r2}
  None = None
  BufCap = 1
  MaxChunks = 1
  MaxZero = 1
SYMMETRY RunSymmetry
INVARIANTS TypeOK MappedChannelsOpen ChannelIsMine NoEventLost OutcomeGenuine
CHECK_DEADLOCK FALSE
