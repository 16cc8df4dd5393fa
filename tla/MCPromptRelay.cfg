SPECIFICATION FairRelay
CONSTANT MaxEvents = 3
INVARIANTS RelayFaithful
PROPERTIES ClientAnswered NoOrphan
CHECK_DEADLOCK FALSE
