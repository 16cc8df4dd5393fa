SPECIFICATION FairSpec
CONSTANTS
  Clients = {c1, c2}
  prompt = prompt
  cancel = cancel
  Publishers = {prompt, cancel}
  Cap = 1
  MaxEvents <- MCMaxEvents
  MaxOpen <- MCMaxOpen
INVARIANTS SendOpen
PROPERTIES  SubscriberReleased
CHECK_DEADLOCK FALSE
