SPECIFICATION Spec
CONSTANTS
  Clients = {c1}
  prompt = prompt
  cancel = cancel
  Publishers = {prompt, cancel}
  Cap = 1
  MaxEvents <- MCMaxEvents
  MaxOpen <- MCMaxOpen
PROPERTY HeadersMeanSubscribed
CHECK_DEADLOCK FALSE
