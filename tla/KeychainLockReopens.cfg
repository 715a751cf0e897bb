CONSTANTS
  m1 = m1  m2 = m2  unlocker = unlocker  right = right  wrong = wrong
  Msg <- OneMessage
  Unlocker = unlocker
  Pin <- Pins
  Right = right
  Idle = 2
  MaxTime = 3
  MaxChain = 1
  Crashes = FALSE
  Prompt = TRUE
SPECIFICATION Spec
PROPERTIES StaysClosed
