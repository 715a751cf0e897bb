CONSTANTS
  m1 = m1  m2 = m2  unlocker = unlocker  right = right  wrong = wrong
  Msg <- TwoMessages
  Unlocker = unlocker
  Pin <- Pins
  Right = right
  Idle = 1
  MaxTime = 2
  MaxChain = 1
  Crashes = FALSE
  Prompt = FALSE
SYMMETRY Symmetry
SPECIFICATION Spec
INVARIANTS TypeOK IdleVaultIsClosed LockSticks PlaintextGone
PROPERTIES ClosesInTimeAlone
CHECK_DEADLOCK FALSE
