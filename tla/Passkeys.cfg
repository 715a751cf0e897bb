CONSTANTS
  c1 = c1  c2 = c2  k1 = k1  None = None
  Call <- TwoCalls
  Cred <- OneCred
  May <- MayAsk
  MaxMoves = 2
SPECIFICATION Spec
INVARIANTS TypeOK ActsAsApproved AbortedDoesNothing PromptIsLive SuccessIsReal ExcludedIsRefused
PROPERTIES CallsSettle
CHECK_DEADLOCK FALSE
