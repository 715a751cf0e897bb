CONSTANTS
  c1 = c1  c2 = c2  k1 = k1  None = None
  Call <- OneCall
  Cred <- OneCred
  May <- MayAsk
  MaxMoves = 2
SPECIFICATION Spec
INVARIANTS ListIsFresh
CHECK_DEADLOCK FALSE
