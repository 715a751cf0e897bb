CONSTANTS
  i1 = i1  i2 = i2  p1 = p1  a1 = a1  a2 = a2  h1 = h1
  None = None
  Item <- OneItem
  Identity <- OnePersona
  Account <- OneAccount
  Handler <- OneHandler
  MaxTime = 2
  Deletable <- OnePersona
  Surroundings <- Calm
SPECIFICATION Spec
INVARIANT CursorIsHonest
