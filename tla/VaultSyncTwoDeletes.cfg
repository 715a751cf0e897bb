CONSTANTS
  i1 = i1  i2 = i2  p1 = p1  a1 = a1  a2 = a2  h1 = h1
  None = None
  Item <- TwoItems
  Identity <- Nothing
  Account <- OneAccount
  Handler <- OneHandler
  MaxTime = 3
  Deletable <- TwoItems
  Surroundings <- Calm
SPECIFICATION Spec
PROPERTY DeletionDelivered
