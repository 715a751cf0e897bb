CONSTANTS
  i1 = i1  i2 = i2  p1 = p1  a1 = a1  a2 = a2  h1 = h1
  None = None
  Item <- OneItem
  Identity <- OnePersona
  Account <- TwoAccounts
  Handler <- OneHandler
  MaxTime = 2
  Deletable <- OneItem
  Surroundings <- AnyFaults
SPECIFICATION Spec
SYMMETRY Symmetry
INVARIANTS TypeOK OneDrain OneAccountPerSync CursorIsHonest ResetLeavesNothing
PROPERTIES NeverOlder NothingVanishes DeletionDelivered KeepsContract
