CONSTANTS
  d1 = d1  d2 = d2  h1 = h1  h2 = h2  a1 = a1  a2 = a2
  None = None
  Device <- TwoDevices
  Handler <- Alone
  Account <- TwoAccounts
  MaxRows = 2
  MaxKits = 1
  May <- Joiner
  Fragile <- OneDevice
SYMMETRY Symmetry
SPECIFICATION Spec
INVARIANTS TypeOK PinOpens KeychainNeverVanishes
PROPERTIES BundlesOpen
