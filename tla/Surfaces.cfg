CONSTANTS
  None = None
  Field <- Fields
  Markup <- Page1
  Layout <- Layouts
  Match = {"l1", "k1"}
  MatchOf <- Anna
  Ranked <- Order
  Personas <- People
  Suggestions <- Known
  MaxSwaps = 1
  MaxAsks = 1
  Nothing = Nothing
  Item = {"i"}
  Persona = {"p"}
  Kept <- Full
  MaxCalls = 2
  MaxClicks = 2
  NoTry = NoTry
  Text <- Texts
  Enough <- Long
  Right = "pin"
  MaxStrokes = 4
  MaxPresses = 2
  Absent = Absent
  Blob = {"a", "b"}
  Sort <- Sorts
  MaxCopies = 2
  Row = {"ann", "ann2", "key"}
  KeysOf <- Keys
  File = {"csv", "zip", "broken"}
  RowsOf <- Exports
  AtFirst = {"ann"}
  Unset = Unset
  MaxPicks = 2
  MaxImports = 2
SPECIFICATION Spec
CHECK_DEADLOCK FALSE
INVARIANTS SurfacesTypeOK HighlightIsListed LockedIsNotEmpty SurfacesHonest
PROPERTIES SurfacesSettle
