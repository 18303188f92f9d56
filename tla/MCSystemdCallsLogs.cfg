CONSTANTS
  Chars <- AllChars
  Lines <- AllLines
  Options <- AllOptions
  Lists <- AllLists
  LineCounts <- Counts
  LogLines <- SmallLog
  LinkUnits = TRUE
  MaxUnits = 2
  MaxCalls = 2
SPECIFICATION Spec
PROPERTY LogsTellMissing
