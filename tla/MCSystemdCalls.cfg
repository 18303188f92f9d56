CONSTANTS
  Chars <- AllChars
  Lines <- AllLines
  Options <- AllOptions
  Lists <- AllLists
  LineCounts <- Counts
  LogLines <- SmallLog
  LinkUnits = TRUE
  MaxUnits = 2
  MaxCalls = 2
SPECIFICATION Spec
INVARIANTS
  ScanDecides
  OnlyAbsoluteWritten
  MaterializedAsBuilt
  WordsArrive
  TargetsLinked
  ReasonSurvives
PROPERTIES
  DiagnosticsKept
  LogsAnswered
  CallsReturnOrHang
CHECK_DEADLOCK FALSE
