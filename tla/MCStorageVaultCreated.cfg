CONSTANTS
  Names = {"haus", "Haus"}
  Fold <- MCFold
  Keys = {"k1", "k2"}
  Short = "short"
  Rows = {1, 2, 3, 4, 5, 6, 7}
  PrintOf <- MCPrintOf
  OlderFiles <- MCOlderFiles
  MaxOps = 5
  MaxCrashes = 2
SPECIFICATION Spec
INVARIANTS CreatedIsThere
CHECK_DEADLOCK FALSE
