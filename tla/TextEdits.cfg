SPECIFICATION Spec
CONSTANTS
  Bytes <- MCBytes
  Newline = "n"
  Width <- MCWidth
  InitialTexts <- MCInitialTexts
  Positions <- MCPositions
  Inserts <- MCInserts
  Encoding = "utf-16"
  MaxLen = 6
  MaxChanges = 2
INVARIANTS PatchedIndexIsRebuilt PositionsAreConsistent RenameFindsTheName DiffEditIsExact ParseIsOfTheText
CHECK_DEADLOCK FALSE
