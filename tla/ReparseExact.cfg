\* One edit anywhere in any text: the invariant as reparse.rs states it.
SPECIFICATION Spec
CONSTANTS
  Seeds <- SeedsDef
  Inserts <- InsertsDef
  MaxReplaced = 2
  MaxEdits = 1
INVARIANT ReparseIsFullParse
CHECK_DEADLOCK FALSE
