\* One edit anywhere in a text; many of the edits leave it broken.
SPECIFICATION Spec
CONSTANTS
  Seeds <- SeedsDef
  Inserts <- InsertsDef
  MaxReplaced = 2
  MaxEdits = 1
INVARIANT RecoveredTreesAreLossless
PROPERTY CleanEditsAreExact
CHECK_DEADLOCK FALSE
