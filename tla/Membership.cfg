SPECIFICATION Spec
CONSTANTS
  PathOrder <- PathOrderDef
  RootsAtStart <- NestedRoots
  NewFolders <- OtherFolder
  Excluded <- ExcludedDef
  FileBatches <- AllBatches
  DirRenames <- DirRenamesDef
  FilesAtStart <- FilesDef
  MaxChanges = 3
INVARIANTS NoStaleMembers RenamedAwayIsDropped MembersAreRead RootsFollow
CHECK_DEADLOCK FALSE
