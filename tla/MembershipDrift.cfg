SPECIFICATION Spec
CONSTANTS
  PathOrder <- PathOrderDef
  RootsAtStart <- OneRoot
  NewFolders <- OtherFolder
  Excluded <- ExcludedDef
  FileBatches <- NoRename
  DirRenames <- NoRename
  FilesAtStart <- FilesDef
  MaxChanges = 3
INVARIANT MembersAreTheSeed
CHECK_DEADLOCK FALSE
