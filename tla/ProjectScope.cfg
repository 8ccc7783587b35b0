SPECIFICATION MCSpec
CONSTANTS
  Files = {f1, f2, f3}
  Roots = {"P"}
  NoRoot = NoRoot
  Dynamic = Dynamic
  Names = {"x"}
  Allowed <- MCAllowed
  Scripts = {1, 2, 3}
  Unknown = 98
  Computed = 99
  MaxLen <- MCMaxLen
SYMMETRY Symmetry
INVARIANTS LayersArePairwise ReplayIsExecution RenameIsSoundInReaders
CHECK_DEADLOCK FALSE
