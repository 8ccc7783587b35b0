\* What the analyses promise of every program. TLC stops at the first that fails:
\* leave one of them at a time.
SPECIFICATION MCSpec
CONSTANTS
  Programs <- AllPrograms
  MaxDepth = 2
  MaxFrames = 3
  Texts <- Files
  RuleOrder <- MCRuleOrder
  Rewrites <- MCRewrites
  Deletes = {"d"}
  Unsafe = {"d"}
  Selections <- MCSelections
  MaxFixIterations = 2
  MaxRuns = 1
INVARIANTS UnusedIsNeverReadAnywhere RenameTakesItsRead NothingDeadRunsAnywhere
PROPERTY SuppressionIsStableAnywhere
CHECK_DEADLOCK FALSE
