\* Every program of up to four statements, and every file of up to five lines
\* of the kinds in Files.
SPECIFICATION MCSpec
CONSTANTS
  Programs <- AllPrograms
  MaxDepth = 2
  MaxFrames = 3
  Texts <- Files
  RuleOrder <- MCRuleOrder
  Rewrites <- MCRewrites
  Deletes = {"d"}
  Unsafe = {"d"}
  Selections <- MCSelections
  MaxFixIterations = 2
  MaxRuns = 1
INVARIANTS UnusedIsNeverRead RenameKeepsBindings NothingDeadRuns
PROPERTIES OnlyReportedIsChanged SuppressionIsStable
CHECK_DEADLOCK FALSE
