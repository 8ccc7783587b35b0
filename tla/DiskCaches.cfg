SPECIFICATION MCSpec
CONSTANTS
  Packages = {"p", "q"}
  Roots = {"r"}
  Server = "server"
  Clis = {"cli"}
  None = None
  MaxInstalled = 2
  MaxBuilds = 1
  MaxFaults = 1
  Fetchers = {1, 2}
  TTL = 2
  MaxEdition = 2
  MaxClock = 3
  MaxFetchFaults = 2
  Checkers = {1, 2}
  Versions = {1, 2}
  Styles = {1, 2}
  Contents = {"grammar", "markdown", "version", "style", "directive"}
  Paths = {"R/a.R", "DESCRIPTION"}
  Descriptions = {"DESCRIPTION"}
  Verdict <- MCVerdict
  MaxEdits = 1
  MaxRuns = 2
  Depth = 2
  Base = 7
  Env = 8
  MaxWrites = 3
INVARIANTS EntriesHaveTheirFiles RecordedStaysRecorded IdentityIsTrue StalenessIsBounded CleanMeansFormatted FreshMeansSame
CHECK_DEADLOCK FALSE
