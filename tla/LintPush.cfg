\* A pushing server: the client types, closes and opens an R file and the DESCRIPTION,
\* and files change on disk.
CONSTANTS
  r1 = r1
  desc = desc
  a = a
  b = b
  None = None
  NoText = NoText
  RDocs = {r1}
  Desc = desc
  Texts = {a, b}
  InitialText = a
  Broken = {}
  Digest <- DistinctFindings
  BadConfigs = {}
  PullMode = FALSE
  AutoBuild = FALSE
  RestartVersions = FALSE
  Seeded = TRUE
  EventKinds = {"changed"}
  JobIds = {1, 2, 3}
  MaxVersion = 3
  MaxOpens <- MCMaxOpens
  ROpens = 1
  DescOpens = 1
  MaxEdits = 1
  MaxConfigs = 0
  MaxDiskWrites = 1
  MaxSeeds = 0
  MaxExternal = 0
  MaxPanics = 0
SPECIFICATION Spec
INVARIANTS AtMostOneAnalyze QueueDrains ShownIsCurrent BuffersAreAuthoritative
PROPERTY NoLintIsLost
