\* A document is closed and opened again with its versions restarted, and its
\* file changes on disk in between.
CONSTANTS
  r1 = r1
  desc = desc
  a = a
  b = b
  None = None
  NoText = NoText
  RDocs = {r1}
  Desc = desc
  Texts = {a, b}
  InitialText = a
  Broken = {}
  Digest <- DistinctFindings
  BadConfigs = {}
  PullMode = FALSE
  AutoBuild = FALSE
  RestartVersions = TRUE
  Seeded = TRUE
  EventKinds = {"changed"}
  JobIds = {1, 2, 3}
  MaxVersion = 3
  MaxOpens <- MCMaxOpens
  ROpens = 2
  DescOpens = 0
  MaxEdits = 0
  MaxConfigs = 0
  MaxDiskWrites = 1
  MaxSeeds = 0
  MaxExternal = 0
  MaxPanics = 0
SPECIFICATION Spec
INVARIANT
  FindingsMatchText
