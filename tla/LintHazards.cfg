\* Everything the environment may do at once: unsupported settings, syntax errors,
\* created files, added folders, a panicking rule.
CONSTANTS
  r1 = r1
  desc = desc
  a = a
  b = b
  None = None
  NoText = NoText
  RDocs = {r1}
  Desc = desc
  Texts = {a, b}
  InitialText = a
  Broken = {b}
  Digest <- DistinctFindings
  BadConfigs = {1}
  PullMode = FALSE
  AutoBuild = FALSE
  RestartVersions = FALSE
  Seeded = TRUE
  EventKinds = {"created", "changed"}
  JobIds = {1, 2, 3}
  MaxVersion = 3
  MaxOpens <- MCMaxOpens
  ROpens = 2
  DescOpens = 0
  MaxEdits = 0
  MaxConfigs = 1
  MaxDiskWrites = 1
  MaxSeeds = 1
  MaxExternal = 0
  MaxPanics = 1
SPECIFICATION Spec
INVARIANTS
  FindingsMatchText
