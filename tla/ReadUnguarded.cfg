\* Two statements the code does not keep; take one out to see the other fail.
SPECIFICATION Spec
CONSTANTS
  doc1 = doc1
  desc1 = desc1
  i1 = i1
  i2 = i2
  t1 = t1
  t2 = t2
  None = None
  RDocs <- MCRDocs
  OtherDocs <- NoDocs
  Ids <- MCIds
  Texts <- MCTexts
  Kinds <- SnapshotKinds
  RestartVersions = FALSE
  FormatDescriptions = TRUE
  MaxVersion = 2
  MaxOpens = 1
  MaxPanics = 0
INVARIANT CancelledIsCaughtUpstream
PROPERTY EveryResultIndexesTheLiveBuffer
CHECK_DEADLOCK FALSE
