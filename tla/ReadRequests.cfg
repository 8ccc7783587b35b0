SPECIFICATION Spec
CONSTANTS
  doc1 = doc1
  desc1 = desc1
  i1 = i1
  i2 = i2
  t1 = t1
  t2 = t2
  None = None
  RDocs <- MCRDocs
  OtherDocs <- NoDocs
  Ids <- MCIds
  Texts <- MCTexts
  Kinds <- SnapshotKinds
  RestartVersions = FALSE
  FormatDescriptions = TRUE
  MaxVersion = 2
  MaxOpens = 2
  MaxPanics = 1
INVARIANTS AnsweredAtMostOnce LiveReadsAreUnderWay OutlineIsOfLiveBuffer
CHECK_DEADLOCK FALSE
PROPERTIES ResultsIndexTheLiveBuffer ImplementsContract
