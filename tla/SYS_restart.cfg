SPECIFICATION FairSpec
CONSTANTS
  BufSize = 3
  Lengths <- Two
  MaxConnections = 3
  Segmented = TRUE
  MayThrow = TRUE
  Number <- Atoi
  MaxId = 4
  MayRefuse = FALSE
  NoReport = none
  Sends <- TwoProcesses
  Garbled <- NotJson
INVARIANTS HandedOverInOrder StoredInOrder
PROPERTIES ImplementsReportStore AckedIsStored
CHECK_DEADLOCK FALSE
