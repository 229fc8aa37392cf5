SPECIFICATION Spec
CONSTANTS
  Reports <- AllReports
  Number <- Atoi
  MaxId = 4
  MayThrow = TRUE
  MayRefuse = TRUE
  NoReport = none
INVARIANT TypeOK
INVARIANT RowsBelongToTheirReport
PROPERTY ResultIsTruthful
PROPERTY ImplementsReportStore
CHECK_DEADLOCK FALSE
