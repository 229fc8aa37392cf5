SPECIFICATION Spec
CONSTANTS
  Number <- Atoi
  allCommands <- Commands
  Clients = {c1, c2}
  Modules <- TwoModules
  Counts <- FewCommands
  MaxId = 2
  MaxTime = 1
  NoReport = none
  timestamp = 0
  limit = 1
INVARIANTS ReportSaysUsage EveryReportCountedHasRows StatsAreUsage
CHECK_DEADLOCK FALSE
