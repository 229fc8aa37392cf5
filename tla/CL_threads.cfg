SPECIFICATION FairSpec
CONSTANTS
  Clients = {c1, c2}
  BufSize = 2
  Lengths <- OneSize
  MaxConnections = 3
  Steadiness = {TRUE}
INVARIANT TypeOK
INVARIANT QueuedIsWritten
PROPERTY ReadReturns
CHECK_DEADLOCK FALSE
