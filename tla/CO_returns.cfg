SPECIFICATION FairSpec
CONSTANTS
  Clients = {c1}
  BufSize = 2
  Lengths <- Sizes
  MaxConnections = 3
  Steadiness = {TRUE, FALSE}
  BUFFERSIZE = 3
  EST_TIMEOUT = 2500
  ACK_TIMEOUT = 5000
PROPERTY SendAnalyticsReturns
PROPERTY ServerLetsGo
CHECK_DEADLOCK FALSE
