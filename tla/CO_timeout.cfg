SPECIFICATION Spec
CONSTANTS
  Clients = {c1}
  BufSize = 2
  Lengths <- Sizes
  MaxConnections = 2
  Steadiness = {TRUE, FALSE}
  BUFFERSIZE = 3
  EST_TIMEOUT = 2500
  ACK_TIMEOUT = 5000
INVARIANT TimeoutsInMilliseconds
CHECK_DEADLOCK FALSE
