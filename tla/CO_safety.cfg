SPECIFICATION Spec
CONSTANTS
  Clients = {c1, c2}
  BufSize = 2
  Lengths <- OneSize
  MaxConnections = 3
  Steadiness = {TRUE, FALSE}
  BUFFERSIZE = 3
  EST_TIMEOUT = 2500
  ACK_TIMEOUT = 5000
SYMMETRY Symmetry
INVARIANT TypeOK
INVARIANT AckMeansQueued
INVARIANT NoAckMeansNotQueued
INVARIANT AckedIsWhole
CHECK_DEADLOCK FALSE
