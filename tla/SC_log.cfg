SPECIFICATION Spec
CONSTANTS
  BufSize = 2
  Lengths <- Lengths5
  MaxConnections = 3
  Segmented = TRUE
INVARIANT LogNamesTheAck
CHECK_DEADLOCK FALSE
