SPECIFICATION FairSpec
CONSTANTS
  BufSize = 2
  Lengths <- Lengths3
  MaxConnections = 3
  Segmented = TRUE
  MayThrow = FALSE
PROPERTY ImplementsServerConnection
PROPERTY ImplementsProducerConsumer
CHECK_DEADLOCK FALSE
