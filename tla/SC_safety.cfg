SPECIFICATION Spec
CONSTANTS
  BufSize = 2
  Lengths <- Lengths5
  MaxConnections = 3
  Segmented = TRUE
INVARIANT TypeOK
INVARIANT AcceptorArmed
INVARIANT BytesConserved
INVARIANT ReportFraming
INVARIANT AckedIsProduced
PROPERTY NothingReadAfterProduce
CHECK_DEADLOCK FALSE
