SPECIFICATION FairSpec
CONSTANTS
  Producers = {p1, p2}
  Consumer = c
  Nobody = nobody
  Reports = {r1, r2, r3}
  MaxReports = 3
  MayStop = TRUE
  MayThrow = TRUE
INVARIANT TypeOK
INVARIANT FifoExactlyOnce
INVARIANT PopIsSafe
INVARIANT NoLostWakeup
PROPERTY QueueHeldDuringBatch
PROPERTY ProduceReturns
PROPERTY QueueDrains
CHECK_DEADLOCK FALSE
