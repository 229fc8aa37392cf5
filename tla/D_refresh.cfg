SPECIFICATION FairSpec
CONSTANTS
  Workers = {w1, w2}
  NumTables = 3
  MaxSessions = 3
  m_timerElapse = 3
  FetchTime = 2
  DialogTime = 1
INVARIANT TypeOK
INVARIANT OneWorkerInStore
INVARIANT NotClosedWhileFetching
INVARIANT RefreshGoesOn
PROPERTY ShowsThisSession
CHECK_DEADLOCK FALSE
