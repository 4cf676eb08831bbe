SPECIFICATION FairSpec
CONSTANTS
  Members = {m1}
  Threads = {t1}
  Relevant <- AllRelevant
  Days = {0}
  None = none
  Drafts <- EverySignal
  Workers = {w1}
  Threshold = 1
  MaxTime = 1
  MaxScans = 1
  MaxRequests = 1
  MaxPurges = 1
  Faults = {"lost", "publish", "post", "stream"}
  MaxFaults = 1
CHECK_DEADLOCK FALSE
INVARIANTS DashTypeOK SettledView
PROPERTIES DigestShown PendingEnds
