SPECIFICATION Spec
CONSTANTS
  Members = {m1}
  Threads = {t1}
  Relevant <- AllRelevant
  Days = {0}
  None = none
  Drafts <- EveryThread
  Workers = {w1, w2}
  Threshold = 1
  MaxTime = 2
  MaxScans = 1
  MaxRequests = 1
  MaxPurges = 0
  Faults = {}
  MaxFaults = 0
CHECK_DEADLOCK FALSE
PROPERTY ScheduledWritesOnce
