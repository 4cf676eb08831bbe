SPECIFICATION Spec
CONSTANTS
  Members = {m1}
  Threads = {t1}
  Relevant <- AllRelevant
  Days = {0, 1}
  None = none
  Drafts <- EveryThread
  Workers = {w1, w2}
  Threshold = 1
  MaxTime = 2
  MaxScans = 1
  MaxRequests = 1
  MaxPurges = 1
  Faults = {"enqueue", "fail", "lost"}
  MaxFaults = 1
CHECK_DEADLOCK FALSE
SYMMETRY WorkerSymmetry
INVARIANTS TypeOK CitesWhatExists ResolutionAgesOut
