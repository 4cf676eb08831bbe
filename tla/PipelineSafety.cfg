SPECIFICATION Spec
CONSTANTS
  Events = {1, 2}
  ParentOf <- OneThread
  Kinds = {k1}
  NoSignal = no_signal
  None = none
  none = none
  w1 = w1
  w2 = w2
  s1 = s1
  Workers = {w1, w2}
  Syncs = {s1}
  MaxDeliveries = 1
  MaxRows = 2
  Faults = {"enqueue", "fail", "lost", "sync"}
  MaxFaults = 1
CHECK_DEADLOCK FALSE
SYMMETRY WorkerSymmetry
INVARIANTS TypeOK DerivedRowsBacked SingleRouter ClosedInThread
PROPERTY KeepsContract
