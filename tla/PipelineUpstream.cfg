SPECIFICATION Spec
CONSTANTS
  Events = {1, 2, 3}
  ParentOf <- OneThread
  Kinds = {k1}
  NoSignal = no_signal
  None = none
  none = none
  w1 = w1
  w2 = w2
  s1 = s1
  Workers = {w1, w2}
  Syncs = {}
  MaxDeliveries = 1
  MaxRows = 1
  Faults = {}
  MaxFaults = 0
CHECK_DEADLOCK FALSE
INVARIANT ClosesUpstream
