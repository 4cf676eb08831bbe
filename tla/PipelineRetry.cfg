SPECIFICATION FairSpec
CONSTANTS
  Events = {1}
  ParentOf <- OneThread
  Kinds = {k1}
  NoSignal = no_signal
  None = none
  none = none
  w1 = w1
  w2 = w2
  s1 = s1
  Workers = {w1}
  Syncs = {}
  MaxDeliveries = 2
  MaxRows = 1
  Faults = {"enqueue"}
  MaxFaults = 1
CHECK_DEADLOCK FALSE
PROPERTY EventuallyTagged
