SPECIFICATION FairSpec
CONSTANTS
  Events = {1, 2}
  ParentOf <- OneThread
  Kinds = {k1}
  NoSignal = no_signal
  None = none
  none = none
  w1 = w1
  w2 = w2
  s1 = s1
  Workers = {w1}
  Syncs = {}
  MaxDeliveries = 1
  MaxRows = 1
  Faults = {"lost"}
  MaxFaults = 2
CHECK_DEADLOCK FALSE
INVARIANTS ScoresCurrent NothingForgotten
PROPERTIES EventuallyProcessed DecisionHonoured
