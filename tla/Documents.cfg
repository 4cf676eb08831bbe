SPECIFICATION FairSpec
CONSTANTS
  f1 = f1
  f2 = f2
  TargetChars = 800
  OverlapChars = 100
  Files = {f1, f2}
  Contents <- MCContents
  Oversized <- TooLarge
  Importers = {w1, w2}
  None = None
  MaxOps = 3
CHECK_DEADLOCK FALSE
INVARIANTS TypeOK IndexedWhole ImportWhole Purged RowHeld
PROPERTIES StoredOnce SyncsAdvance SyncsEnd
