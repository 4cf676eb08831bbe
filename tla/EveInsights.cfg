SPECIFICATION Spec
CONSTANTS
  message = message
  doc = doc
  close = close
  short = short
  madeUp = madeUp
  Snippets = {message, doc, close, short, madeUp}
  Writings <- MCWritings
  Texts = {message, doc}
  Docs = {doc}
  Words <- MCWords
  MinTokens = 3
  MinOverlap = 60
  MinGrounded = 1
  a = a
  b = b
  Topics = {a, b}
  None = None
  Workers = {w1, w2}
  Tabs = {t1, t2}
  Cap = 1
  RecentLimit = 1
  MaxTurns = 3
  MaxOps = 3
  MaxDays = 2
SYMMETRY Same
CHECK_DEADLOCK FALSE
INVARIANTS TypeOK SourcesReal CapHeld RepeatsExplained SourcesHeld
PROPERTIES AnnouncedStored
