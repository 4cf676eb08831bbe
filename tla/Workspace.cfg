SPECIFICATION Spec
CONSTANTS
  o1 = o1
  o2 = o2
  u1 = u1
  U1 = U1
  n1 = n1
  n2 = n2
  c1 = c1
  c2 = c2
  x1 = x1
  x2 = x2
  atlas = atlas
  Orgs = {o1, o2}
  Home = o1
  Users = {u1}
  UserName <- MCUserName
  ProjectName <- MCProjectName
  Uids = {U1}
  RealName <- MCRealName
  Names = {n1, n2}
  Channels = {c1, c2}
  Messages = {x1, x2}
  ChannelOf <- MCChannelOf
  AuthorOf <- MCAuthorOf
  None = None
  Requests = {r1, r2}
  Workers = {w1, w2}
  Cap = 2
  MaxOps = 3
SYMMETRY Slots
CHECK_DEADLOCK FALSE
INVARIANTS TypeOK Housed OneMemberPerUid RightAuthor Purged SyncWhole
PROPERTIES LoginsSurvive FlagKept
