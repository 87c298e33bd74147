SPECIFICATION SideSpec
CONSTANTS
  None = None
  m1 = m1
  m2 = m2
  m3 = m3
  m4 = m4
  k1 = k1
  k2 = k2
  Message = {m1, m2, m3, m4}
  Task = {k1, k2}
  r1 = r1
  r2 = r2
  g1 = g1
  c1 = c1
  c2 = c2
  Raw = {r1, r2}
  Generic = {g1}
  ChildRows <- MCChildRows
  LeafSize = 2
  MaxRaw = 2
  MaxGeneric = 1
  MaxClaims = 3
  MaxChildren = 3
  Caller = {c1, c2}
  Starts = 2
  NoOne = NoOne
  Thread = {c1, c2}
  Nobody = Nobody
  BlockRoot = {"b1", "b3"}
  RootRequests <- MCRequests
  Stored <- MCStored
  Chunk = 1
  NoBody = NoBody
  Asker = {c1, c2}
  NoAsker = NoAsker
  Asks <- MCAsks
  Builds <- MCBuilds
  Eras = 2
INVARIANTS
  HandlerSound
  TreeSound
  ProversSound
PROPERTIES
  MessagesReleased
  CallsEnd
CHECK_DEADLOCK FALSE
