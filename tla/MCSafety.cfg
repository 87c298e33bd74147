SPECIFICATION SideSpec
CONSTANTS
  None = None
  p1 = p1
  p2 = p2
  d1 = d1
  Loop = Loop
  t1 = t1
  t2 = t2
  v1 = v1
  Delegate = {d1}
  Peer = {p1, p2}
  SendOf <- MCSendOf
  Wrapper = {t1, t2}
  MaxRecent = 1
  j1 = j1
  BlockRoot = {"b1", "b2", "b3", "b4", "b5"}
  RootRequests <- MCRequests
  Stored <- MCStored
  Chunk = 2
  NoBody = NoBody
  Asker = {t1, t2}
  NoAsker = NoAsker
  Asks <- MCAsks
  Builds <- MCBuilds
  Eras = 2
SYMMETRY MCAlike
CHECK_DEADLOCK FALSE
INVARIANTS
  CodecsSound
  GossipSound
  ProposalsSound
  ChainSettled
  ProductionSound
  EngineSound
  HistorySound
  StreamSound
PROPERTIES
  ImplementsFeed
  ScheduleSound
  MethodsSound
