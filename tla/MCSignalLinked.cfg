SPECIFICATION WaitSpec
CONSTANTS
  H = H
  M = M
  L = L
  Idle = Idle
  PP = PP
  m1 = m1
  cv = cv
  sq = sq
  None = None
  Forever = Forever
  Task <- MCTask
  IdleTask = Idle
  PostProc = PP
  Mutex = {m1}
  OtherObj = {cv, sq}
  Inherit = {m1}
  NominalPrio <- MCNominal
  PeerQueue <- MCPeers
  NoPreempt = {PP}
  MaxTimeout = 1
  MaxSchLock = 1
  Rank <- MCRank
  Ordered = TRUE
  MaySignal = {}
  MaySleep = {}
  MaySchLock = {}
  MaySuspend = {}
  YieldWhenLocked = FALSE
  QLen = 1
  Monitor <- MCMonitor
  SleepTimeout = {1, Forever}
  Flag = {1, 2}
  EventRequest <- MCRequest
  App <- MCAppSignal
  MaxIsr = 1
INVARIANTS
  OneListPerNode
CHECK_DEADLOCK FALSE
