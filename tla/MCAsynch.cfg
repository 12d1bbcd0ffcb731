SPECIFICATION AsynchSpec
CONSTANTS
  H = H
  M = M
  L = L
  Idle = Idle
  PP = PP
  m1 = m1
  p1 = p1
  x = x
  y = y
  wH = wH
  wM = wM
  wL = wL
  None = None
  Forever = Forever
  Task <- MCTask
  IdleTask = Idle
  PostProc = PP
  Mutex = {m1}
  OtherObj = {p1, wH, wM, wL}
  Inherit = {m1}
  NominalPrio <- MCNominal
  PeerQueue <- MCPeers
  NoPreempt = {PP}
  MaxTimeout = 1
  MaxSchLock = 0
  Rank <- MCRank
  Ordered = TRUE
  MaySignal = {M}
  MaySleep = {H, M}
  MaySchLock = {}
  MaySuspend = {}
  YieldWhenLocked = FALSE
  QLen = 1
  MayFault = {M, L}
  Mesg = {x, y}
  PoolOf <- MCPoolOf
  Ceiling <- MCCeiling
  WaitersOf <- MCWaiters
  CopyBlocks = 2
  Size = {1, 2}
  App <- MCApp
  MesgTimeout = {0, 1, Forever}
SYMMETRY Symmetry
INVARIANTS
  MesgAccounted
  PrioAsOwed
  NoStuckMesgWait
  MesgResultTrue
CHECK_DEADLOCK FALSE
