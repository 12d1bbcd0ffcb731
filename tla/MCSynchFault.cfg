SPECIFICATION SynchSpec
CONSTANTS
  H = H
  M = M
  L = L
  Idle = Idle
  PP = PP
  m1 = m1
  sH = sH
  cH = cH
  aH = aH
  sM = sM
  cM = cM
  aM = aM
  sL = sL
  cL = cL
  aL = aL
  None = None
  Forever = Forever
  Task <- MCTask
  IdleTask = Idle
  PostProc = PP
  Mutex = {m1}
  OtherObj = {sH, cH, aH, sM, cM, aM, sL, cL, aL}
  Inherit = {m1}
  NominalPrio <- MCNominal
  PeerQueue <- MCPeers
  NoPreempt = {PP}
  MaxTimeout = 1
  MaxSchLock = 0
  Rank <- MCRank
  Ordered = TRUE
  MaySignal = {H, M}
  MaySleep = {H, M, L}
  MaySchLock = {}
  MaySuspend = {}
  YieldWhenLocked = FALSE
  QLen = 1
  MayFault = {M, L}
  FaultWhileAbandoned = TRUE
  SendersOf <- MCSenders
  CallersOf <- MCCallers
  AcceptorsOf <- MCAcceptors
  App <- MCApp
  MesgTimeout = {0, 1, Forever}
INVARIANTS
  PendingIsHead
  LinksAgree
  OneListPerNode
CHECK_DEADLOCK FALSE
