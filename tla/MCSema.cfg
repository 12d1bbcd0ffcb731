SPECIFICATION SemaSpec
CONSTANTS
  H = H
  M = M
  L = L
  D = D
  Idle = Idle
  m1 = m1
  s1 = s1
  None = None
  Forever = Forever
  Task <- MCTask
  IdleTask = Idle
  PostProc = None
  Mutex = {m1}
  OtherObj = {s1}
  Inherit = {m1}
  NominalPrio <- MCNominal
  PeerQueue <- MCPeers
  NoPreempt = {}
  MaxTimeout = 1
  MaxSchLock = 1
  Rank <- MCRank
  Ordered = TRUE
  MaySignal = {M, L}
  MaySleep = {}
  MaySchLock = {H, M, L}
  MaySuspend = {}
  YieldWhenLocked = FALSE
  MaxValue <- MCMax
  InitValue <- MCInit
  PendTimeout = {0, 1, Forever}
INVARIANTS
  NoIdleToken
  EveryTaskReachable
  NoLostPreemption
PROPERTIES
  ConservesTokens
