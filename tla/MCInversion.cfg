SPECIFICATION FairSpec
CONSTANTS
  A = A
  B = B
  C = C
  D = D
  H = H
  M = M
  L = L
  Idle = Idle
  m1 = m1
  m2 = m2
  None = None
  Forever = Forever
  Task <- MCThree
  IdleTask = Idle
  PostProc = None
  Mutex = {m1, m2}
  OtherObj = {}
  Inherit = {m1, m2}
  NominalPrio <- MCThreeNominal
  PeerQueue <- MCPeers
  NoPreempt = {}
  MaxTimeout = 1
  MaxSchLock = 0
  Rank <- MCRank
  Ordered = TRUE
  MaySignal = {}
  MaySleep = {H, M, L}
  MaySchLock = {}
  MaySuspend = {}
  YieldWhenLocked = FALSE
PROPERTIES
  MostUrgentNotStarved
  TimedWaitEnds
