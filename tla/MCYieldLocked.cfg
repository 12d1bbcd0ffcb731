SPECIFICATION Spec
CONSTANTS
  A = A
  B = B
  C = C
  D = D
  H = H
  M = M
  L = L
  Idle = Idle
  m1 = m1
  m2 = m2
  None = None
  Forever = Forever
  Task <- MCThree
  IdleTask = Idle
  PostProc = None
  Mutex = {m1, m2}
  OtherObj = {}
  Inherit = {m1, m2}
  NominalPrio <- MCThreeNominal
  PeerQueue <- MCPeers
  NoPreempt = {}
  MaxTimeout = 1
  MaxSchLock = 1
  Rank <- MCRank
  Ordered = TRUE
  MaySignal = {}
  MaySleep = {H, M, L}
  MaySchLock = {H, M, L}
  MaySuspend = {}
  YieldWhenLocked = TRUE
INVARIANTS
  OneListPerNode
CHECK_DEADLOCK FALSE
