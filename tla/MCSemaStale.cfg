SPECIFICATION SemaSpec
CONSTANTS
  H = H
  M = M
  L = L
  D = D
  Idle = Idle
  m1 = m1
  s1 = s1
  None = None
  Forever = Forever
  Task <- StaleTask
  IdleTask = Idle
  PostProc = None
  Mutex = {m1}
  OtherObj = {s1}
  Inherit = {m1}
  NominalPrio <- StaleNominal
  PeerQueue <- StalePeers
  NoPreempt = {}
  MaxTimeout = 0
  MaxSchLock = 0
  Rank <- MCRank
  Ordered = TRUE
  MaySignal = {}
  MaySleep = {}
  MaySchLock = {}
  MaySuspend = {}
  YieldWhenLocked = FALSE
  MaxValue <- StaleMax
  InitValue <- StaleInit
  PendTimeout = {Forever}
INVARIANTS
  QueueHoldsOnlyBlocked
