SPECIFICATION Spec
CONSTANTS
  A = A
  B = B
  C = C
  D = D
  H = H
  M = M
  L = L
  Idle = Idle
  m1 = m1
  m2 = m2
  None = None
  Forever = Forever
  Task <- MCTask
  IdleTask = Idle
  PostProc = None
  Mutex = {m1, m2}
  OtherObj = {}
  Inherit = {m1, m2}
  NominalPrio <- MCNominal
  PeerQueue <- MCPeers
  NoPreempt = {}
  MaxTimeout = 1
  MaxSchLock = 1
  Rank <- MCRank
  Ordered = TRUE
  MaySignal = {B, C}
  MaySleep = {A, C}
  MaySchLock = {C}
  MaySuspend = {B}
  YieldWhenLocked = FALSE
INVARIANTS
  TypeOK
  StatusMatchesLists
  OwnershipAgrees
  LockResultTrue
  WaitersOrdered
  OwnerNotOutranked
  NoLeftoverBoost
PROPERTIES
  ImplementsMutexAbs
  TimeoutsRespected
