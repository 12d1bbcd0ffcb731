SPECIFICATION LifeSpec
CONSTANTS
  A = A
  B = B
  C = C
  Idle = Idle
  PP = PP
  m1 = m1
  m2 = m2
  None = None
  Forever = Forever
  Task <- MCTask
  IdleTask = Idle
  PostProc = PP
  Mutex = {m1, m2}
  OtherObj = {}
  Inherit = {m1}
  NominalPrio <- MCNominal
  PeerQueue <- MCPeers
  NoPreempt = {PP}
  MaxTimeout = 1
  MaxSchLock = 1
  Rank <- MCRank
  Ordered = TRUE
  MaySignal = {}
  MaySleep = {B}
  MaySchLock = {B}
  MaySuspend = {B}
  MayFault = {B, C}
  QLen = 1
  YieldWhenLocked = TRUE
  Dynamic = {B}
  StackBlocks = 1
  MaxLives = 2
INVARIANTS
  GoneIsReleased
