SPECIFICATION LifeFairSpec
CONSTANTS
  A = A
  B = B
  C = C
  Idle = Idle
  PP = PP
  m1 = m1
  m2 = m2
  None = None
  Forever = Forever
  Task <- MCTask
  IdleTask = Idle
  PostProc = PP
  Mutex = {m1, m2}
  OtherObj = {}
  Inherit = {m1}
  NominalPrio <- MCNominal
  PeerQueue <- MCPeers
  NoPreempt = {PP}
  MaxTimeout = 1
  MaxSchLock = 0
  Rank <- MCRank
  Ordered = TRUE
  MaySignal = {}
  MaySleep = {B}
  MaySchLock = {}
  MaySuspend = {B}
  MayFault = {B, C}
  QLen = 1
  YieldWhenLocked = FALSE
  Dynamic = {B}
  StackBlocks = 1
  MaxLives = 2
INVARIANTS
  GoneIsReleased
  NoWrongTermination
  FaultReported
PROPERTIES
  EndsAreReached
