SPECIFICATION MesgQSpec
CONSTANTS
  H = H
  M = M
  L = L
  Idle = Idle
  PP = PP
  q1 = q1
  snd = snd
  rcv = rcv
  a = a
  b = b
  None = None
  Forever = Forever
  Task <- MCTask
  IdleTask = Idle
  PostProc = PP
  Mutex = {}
  OtherObj = {snd, rcv}
  Inherit = {}
  NominalPrio <- MCNominal
  PeerQueue <- MCPeers
  NoPreempt = {PP}
  MaxTimeout = 1
  MaxSchLock = 0
  Rank <- MCRank
  Ordered = TRUE
  MaySignal = {}
  MaySleep = {H}
  MaySchLock = {}
  MaySuspend = {}
  YieldWhenLocked = FALSE
  QLen = 1
  Queue = {q1}
  Senders <- MCSenders
  Receivers <- MCReceivers
  Capacity = {1}
  Mesg = {a, b}
  MaySend = {M, L}
  MayReceive = {H, M}
  MesgTimeout = {Forever}
  ResetMailbox = FALSE
INVARIANTS
  NoStuckPair
CHECK_DEADLOCK FALSE
