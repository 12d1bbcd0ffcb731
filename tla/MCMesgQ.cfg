SPECIFICATION MesgQSpec
CONSTANTS
  H = H
  M = M
  L = L
  Idle = Idle
  PP = PP
  q1 = q1
  snd = snd
  rcv = rcv
  a = a
  b = b
  None = None
  Forever = Forever
  Task <- MCTask
  IdleTask = Idle
  PostProc = PP
  Mutex = {}
  OtherObj = {snd, rcv}
  Inherit = {}
  NominalPrio <- MCNominal
  PeerQueue <- MCPeers
  NoPreempt = {PP}
  MaxTimeout = 1
  MaxSchLock = 0
  Rank <- MCRank
  Ordered = TRUE
  MaySignal = {M}
  MaySleep = {}
  MaySchLock = {}
  MaySuspend = {}
  YieldWhenLocked = FALSE
  QLen = 1
  Queue = {q1}
  Senders <- MCSenders
  Receivers <- MCReceivers
  Capacity = {1, 2}
  Mesg = {a, b}
  MaySend = {M, L}
  MayReceive = {H, M}
  MesgTimeout = {0, 1, Forever}
  ResetMailbox = FALSE
SYMMETRY MCSymmetry
INVARIANTS
  BroadcastAccounted
  NoReceiverBesideMessage
PROPERTIES
  ImplementsMesgQAbs
CHECK_DEADLOCK FALSE
