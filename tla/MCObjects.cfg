SPECIFICATION ObjectsSpec
CONSTANTS
  P = P
  A = A
  Q = Q
  s1 = s1
  b1 = b1
  b2 = b2
  b3 = b3
  v1 = v1
  v2 = v2
  None = None
  Task <- MCTask
  Privileged = {P, Q}
  Slot = {s1}
  Buf = {b1, b2, b3}
  Payload = {v1, v2}
  LeasesMax = 3
  GenBits = 2
  MaxObjects = 2
  MaxGets = 2
SYMMETRY Symmetry
INVARIANTS
  BuffersAccounted
  NoStaleHandle
PROPERTIES
  ImplementsMRMAbs
CHECK_DEADLOCK FALSE
