SPECIFICATION Spec
CONSTANTS
  fast = fast
  slow = slow
  once = once
  Timer <- MCTimer
  Phase <- MCPhase
  Period <- MCPeriod
  Reload = {fast, slow}
  MayCancel = {slow, once}
  OwnCancel = FALSE
  Width = 4
  MaxTime = 12
  None = None
INVARIANTS
  NeverEarly
  NoLostExpiry
CHECK_DEADLOCK FALSE
