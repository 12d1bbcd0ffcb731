SPECIFICATION Spec
CONSTANTS
  fast = fast
  slow = slow
  once = once
  Timer <- MCTimer
  Phase <- MCPhase
  Period <- MCPeriod
  Reload = {fast, slow}
  MayCancel = {fast}
  OwnCancel = TRUE
  Width = 4
  MaxTime = 8
  None = None
INVARIANTS
  CancelledStaysInactive
CHECK_DEADLOCK FALSE
