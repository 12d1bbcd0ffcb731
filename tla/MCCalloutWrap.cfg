SPECIFICATION Spec
CONSTANTS
  fast = fast
  slow = slow
  once = once
  Timer <- MCTimer
  Phase <- MCPhase
  Period <- MCPeriod
  Reload = {fast, slow}
  MayCancel = {}
  OwnCancel = FALSE
  Width = 4
  MaxTime = 8
  None = None
INVARIANTS
  RemainingDelayBounded
CHECK_DEADLOCK FALSE
