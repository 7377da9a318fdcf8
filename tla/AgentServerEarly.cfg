CONSTANTS
  Stream = {s1, s2}
  Canceller = {c1}
  None = None
  EarlyCancel = TRUE
  IdMin = 1
  IdSize = 3
SPECIFICATION Spec
INVARIANTS CancelSticks
