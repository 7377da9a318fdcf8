CONSTANTS
  Stream = {s1, s2, s3}
  Canceller = {c1, c2}
  None = None
  EarlyCancel = FALSE
  IdMin = 1
  IdSize = 2
SPECIFICATION FairSpec
INVARIANTS StoreInv RemovedOnce CallbacksSafe LateCancelSticks NothingLeft
PROPERTIES StreamEnds ImplementsSubscriptions
