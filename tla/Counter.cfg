CONSTANTS
  RateThread = {r1, r2}
  None = None
  MaxCount = 2
  Mod = 4
SPECIFICATION FairSpec
CHECK_DEADLOCK FALSE
INVARIANT CounterInv
PROPERTY ThreadsEnd
