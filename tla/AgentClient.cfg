CONSTANTS
  Stream = {c1, c2}
  Unsubscriber = {u1}
  Name = {n1}
  None = None
  IdMin = 1
  IdSize = 2
SPECIFICATION FairSpec
CHECK_DEADLOCK FALSE
INVARIANTS TableInv NothingLeft CancelsOwn
PROPERTY ClientsEnd
