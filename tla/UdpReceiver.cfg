CONSTANTS
  Worker = {w1, w2}
  None = None
  Path = {"p", "q"}
  Sensor = {1, 2}
  Requests <- OneOrTwice
  MaxPackets = 2
  IdMin = 1
  IdSize = 3
SYMMETRY Symmetry
SPECIFICATION Spec
CHECK_DEADLOCK FALSE
INVARIANTS TablesSound DeliveredRight PacketsReach NothingLeft
PROPERTY NothingLost
