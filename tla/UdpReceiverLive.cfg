CONSTANTS
  Worker = {w1, w2}
  None = None
  Path = {"p", "q"}
  Sensor = {1, 2}
  Requests <- SharedPath
  MaxPackets = 2
  IdMin = 1
  IdSize = 3
SPECIFICATION FairSpec
CHECK_DEADLOCK FALSE
PROPERTIES PacketsFlow WorkersAreSubscriptions
