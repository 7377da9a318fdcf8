CONSTANTS
  Worker = {w1}
  None = None
  Path = {"p", "q"}
  Sensor = {1, 2}
  Requests <- SharedPath
  MaxPackets = 1
  IdMin = 1
  IdSize = 2
SPECIFICATION FairSpec
CHECK_DEADLOCK FALSE
PROPERTY WorkerEnds
