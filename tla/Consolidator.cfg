CONSTANTS
  Request = {r1, r2}
  Path = {p1, p2, p3}
  Obj = {o1, o2, o3}
  None = None
  IdMin = 2
  IdSize = 4
  MaxPaths = 2
  MaxFaults = 1
SYMMETRY Symmetry
SPECIFICATION Spec
INVARIANTS SysdbInv RefcountExact IdsAccounted LiveSensorConfigured NoOrphanWithoutFault NothingLeft HolderNeverBlocks
PROPERTIES LiveRequestStable SharesSensors
