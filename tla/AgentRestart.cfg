CONSTANTS
  Agent = {a1, a2}
  Path = {p, q}
  None = None
  OnBox = TRUE
  Registration = TRUE
  Retries = 2
  MaxFaults = 2
  MaxStarts = 3
  IdMin = 1
  IdSize = 3
SPECIFICATION FairSpec
INVARIANTS StartupInv LiveConfigured NoStrangers
PROPERTY StartupEnds
CHECK_DEADLOCK FALSE
