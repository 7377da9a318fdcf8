CONSTANTS
  Stream = {s1, s2, s3}
  Lister = {l1}
  None = None
  IdMin = 1
  IdSize = 4
SPECIFICATION ListFairSpec
CHECK_DEADLOCK FALSE
INVARIANT ListingRight
PROPERTY WalkEnds
