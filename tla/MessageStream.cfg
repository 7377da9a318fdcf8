CONSTANTS
  RecordLimits <- SomeRecordLimits
  TimeLimits <- SomeTimeLimits
  Word = 64
  Opened = 10
  MaxTicks = 3
  MaxMessages = 5
SPECIFICATION BusFairSpec
 
PROPERTIES RecordLimitEnds
CHECK_DEADLOCK FALSE
