SPECIFICATION FairSpec
CONSTANTS
  Records <- MCRecords
  BatchSize = 2
  MaxLog = 1
CHECK_DEADLOCK FALSE
PROPERTY NothingIsLost
