SPECIFICATION FairSpec
CONSTANTS
  Records <- MCRecords
  BatchSize = 2
  MaxLog = 2
CHECK_DEADLOCK FALSE
INVARIANT CommittedIsSaved
 
