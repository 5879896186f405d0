SPECIFICATION FairSearchSpec
CONSTANTS
  Films = {1, 2}
  Persons = {3}
  Genres = {}
  Fleets <- MCFleets
  Loaded = {1, 3}
  Deletable = {3}
  MaxOpen = 2
  EtlBatchSize = 1
  MaxClock = 2
INVARIANT PassedIsIndexed
INVARIANT NamesFollow
PROPERTY IndexCatchesUp
CHECK_DEADLOCK FALSE
