SPECIFICATION FairSpec
CONSTANTS
  FetchLimit = 3
  MaxFetchFailures = 2
  MaxUpdates = 3
  MaxFaults = 3
  MaxStops = 1
INVARIANTS
  TypeOK
  CheckpointedIsApplied
  RepeatsAreAccounted
PROPERTIES
  UpdatesArePassed
\* Once every update has passed and the bounds are used up nothing is left to do.
CHECK_DEADLOCK FALSE
