SPECIFICATION Spec
CONSTANTS
  FetchLimit = 2
  MaxFetchFailures = 2
  MaxUpdates = 2
  MaxFaults = 1
  MaxStops = 0
INVARIANTS
  DuplicatesDoNotRepeat
\* Once every update has passed and the bounds are used up nothing is left to do.
CHECK_DEADLOCK FALSE
