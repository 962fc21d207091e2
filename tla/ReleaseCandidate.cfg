SPECIFICATION Spec
CONSTANTS
  r1 = r1
  r2 = r2
  i1 = i1
  i2 = i2
  Releases = {r1, r2}
  Identities = {i1, i2}
  Requests <- MCRequests
  None = None
  MaxRuns = 3
  MaxFaults = 2
  MaxCrashes = 1
  MaxDeaths = 1
SYMMETRY Symmetry
INVARIANTS
  TypeOK
  SuccessIsReal
  FailureKeepsService
  FilesHaveAnOwner
  RepairsSucceed
CHECK_DEADLOCK FALSE
