SPECIFICATION Spec
CONSTANTS
  v1 = v1
  v2 = v2
  Versions = {v1, v2}
  Requests <- MCRequests
  None = None
  Husk = Husk
  MaxAttempts = 3
  MaxFaults = 2
  MaxEdits = 1
INVARIANTS
  TypeOK
  RecordVouches
  RerunsSucceed
\* The bound on attempts ends every behaviour.
CHECK_DEADLOCK FALSE
