SPECIFICATION Spec
CONSTANTS
  v1 = v1
  v2 = v2
  l1 = l1
  l2 = l2
  z1 = z1
  z2 = z2
  Versions = {v1, v2}
  Locks = {l1, l2}
  Zones = {z1, z2}
  Requests <- MCRequests
  None = None
  MaxAttempts = 3
  MaxFaults = 2
  MaxEdits = 1
INVARIANTS
  TypeOK
  RecordVouches
  FailureKeepsInstallation
  AcknowledgedSurvives
\* The bound on attempts ends every behaviour.
CHECK_DEADLOCK FALSE
