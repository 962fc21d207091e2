SPECIFICATION FairSpec
CONSTANTS
  Actors = {cli, worker}
  Proposals = {p1}
  TermsChoices <- MCTerms
  NoDoc = NoDoc
  NoActor = NoActor
  Exclusive = FALSE
  Fsync = TRUE
  MaxOps = 5
  MaxFaults = 2
INVARIANTS
  TypeOK
  AuditBeforeDocument
  RunsAreGranted
  TrailShowsGrant
PROPERTIES
  ImplementsLog
  OperationsEnd
\* The bounds end every behaviour: a state with no operation left is not a deadlock.
CHECK_DEADLOCK FALSE
