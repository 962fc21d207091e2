SPECIFICATION Spec
CONSTANTS
  Actors = {cli, worker}
  Proposals = {p1, p2}
  TermsChoices <- MCTerms
  NoDoc = NoDoc
  NoActor = NoActor
  Exclusive = TRUE
  Fsync = TRUE
  MaxOps = 6
  MaxFaults = 2
SYMMETRY MCSymmetry
INVARIANTS
  RerunsAreAccounted
  DocumentMatchesTrail
\* The bounds end every behaviour: a state with no operation left is not a deadlock.
CHECK_DEADLOCK FALSE
