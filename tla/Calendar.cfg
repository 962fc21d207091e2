SPECIFICATION Spec
CONSTANTS
  Processes = {p1, p2}
  Outside = Outside
  u1 = u1
  u2 = u2
  x = x
  Uids = {u1, u2}
  Others = {x}
  Position <- MCPosition
  Foreign = Foreign
  Casts <- MCCasts
SYMMETRY MCSymmetry
INVARIANTS
  TypeOK
  CreatedStays
  CancelSticks
  OutcomeMatchesDisk
