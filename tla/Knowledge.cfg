SPECIFICATION Spec
CONSTANTS
  Actors = {a1, a2}
  Casts <- MCCasts
  Nobody = Nobody
  p1 = p1
  p2 = p2
  p3 = p3
  Places = {p1, p2, p3}
  Nowhere = Nowhere
  Directory <- MCDirectory
  Fsync = TRUE
  MaxVersion = 3
  MaxFaults = 2
SYMMETRY MCSymmetry
INVARIANTS
  TypeOK
  ReplaceIsAllOrNothing
  ReadsAreFresh
PROPERTIES
  DocumentNeverVanishes
