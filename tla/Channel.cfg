SPECIFICATION Spec
CONSTANTS
  i1 = i1
  i2 = i2
  i3 = i3
  work = work
  home = home
  t1 = t1
  t2 = t2
  p1 = p1
  Identities = {i1, i2, i3}
  Calendars = {work, home}
  Tasks = {t1, t2}
  Proposals = {p1}
  Nobody = Nobody
  Malformed = Malformed
  NoTarget = NoTarget
  NoDoc = NoDoc
  Files <- MCFiles
  Casts <- MCCasts
  MaxFaults = 1
INVARIANTS
  TypeOK
  EffectsAreGranted
  EffectsAreAccounted
  SuccessIsReal
  ReadsStayWithinPolicy
SYMMETRY Symmetry
CHECK_DEADLOCK FALSE
