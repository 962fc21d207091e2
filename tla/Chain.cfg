SPECIFICATION ChainSpec
CONSTANTS
  w1 = w1
  w2 = w2
  w3 = w3
  Writers = {w1, w2, w3}
  Events = {e1, e2}
  NoEvent = NoEvent
  Casts <- MCCasts
  MaxLines = 5
  MaxWriteFaults = 2
  MaxEdits = 2
SYMMETRY MCSymmetry
INVARIANTS
  ChainTypeOK
  VouchesForHistory
PROPERTIES
  ChainImplementsLog
\* A full or damaged file ends the behaviour.
CHECK_DEADLOCK FALSE
