SPECIFICATION FairSpec
CONSTANTS
  Calls = {c1, c2}
  Boxes = {b1, b2, b3}
  NoBox = NoBox
  Named = b1
INVARIANTS
  TypeOK
  OneContainer
  NoLeak
PROPERTIES
  RouterKeepsInstalled
  DisconnectEnds
CHECK_DEADLOCK FALSE
