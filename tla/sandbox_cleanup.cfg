SPECIFICATION Spec
CONSTANTS
  Calls = {c1, c2}
  Boxes = {b1, b2, b3}
  NoBox = NoBox
  Named = b1
INVARIANT SessionOwnsContainer
CHECK_DEADLOCK FALSE
