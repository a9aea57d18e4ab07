SPECIFICATION Spec
CONSTANTS
  c1 = c1  c2 = c2  c3 = c3  c4 = c4  k1 = k1  k2 = k2
  NoKey = NoKey  NoLimit = NoLimit
  Requests = {c1, c2, c3}
  Keys = {k1, k2}
  Limits = {0, 2}
  LastTick = 1
  MaxMinute = 4
  MaxStall = 2
  MaxChanges = 1
INVARIANTS TypeOK BudgetRespected BucketsExpire
PROPERTY ImplementsFixedWindow
SYMMETRY Symmetry
CHECK_DEADLOCK FALSE
