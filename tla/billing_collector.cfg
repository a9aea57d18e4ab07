SPECIFICATION FairSpec
CONSTANTS
  r1 = r1  r2 = r2  r3 = r3
  Requests = {r1, r2, r3}
  Mode = "submit"
INVARIANTS TypeOK Conserved StopFlushes
PROPERTY SenderServes
CHECK_DEADLOCK FALSE
