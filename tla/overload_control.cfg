SPECIFICATION FairSpec
CONSTANTS
  o1 = o1  o2 = o2  r1 = r1
  NoConfig = NoConfig  NoObject = NoObject
  Objects = {o1}
  Configs <- OneConfig
  Depths = {0, 2}
  Requests = {r1}
  Ops <- AllOps
INVARIANTS TypeOK RejectionJustified DisabledIsClean
PROPERTIES ShutdownIsQuiet RejectionEnds OperationsReturn
