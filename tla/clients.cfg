SPECIFICATION Spec
CONSTANTS
  n1 = n1
  n2 = n2
  n3 = n3
  Nodes = {n1, n2, n3}
  Views <- AllUpOrOne
  Ranking <- TwoOrders
  RF = 3
  Quorum = 2
  Chunk = 2
  Sizes <- ThreeSizes
  Puts = {1, 2}
  Gets = {1}
  Absent = Absent
  Client <- OneEach
  MaxDown = 1
  MaxFaults = 2
INVARIANTS
  TypeOK
  PlanFitsFile
  AckedIsReadable
PROPERTIES
  FirstPutIsReadWhole
  AckedPutIsReadBack
CHECK_DEADLOCK FALSE
