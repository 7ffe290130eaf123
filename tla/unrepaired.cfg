SPECIFICATION FairSpec
CONSTANTS
  n1 = n1
  n2 = n2
  n3 = n3
  n4 = n4
  Keys = {k1}
  NumFrags = 1
  Nodes = {n1, n2, n3, n4}
  NoNode = NoNode
  Absent = Absent
  NoJob = NoJob
  ReplicationFactor = 3
  WriteQuorum = 2
  Rankings <- FourInOrder
  InitialNodes = {n1, n2, n3, n4}
  MaxPuts = 1
  MaxRebalances = 0
  MaxFaults = 2
PROPERTIES
  AckedHeals
CHECK_DEADLOCK FALSE
