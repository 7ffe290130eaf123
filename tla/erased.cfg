SPECIFICATION Spec
CONSTANTS
  n1 = n1
  n2 = n2
  n3 = n3
  n4 = n4
  Keys = {k1}
  NumFrags = 1
  Nodes = {n1, n2, n3, n4}
  NoNode = NoNode
  Absent = Absent
  NoJob = NoJob
  ReplicationFactor = 2
  WriteQuorum = 2
  Rankings <- TwoJoinersFirst
  InitialNodes = {n1, n2}
  MaxPuts = 1
  MaxRebalances = 1
  MaxFaults = 0
INVARIANTS
  AckedFragmentsListed
CHECK_DEADLOCK FALSE
