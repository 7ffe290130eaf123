SPECIFICATION Spec
CONSTANTS
  n1 = n1
  n2 = n2
  n3 = n3
  n4 = n4
  Keys = {k1}
  NumFrags = 1
  Nodes = {n1, n2, n3}
  NoNode = NoNode
  Absent = Absent
  NoJob = NoJob
  ReplicationFactor = 1
  WriteQuorum = 1
  Rankings <- JoinersFirst
  InitialNodes = {n1}
  MaxPuts = 1
  MaxRebalances = 1
  MaxFaults = 1
INVARIANTS
  LiveReplicaIsRead
CHECK_DEADLOCK FALSE
