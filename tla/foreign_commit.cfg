SPECIFICATION Spec
CONSTANTS
  n1 = n1
  n2 = n2
  n3 = n3
  n4 = n4
  Keys = {k1}
  NumFrags = 1
  Nodes = {n1, n2, n3}
  NoNode = NoNode
  Absent = Absent
  NoJob = NoJob
  ReplicationFactor = 2
  WriteQuorum = 2
  Rankings <- JoinersFirst
  InitialNodes = {n1, n2}
  MaxPuts = 2
  MaxRebalances = 0
  MaxFaults = 0
INVARIANTS
  CommittedIsWritten
CHECK_DEADLOCK FALSE
