SPECIFICATION FairSpec
CONSTANTS
  k1 = k1
  n1 = n1
  Metas = {m1, m2}
  MetaAddr = m1
  NoMeta = NoMeta
  Nodes = {n1}
  Keys = {k1}
  Absent = Absent
  Calls = {1}
  Request <- OnePut
  SnapshotThreshold = 3
  MaxElections = 2
  MaxSnapshots = 1
  MaxFaults = 1
INVARIANTS
  TypeOK
  NodesShowThePast
PROPERTIES
  CallsAreAtomic
  MembershipConverges
CHECK_DEADLOCK FALSE
