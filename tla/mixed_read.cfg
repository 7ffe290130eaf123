SPECIFICATION Spec
CONSTANTS
  Values <- TwoValues
  SizeOf <- SameSize
  Threads = {t1, t2}
  MaxOps = 3
  MaxWriters = 1
INVARIANTS
  ReadsAreWhole
CHECK_DEADLOCK FALSE
