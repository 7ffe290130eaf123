SPECIFICATION Spec
CONSTANTS
  Values <- ThreeValues
  SizeOf <- OneShorter
  Threads = {t1, t2, t3}
  MaxOps = 5
  MaxWriters = 1
INVARIANTS
  TypeOK
  ReadsReturnVersion
  AckedPutIsReadable
CHECK_DEADLOCK FALSE
