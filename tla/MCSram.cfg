SPECIFICATION SramSpec
CONSTANTS
  t1 = t1
  a = a
  b = b
  zero = zero
  Threads <- MCThreads
  IOSIZE = 3
  Bytes <- MCBytes
  Zero = zero
INVARIANTS
  SramTypeOK
  SramHoldsWrites
PROPERTIES
  ReadReturns
