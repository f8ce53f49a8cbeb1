SPECIFICATION Spec
CONSTANTS
  FLASH_SIZE = 3
  WRITE_BLOCK_SIZE = 2
  DATA_BLOCK_SIZE = 2
  a = a
  b = b
  zero = zero
  ff = ff
  unknown = unknown
  Bytes <- MCBytes
  Zero = zero
  Erased = ff
  Unknown = unknown
INVARIANTS
  TypeOK
  ReadDelivers
PROPERTIES
  ImplementsDevice
  CloseReturns
