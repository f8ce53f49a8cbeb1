SPECIFICATION Spec
CONSTANTS
  FLASH_SIZE = 2
  a = a
  ff = ff
  short = short
  long = long
  Values <- MCValues
  Erased = ff
  Unknown = Unknown
  Rbfs <- MCRbfs
  Image <- MCImage
  Absent = Absent
INVARIANTS
  VerdictTrue
  RecoveryKept
