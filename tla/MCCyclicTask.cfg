SPECIFICATION CyclicSpec
CONSTANTS
  FIRST_DELAY = 10
  UPDATE_DELAY = 5
  OUTPUTS = 3
  ERROR_MAX = 14
  MAX_ASYNC = 3
  MAX_PENDING = 2
INVARIANTS
  CyclicTypeOK
PROPERTIES
  ErrorHasCause
  CutIsNoticed
  AlarmsServed
