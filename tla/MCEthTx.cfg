SPECIFICATION Spec
CONSTANTS
  FIFO_LENGTH = 3
  HW_DEPTH = 4
  a = a
  b = b
  big = big
  fwd = fwd
  none = none
  Payload <- MCPayload
  Unsupported <- MCUnsupported
  Forward = fwd
  NoFrame = none
  SettledLink = TRUE
INVARIANTS
  ForwardFirst
  RingSegment
  ReadyMeansFree
  BusyMeansOwned
PROPERTIES
  ImplementsChannel
  TxResumes
