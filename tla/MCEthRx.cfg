SPECIFICATION Spec
CONSTANTS
  FIFO_LENGTH = 3
  RX_PER_POLL = 3
  a = a
  b = b
  runt = runt
  none = none
  Frames <- MCFrames
  Runts <- MCRunts
  NoFrame = none
INVARIANTS
  TypeOK
  RingPartition
PROPERTIES
  ImplementsChannel
  EveryFrameFreed
