SPECIFICATION Spec
CONSTANTS
  c1 = c1
  c2 = c2
  Callers <- MCCallers
  NGPIO = 3
  WIDTH = 2
  Nobody = Nobody
INVARIANTS
  NoLostUpdate
  DirectionHolds
