SPECIFICATION Spec
CONSTANTS
  r1 = r1
  r2 = r2
  r3 = r3
  r4 = r4
  r5 = r5
  None = None
  Regions <- MCRegions
  Failures <- AllFailures
INVARIANTS
  ChannelsMatch
  ArmedByTxFailureOnly
  NoLeak
  PollHasRings
  UnloadedIsUnused
