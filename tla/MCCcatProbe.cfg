SPECIFICATION Spec
CONSTANTS
  c1 = c1
  c2 = c2
  Devices <- TwoCcats
  Types <- FunctionTypes
  NotUsed = "not_used"
  Blocks <- InfoBlocks
  Failures <- MCFailures
  None = None
INVARIANTS
  NothingHeld
  ChildrenMapped
  OwnPlatformData
  FunctionsFound
