SPECIFICATION Spec
CONSTANTS
  Count = 2
  f1 = f1
  f2 = f2
  f3 = f3
  p1 = p1
  p2 = p2
  p3 = p3
  Funcs <- MCFuncs
  Openers <- MCOpeners
  Failures = {"region", "class", "cdev_add", "kzalloc"}
  UnbindBusy = FALSE
INVARIANTS
  ExclusiveOpen
  InUseTally
  
PROPERTIES
  BusyHasReason
  OopsOnFirstUse
CHECK_DEADLOCK FALSE
