SPECIFICATION Spec
CONSTANTS
  v1 = v1
  Unbound = Unbound
  Value <- OneVal
  StackSize = 5
  MaxEnvs = 2
  MaxConts = 2
INVARIANTS
  HeapAvoidsStack
PROPERTY
  ImplementsFrames
CHECK_DEADLOCK FALSE
