SPECIFICATION FairSSpec
CONSTANTS
  o1 = o1 o2 = o2
  Obj <- TwoObjs
  Global = Global Thread = Thread Nil = Nil
  StackSize = 2
  MaxDepth = 1
  MaxQuantum = 2
INVARIANTS
  CursorSound
  PropagatorsAreSeen
  NothingOwedIsFreed
PROPERTY
  GarbageIsFreed
