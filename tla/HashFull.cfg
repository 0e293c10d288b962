SPECIFICATION IterSpec
CONSTANTS
  k1 = k1 k2 = k2 k3 = k3 k4 = k4 v1 = v1 v2 = v2
  Absent = Absent Unbound = Unbound Undef = Undef
  Key <- FourKeys
  Value <- OneVal
  HashVal <- Apart
  InitBits = 2
  MaxBits = 2
INVARIANT
  SomeSlotUnused
