SPECIFICATION IterSpec
CONSTANTS
  k1 = k1 k2 = k2 k3 = k3 k4 = k4 v1 = v1 v2 = v2
  Absent = Absent Unbound = Unbound Undef = Undef
  Key <- ThreeKeys
  Value <- TwoVals
  HashVal <- Hashes
  InitBits = 1
  MaxBits = 2
SYMMETRY Alike
INVARIANTS
  BucketsAreReachable
  CountIsSafe
  IterationMissesNothing
PROPERTY
  ImplementsMap
