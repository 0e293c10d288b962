SPECIFICATION Spec
CONSTANTS
  t1 = t1 t2 = t2 t3 = t3 c1 = c1 v1 = v1 v2 = v2
  NoVal = NoVal
  Nil = Nil
  Thread <- Three
  Main = t1
  Chan <- OneChan
  AChan = c1
  Watched = c1
  Value <- OneVal
  RetVal <- ValOrChan
  Uses <- Disrupted
SYMMETRY Spawned
INVARIANTS
  RunQueueSound
  NoJoinerLeftBehind
