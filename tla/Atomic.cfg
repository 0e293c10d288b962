SPECIFICATION AFairSpec
CONSTANTS
  t1 = t1 t2 = t2 t3 = t3 c1 = c1 v1 = v1
  NoVal = NoVal
  Nil = Nil
  Thread <- Three
  Main = t1
  Chan <- OneChan
  AChan = c1
  Value <- OneVal
  RetVal <- OneVal
  Uses <- Nothing
INVARIANTS
  MutualExclusion
  LockMatchesHolder
  SectionsNeverDeadlock
PROPERTY
  LockIsPassedOn
