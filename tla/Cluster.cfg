CONSTANTS
  m1 = m1
  n1 = n1
  Master = m1
  Minions <- OneMinion
  MaxInits = 2
  MaxFaults = 1
SPECIFICATION Spec
INVARIANTS
  TypeOK
  FileIsOfOneInit
  InitIsWhole
  ConfigNotLost
  CAIsAPair
PROPERTY
  JoinFailsOnlyWhenStale
