CONSTANTS
  Jobs = {j1, j2}
  Sockets = {k1, k2}
  Limit = 1
  MaxSize = 3
SPECIFICATION Spec
INVARIANTS
  TypeOK
  EndIsHeard
  ToldTheEnd
PROPERTIES
  EverySocketCloses
CHECK_DEADLOCK FALSE
