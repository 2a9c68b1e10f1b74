CONSTANTS
  Clients = {c1, c2}
  Contents = {a, b}
  Cap = 2
  NoTable = NoTable
  NoClient = NoClient
  MaxVersion = 3
  MaxFaults = 1
  MaxDeletes = 1
SPECIFICATION FairSpec
PROPERTY Answered
CHECK_DEADLOCK FALSE
