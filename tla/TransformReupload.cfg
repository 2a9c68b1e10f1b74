CONSTANTS
  Clients = {c1}
  Contents = {a, b}
  Cap = 2
  NoTable = NoTable
  NoClient = NoClient
  MaxVersion = 4
  MaxFaults = 0
  MaxDeletes = 1
SPECIFICATION Spec
PROPERTY UploadStartsHistory
CHECK_DEADLOCK FALSE
