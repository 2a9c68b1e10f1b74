CONSTANTS
  Clients = {c1, c2}
  Contents = {a, b}
  Cap = 3
  NoTable = NoTable
  NoClient = NoClient
  MaxVersion = 5
  MaxFaults = 1
  MaxDeletes = 1
SPECIFICATION Spec
SYMMETRY Symmetry
INVARIANTS
  TypeOK
  HistoryWellFormed
  SnapshotsFaithful
  CurrentHasCopy
  UndoIsSafe
  LiveIsCurrent
  SavesAreAnnounced
PROPERTY ImplementsUndoHistory
CHECK_DEADLOCK FALSE
