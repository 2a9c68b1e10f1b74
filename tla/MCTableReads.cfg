CONSTANTS
  Cores <- MCCores
  NullWarn = 40
  CastConfident = 95
  MixedLo = 10
  DateShapeMin = 10
  DateishMin = 60
  CategoricalMax = 50
  DialogCases <- MCCases
  Today = 2
  Tables <- MCTables
  Ops <- MCOps
  Previews <- MCPreviews
  Windows <- MCWindows
  CellValues <- MCCellValues
  Limit = 3
  HistBins = 2
  TopN = 1
  MaxChanges = 1
  MaxEdits = 2
SPECIFICATION Spec
INVARIANT TypeOK
INVARIANT AnswersAreTrue
 
PROPERTY EditHitsItsRow
CHECK_DEADLOCK FALSE
