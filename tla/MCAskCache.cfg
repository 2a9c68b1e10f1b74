CONSTANTS
  Sessions = {s1}
  Askers = {c1}
  Writers = {w1, w2}
  Kinds = {"ask", "eda", "assist"}
  MaxAttempts = 2
  MaxShape = 2
  MaxEdits = 1
  MaxFailures = 1
SPECIFICATION Spec
INVARIANTS
  TypeOK
  DictionaryIsCurrent
  RanOnCurrent
  SchemaFits
SYMMETRY Symmetry
VIEW View
CHECK_DEADLOCK FALSE
