CONSTANTS
  Tables = {t0, t1}
  First = t0
  Second = t1
  Requests = {r1, r2}
  Links <- MCLinks
  MaxUploads = 2
SPECIFICATION Spec
INVARIANTS
  TypeOK
  Acknowledged
  ListsTheCatalog
  RelationsHold
SYMMETRY Symmetry
VIEW View
