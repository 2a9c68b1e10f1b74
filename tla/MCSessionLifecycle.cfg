CONSTANTS
  Requests = {r1, r2}
  Sweepers = {s1}
  Grace = 1
  SessionTTL = 2
  OwnedTTL = 3
  MaxRequests = 3
  MaxFaults = 2
SPECIFICATION FairSpec
INVARIANTS
  TypeOK
  OnlyIdleIsCondemned
  DataKept
  DeletedIsGone
PROPERTY Reclaimed
