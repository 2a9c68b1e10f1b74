CONSTANTS
  Requests = {r1}
  Sweepers = {s1}
  Grace = 1
  SessionTTL = 2
  OwnedTTL = 3
  MaxRequests = 3
  MaxFaults = 0
SPECIFICATION Spec
PROPERTY AliveIsSpared
