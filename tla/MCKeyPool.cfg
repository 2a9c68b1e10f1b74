CONSTANTS
  Callers = {c1, c2}
  N = 3
  Cap = 1
  Delays = {0, 2}
  Chain <- MCChain
  MaxFaults = 1
SPECIFICATION Spec
INVARIANTS
  TypeOK
  CapOvershoot
  NoKeyTwice
  NoKeyStarves
PROPERTIES
  SpentMeansSpent
  GoesForward
SYMMETRY Symmetry
