SPECIFICATION Spec
CONSTANTS
  r1 = r1
  r2 = r2
  w1 = w1
  Segments = 2
  PartOf <- OnePart
  Request <- MCRequest
  Worker <- MCWorker
  MaxAttempts = 2
  MaxFaults = 1
  Faults <- FaultKind
SYMMETRY Symmetry
CHECK_DEADLOCK FALSE
INVARIANTS
  
  NothingIsLost
  FileIsWhole
