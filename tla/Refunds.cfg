SPECIFICATION Spec
CONSTANTS
  a1 = a1
  a2 = a2
  Amount = 2
  Credits = 1
  Request <- TwoRequests
  MaxRefunds = 2
  MaxRequests = 2
  MaxFaults = 1
  Faults <- Anything
SYMMETRY Symmetry
CHECK_DEADLOCK FALSE
INVARIANTS
  BooksBalance
  AppliedOnce
  
