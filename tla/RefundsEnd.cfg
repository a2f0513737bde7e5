SPECIFICATION FairSpec
CONSTANTS
  a1 = a1
  a2 = a2
  Amount = 2
  Credits = 1
  Request <- OneRequest
  MaxRefunds = 2
  MaxRequests = 2
  MaxFaults = 1
  Faults <- AnyLoss
CHECK_DEADLOCK FALSE
PROPERTIES
  RefundSettles
  ProcessedIsRecorded
