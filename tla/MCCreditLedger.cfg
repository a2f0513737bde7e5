SPECIFICATION Spec
CONSTANTS
  s1 = s1
  s2 = s2
  free = free
  bought = bought
  w1 = w1
  w2 = w2
  p1 = p1
  p2 = p2
  Session <- MCSession
  Lot <- MCLot
  Withdrawal <- MCWithdrawal
  Process <- MCProcess
  Request <- MCRequest
  Granted <- MCGranted
  Expires <- MCExpires
  Never <- MCNever
  LastDay = 1
SYMMETRY Symmetry
INVARIANTS
  Projection
  LedgerConsistent
  HeldByInterviews
PROPERTIES
  EarliestExpiringFirst
  PromiseKept
