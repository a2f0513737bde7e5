SPECIFICATION FairSpec
CONSTANTS
  o1 = o1
  o2 = o2
  o3 = o3
  o4 = o4
  ada = ada
  bob = bob
  cy = cy
  Purchase <- MCPurchase
  User <- MCUser
  Owner <- MCOwner
  WithCoupon <- MCPurchase
  Free <- MCFree
  MaxUses = 2
  PerUserLimit = 1
  CaptureEvents <- MCCaptureEvents
  MaxCrashes = 1
CHECK_DEADLOCK FALSE
INVARIANTS
  PaidIsCredited
  CouponCounts
  InvoicesHaveNoGap
PROPERTIES
  OverrunOnlyByLatePayment
  CapturedIsCredited
  UnpaidReleasesCoupon
