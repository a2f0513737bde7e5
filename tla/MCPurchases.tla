----------------------------- MODULE MCPurchases -----------------------------
(* Small instances of Purchases: an order paid at the gateway, with every  *)
(* report of its outcome, and orders the coupon covers in full that        *)
(* compete with it for the coupon: one of the same candidate, two of       *)
(* others.                                                                 *)
EXTENDS Purchases, TLC

CONSTANTS o1, o2, o3, o4, ada, bob, cy

MCPurchase == {o1, o2, o3, o4}
MCUser == {ada, bob, cy}
MCOwner == o1 :> ada @@ o2 :> ada @@ o3 :> bob @@ o4 :> cy
MCFree == {o2, o3, o4}
MCCaptureEvents == {"payment.captured", "order.paid"}
=============================================================================
