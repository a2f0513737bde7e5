------------------------------ MODULE CreditHold ------------------------------
(***************************************************************************)
(* What the credit system promises each interview: the one credit it needs *)
(* is taken at most once, and what was taken is settled at most once, as   *)
(* consumed or as refunded, never both (packages/db/src/credits.ts, the    *)
(* comment on idempotency keys).  The ledger and the interview lifecycle   *)
(* are both shown to implement this.                                       *)
(***************************************************************************)
CONSTANT Session

VARIABLE hold    \* hold[s]: what has become of the credit of interview s

Hold == {"NONE", "RESERVED", "CONSUMED", "REFUNDED"}

HInit == hold = [s \in Session |-> "NONE"]

HReserve(s) ==
  /\ hold[s] = "NONE"
  /\ hold' = [hold EXCEPT ![s] = "RESERVED"]

HSettle(s) ==
  /\ hold[s] = "RESERVED"
  /\ \E outcome \in {"CONSUMED", "REFUNDED"} :
       hold' = [hold EXCEPT ![s] = outcome]

HNext == \E s \in Session : HReserve(s) \/ HSettle(s)

HSpec == HInit /\ [][HNext]_hold
===============================================================================
