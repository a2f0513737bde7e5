--------------------------- MODULE PurchasesProofs ---------------------------
(***************************************************************************)
(* Theorems about Purchases, for any number of orders and users.           *)
(*                                                                         *)
(* Every action changes the documents by one of six moves, and only with   *)
(* what the invariant says of the handler that makes it: a decision of the *)
(* reconciliation to credit rests on a capture, which nothing undoes, and  *)
(* an order that can still be reported paid without having expired has its *)
(* coupon use.  The properties then follow move by move.                   *)
(***************************************************************************)
EXTENDS Purchases, FiniteSetTheorems, TLAPS

(* What an order that is being opened has not got yet.                     *)
OpeningInv ==
  \A p \in Purchase :
    /\ order[p] = "IDLE" => status[p] = "NONE" /\ redemption[p] = "NONE"
    /\ order[p] \in {"IDLE", "STORED"} => gateway[p] = "NONE"
    /\ order[p] \in {"IDLE", "STORED", "OPENED"} => payment[p] = "NONE"

(* What reconcilePurchase has decided on.                                  *)
DecisionInv ==
  \A p \in Purchase :
    /\ recon[p] # "IDLE" => payment[p] # "NONE"
    /\ recon[p] = "PAY" => gateway[p] = "CAPTURED"

(* An unexpired order of which somebody may report that it was paid.       *)
Reportable(p) ==
  /\ status[p] \in {"CREATED", "FAILED"}
  /\ payment[p] # "NONE" \/ order[p] \in {"STORED", "OPENED"}

ReservationInv ==
  \A p \in WithCoupon : Reportable(p) => redemption[p] = "RESERVED"

IInv == TypeOK /\ OpeningInv /\ DecisionInv /\ ReservationInv

-------------------------------------------------------------------------------
(* The moves                                                               *)

Stores(p) ==
  /\ order[p] = "IDLE"
  /\ status' = [status EXCEPT ![p] = "CREATED"]
  /\ IF p \in WithCoupon THEN CouponLeft(p) /\ TakeUse(p, "RESERVED") ELSE UNCHANGED coupon
  /\ UNCHANGED <<payment, credited, invoice, seq>>

Pays(p) ==
  /\ p \in Free \/ gateway[p] = "CAPTURED"
  /\ payment[p] # "NONE" \/ order[p] = "STORED"
  /\ Payable(p)
  /\ markPurchasePaid(p)

FailsToOpen(p) ==
  markPurchaseFailed(p, "ORDER") /\ order'[p] = "REFUSED" /\ payment'[p] = "NONE"

Fails(p) == \E source \in {"VERIFY", "WEBHOOK"} : markPurchaseFailed(p, source)

Refunded(p) ==
  /\ status[p] = "PAID"
  /\ status' = [status EXCEPT ![p] = "REFUNDED"]
  /\ releaseCoupon(p, {"REDEEMED"})
  /\ UNCHANGED <<credited, invoice, seq>>

PaymentOnly == UNCHANGED <<status, credited, invoice, seq, coupon>>

Move ==
  \/ PaymentOnly
  \/ \E p \in Purchase :
       Stores(p) \/ Pays(p) \/ FailsToOpen(p) \/ Fails(p) \/ expirePurchase(p) \/ Refunded(p)

LEMMA StepIsAMove ==
  ASSUME IInv, [Next]_vars
  PROVE  Move
<1> USE DEF IInv
<1>1. CASE UNCHANGED vars
  BY <1>1 DEF vars, records, Move, PaymentOnly
<1>2. ASSUME NEW p \in Purchase, StoreOrder(p) PROVE Move
  BY <1>2 DEF StoreOrder, Move, Stores, PaymentOnly
<1>3. ASSUME NEW p \in Purchase, CompleteFree(p) PROVE Move
  BY <1>3 DEF CompleteFree, markPurchasePaid, records, Move, Pays, PaymentOnly
<1>4. ASSUME NEW p \in Purchase, OpenGatewayOrder(p) PROVE Move
  BY <1>4 DEF OpenGatewayOrder, records, Move, PaymentOnly
<1>5. ASSUME NEW p \in Purchase, GatewayRefusesOrder(p) PROVE Move
  <2>1. payment[p] = "NONE"
    BY <1>5 DEF GatewayRefusesOrder, OpeningInv
  <2>2. payment'[p] = "NONE"
    BY <1>5, <2>1 DEF GatewayRefusesOrder, markPurchaseFailed, records, paymentStatus, TypeOK
  <2>3. order'[p] = "REFUSED"
    BY <1>5 DEF GatewayRefusesOrder, TypeOK
  <2> QED
    BY <1>5, <2>2, <2>3 DEF GatewayRefusesOrder, Move, FailsToOpen
<1>6. ASSUME NEW p \in Purchase, StorePayment(p) PROVE Move
  BY <1>6 DEF StorePayment, Move, PaymentOnly
<1>7. ASSUME NEW p \in Purchase, verify(p) PROVE Move
  BY <1>7 DEF verify, markPurchasePaid, records, Move, Pays, Fails, PaymentOnly
<1>8. ASSUME NEW p \in Purchase, ReconcileAct(p) PROVE Move
  BY <1>8 DEF ReconcileAct, DecisionInv, markPurchasePaid, records, Move, Pays, PaymentOnly
<1>9. ASSUME NEW p \in Purchase, FullyRefunded(p) PROVE Move
  BY <1>9 DEF FullyRefunded, Move, Refunded
<1>10. ASSUME NEW e \in Event, ProcessEvent(e) PROVE Move
  <2>1. e[1] \in Purchase
    BY DEF Event
  <2> QED
    BY <1>10, <2>1
    DEF ProcessEvent, processWebhook, markPurchasePaid, records, Move, Pays, Fails, PaymentOnly
<1>11. ASSUME NEW p \in Purchase,
              OrderDies(p) \/ AttemptFails(p) \/ Capture(p) \/ ReconcileAsk(p)
                \/ ReconcileDies(p) \/ GrowsOld(p)
       PROVE  Move
  BY <1>11 DEF OrderDies, AttemptFails, Capture, ReconcileAsk, ReconcileDies, GrowsOld, records,
               Move, PaymentOnly
<1>12. ASSUME NEW e \in Event, ClaimEvent(e) \/ DuplicateEvent(e) \/ EventFails(e) \/ EventDies(e)
       PROVE  Move
  BY <1>12 DEF ClaimEvent, DuplicateEvent, EventFails, EventDies, records, Move, PaymentOnly
<1> QED
  BY <1>1, <1>2, <1>3, <1>4, <1>5, <1>6, <1>7, <1>8, <1>9, <1>10, <1>11, <1>12 DEF Next

-------------------------------------------------------------------------------
(* The invariant                                                           *)

LEMMA InitIInv == Init => IInv
BY PurchasesAssumption
DEF Init, IInv, TypeOK, OpeningInv, DecisionInv, ReservationInv, Reportable, Status, Event

(* What a move does to the coupon: takes a use for an order that has none, *)
(* gives an order's use back, or makes a reservation a redemption.         *)
Takes(p) == ~Holds(p) /\ \E r \in {"RESERVED", "REDEEMED"} : TakeUse(p, r)

Gives(p) ==
  /\ Holds(p)
  /\ redemption' = [redemption EXCEPT ![p] = "RELEASED"]
  /\ held' = [held EXCEPT ![Owner[p]] = IF @ > 0 THEN @ - 1 ELSE @]
  /\ usedCount' = IF usedCount > 0 THEN usedCount - 1 ELSE usedCount

Redeems(p) ==
  /\ redemption[p] = "RESERVED"
  /\ redemption' = [redemption EXCEPT ![p] = "REDEEMED"]
  /\ UNCHANGED <<usedCount, held>>

CouponMove ==
  UNCHANGED coupon \/ \E p \in Purchase : Takes(p) \/ Gives(p) \/ Redeems(p)

LEMMA MoveOfCoupon ==
  ASSUME OpeningInv, Move
  PROVE  CouponMove
<1> USE DEF CouponMove
<1>1. CASE PaymentOnly
  BY <1>1 DEF PaymentOnly
<1>2. ASSUME NEW p \in Purchase, Stores(p) PROVE CouponMove
  BY <1>2 DEF Stores, OpeningInv, Takes, Holds, coupon
<1>3. ASSUME NEW p \in Purchase, Pays(p) PROVE CouponMove
  <2>1. redeemCoupon(p)
    BY <1>3 DEF Pays, markPurchasePaid
  <2> QED
    BY <2>1 DEF redeemCoupon, Takes, Redeems, Holds, coupon
<1>4. ASSUME NEW p \in Purchase, NEW from \in {{"RESERVED"}, {"REDEEMED"}}, releaseCoupon(p, from)
      PROVE  CouponMove
  BY <1>4 DEF releaseCoupon, Gives, Holds
<1>5. ASSUME NEW p \in Purchase, FailsToOpen(p) \/ Fails(p) PROVE CouponMove
  BY <1>4, <1>5 DEF FailsToOpen, Fails, markPurchaseFailed, records, coupon
<1>6. ASSUME NEW p \in Purchase, expirePurchase(p) PROVE CouponMove
  BY <1>4, <1>6 DEF expirePurchase, records, coupon
<1>7. ASSUME NEW p \in Purchase, Refunded(p) PROVE CouponMove
  BY <1>4, <1>7 DEF Refunded
<1> QED
  BY <1>1, <1>2, <1>3, <1>5, <1>6, <1>7 DEF Move

CouponTyped ==
  /\ redemption \in [Purchase -> {"NONE", "RESERVED", "REDEEMED", "RELEASED"}]
  /\ usedCount \in Nat
  /\ held \in [User -> Nat]

DocumentsTyped ==
  /\ status \in [Purchase -> Status]
  /\ credited \subseteq Purchase
  /\ invoice \in [Purchase -> Nat]
  /\ seq \in Nat

LEMMA CouponStaysTyped ==
  ASSUME CouponTyped, CouponMove
  PROVE  CouponTyped'
<1> USE PurchasesAssumption DEF CouponTyped
<1>1. CASE UNCHANGED coupon
  BY <1>1 DEF coupon
<1>2. ASSUME NEW p \in Purchase, Takes(p) PROVE CouponTyped'
  BY <1>2 DEF Takes, TakeUse
<1>3. ASSUME NEW p \in Purchase, Gives(p) PROVE CouponTyped'
  BY <1>3 DEF Gives
<1>4. ASSUME NEW p \in Purchase, Redeems(p) PROVE CouponTyped'
  BY <1>4 DEF Redeems
<1> QED
  BY <1>1, <1>2, <1>3, <1>4 DEF CouponMove

LEMMA DocumentsStayTyped ==
  ASSUME DocumentsTyped, Move
  PROVE  DocumentsTyped'
<1> USE DEF DocumentsTyped, Status
<1>1. CASE PaymentOnly
  BY <1>1 DEF PaymentOnly
<1>2. ASSUME NEW p \in Purchase, Stores(p) PROVE DocumentsTyped'
  BY <1>2 DEF Stores
<1>3. ASSUME NEW p \in Purchase, Pays(p) PROVE DocumentsTyped'
  BY <1>3 DEF Pays, markPurchasePaid, issueInvoiceNumber
<1>4. ASSUME NEW p \in Purchase, FailsToOpen(p) \/ Fails(p) PROVE DocumentsTyped'
  BY <1>4 DEF FailsToOpen, Fails, markPurchaseFailed, records
<1>5. ASSUME NEW p \in Purchase, expirePurchase(p) PROVE DocumentsTyped'
  BY <1>5 DEF expirePurchase, records
<1>6. ASSUME NEW p \in Purchase, Refunded(p) PROVE DocumentsTyped'
  BY <1>6 DEF Refunded
<1> QED
  BY <1>1, <1>2, <1>3, <1>4, <1>5, <1>6 DEF Move

RestTyped ==
  /\ payment \in [Purchase -> {"NONE", "CREATED", "FAILED", "CAPTURED", "REFUNDED"}]
  /\ order \in [Purchase -> {"IDLE", "STORED", "OPENED", "ANSWERED", "REFUSED", "DEAD"}]
  /\ gateway \in [Purchase -> {"NONE", "OPEN", "CAPTURED", "MISMATCH"}]
  /\ events \subseteq Event
  /\ claimed \subseteq Event
  /\ handling \subseteq Event
  /\ recon \in [Purchase -> {"IDLE", "PAY", "EXPIRE"}]
  /\ overdue \subseteq Purchase
  /\ crashes \in 0..MaxCrashes

(* A transaction changes a payment only if there is one.                   *)
PaymentMove(p) ==
  \/ UNCHANGED payment
  \/ \E s \in {"FAILED", "CAPTURED"} : paymentStatus(p, s)

LEMMA TransactionOfPayment ==
  ASSUME NEW p \in Purchase, NEW source,
         markPurchasePaid(p) \/ markPurchaseFailed(p, source) \/ expirePurchase(p)
  PROVE  PaymentMove(p)
BY DEF markPurchasePaid, markPurchaseFailed, expirePurchase, records, PaymentMove

LEMMA PaymentStaysTyped ==
  ASSUME NEW p \in Purchase, PaymentMove(p),
         payment \in [Purchase -> {"NONE", "CREATED", "FAILED", "CAPTURED", "REFUNDED"}]
  PROVE  /\ payment' \in [Purchase -> {"NONE", "CREATED", "FAILED", "CAPTURED", "REFUNDED"}]
         /\ \A q \in Purchase : payment'[q] = "NONE" <=> payment[q] = "NONE"
BY DEF PaymentMove, paymentStatus

(* The other variables, action by action.                                  *)
LEMMA RestStaysOK ==
  ASSUME IInv, [Next]_vars
  PROVE  RestTyped' /\ OpeningInv' /\ DecisionInv'
<1> USE PurchasesAssumption DEF IInv, TypeOK, RestTyped, OpeningInv, DecisionInv
<1>1. CASE UNCHANGED vars
  BY <1>1 DEF vars, records, outside, coupon
<1>2. ASSUME NEW p \in Purchase, StoreOrder(p) PROVE RestTyped' /\ OpeningInv' /\ DecisionInv'
  BY <1>2 DEF StoreOrder, TakeUse, coupon
<1>3. ASSUME NEW p \in Purchase, CompleteFree(p) PROVE RestTyped' /\ OpeningInv' /\ DecisionInv'
  <2>1. payment' = payment
    BY <1>3 DEF CompleteFree, markPurchasePaid, records, paymentStatus
  <2>2. \A q \in Purchase : q # p => status'[q] = status[q] /\ redemption'[q] = redemption[q]
    BY <1>3
    DEF CompleteFree, markPurchasePaid, records, coupon, redeemCoupon, TakeUse
  <2> QED
    BY <1>3, <2>1, <2>2 DEF CompleteFree
<1>4. ASSUME NEW p \in Purchase, OpenGatewayOrder(p) PROVE RestTyped' /\ OpeningInv' /\ DecisionInv'
  BY <1>4 DEF OpenGatewayOrder, records, coupon
<1>5. ASSUME NEW p \in Purchase, GatewayRefusesOrder(p) PROVE RestTyped' /\ OpeningInv' /\ DecisionInv'
  <2>1. payment' = payment
    BY <1>5 DEF GatewayRefusesOrder, markPurchaseFailed, records, paymentStatus
  <2>2. \A q \in Purchase : q # p => status'[q] = status[q] /\ redemption'[q] = redemption[q]
    BY <1>5
    DEF GatewayRefusesOrder, markPurchaseFailed, records, coupon, releaseCoupon
  <2> QED
    BY <1>5, <2>1, <2>2 DEF GatewayRefusesOrder
<1>6. ASSUME NEW p \in Purchase, StorePayment(p) PROVE RestTyped' /\ OpeningInv' /\ DecisionInv'
  BY <1>6 DEF StorePayment, coupon
<1>7. ASSUME NEW p \in Purchase, OrderDies(p) PROVE RestTyped' /\ OpeningInv' /\ DecisionInv'
  BY <1>7 DEF OrderDies, records, coupon
<1>8. ASSUME NEW p \in Purchase, AttemptFails(p) \/ Capture(p)
      PROVE  RestTyped' /\ OpeningInv' /\ DecisionInv'
  BY <1>8 DEF AttemptFails, Capture, CheckoutOpen, Event, records, coupon
<1>9. ASSUME NEW p \in Purchase, payment[p] # "NONE", NEW source,
             markPurchasePaid(p) \/ markPurchaseFailed(p, source) \/ expirePurchase(p),
             UNCHANGED <<order, gateway, crashes, overdue, claimed>>,
             recon' \in [Purchase -> {"IDLE", "PAY", "EXPIRE"}],
             \A q \in Purchase : recon'[q] \in {"IDLE", recon[q]},
             events' \subseteq Event, handling' \subseteq Event
      PROVE  RestTyped' /\ OpeningInv' /\ DecisionInv'
  <2>1. /\ payment' \in [Purchase -> {"NONE", "CREATED", "FAILED", "CAPTURED", "REFUNDED"}]
        /\ \A q \in Purchase : payment'[q] = "NONE" <=> payment[q] = "NONE"
    BY <1>9, TransactionOfPayment, PaymentStaysTyped
  <2>2. order[p] # "IDLE"
    BY <1>9
  <2>3. \A q \in Purchase : q # p => status'[q] = status[q] /\ redemption'[q] = redemption[q]
    BY <1>9
    DEF markPurchasePaid, markPurchaseFailed, expirePurchase, records, coupon, releaseCoupon,
        redeemCoupon, TakeUse
  <2>4. RestTyped'
    BY <1>9, <2>1
  <2>5. OpeningInv'
    BY <1>9, <2>1, <2>2, <2>3
  <2>6. DecisionInv'
    BY <1>9, <2>1
  <2> QED
    BY <2>4, <2>5, <2>6
<1>10. ASSUME NEW p \in Purchase, verify(p) PROVE RestTyped' /\ OpeningInv' /\ DecisionInv'
  BY <1>9, <1>10 DEF verify, outside
<1>11. ASSUME NEW p \in Purchase, ReconcileAct(p) PROVE RestTyped' /\ OpeningInv' /\ DecisionInv'
  <2>1. payment[p] # "NONE"
    BY <1>11 DEF ReconcileAct
  <2>2. /\ recon' \in [Purchase -> {"IDLE", "PAY", "EXPIRE"}]
        /\ \A q \in Purchase : recon'[q] \in {"IDLE", recon[q]}
    BY <1>11 DEF ReconcileAct
  <2> QED
    BY <1>9, <1>11, <2>1, <2>2 DEF ReconcileAct
<1>12. ASSUME NEW e \in Event, ProcessEvent(e) PROVE RestTyped' /\ OpeningInv' /\ DecisionInv'
  <2>1. e[1] \in Purchase
    BY DEF Event
  <2>2. events' \subseteq Event /\ handling' \subseteq Event
    BY <1>12 DEF ProcessEvent
  <2>3. CASE UNCHANGED records
    BY <1>12, <2>2, <2>3 DEF ProcessEvent, records, coupon
  <2>4. CASE ~UNCHANGED records
    <3>1. payment[e[1]] # "NONE"
      BY <1>12, <2>4 DEF ProcessEvent, processWebhook
    <3>2. markPurchasePaid(e[1]) \/ markPurchaseFailed(e[1], "WEBHOOK")
      BY <1>12, <2>4, <3>1 DEF ProcessEvent, processWebhook
    <3> QED
      BY <1>9, <1>12, <2>1, <2>2, <3>1, <3>2 DEF ProcessEvent
  <2> QED
    BY <2>3, <2>4
<1>13. ASSUME NEW p \in Purchase, ReconcileAsk(p) PROVE RestTyped' /\ OpeningInv' /\ DecisionInv'
  <2>1. Outcome(p) \in {"IDLE", "PAY", "EXPIRE"} /\ (Outcome(p) = "PAY" => gateway[p] = "CAPTURED")
    BY DEF Outcome
  <2> QED
    BY <1>13, <2>1 DEF ReconcileAsk, records, coupon
<1>14. ASSUME NEW p \in Purchase, ReconcileDies(p) \/ GrowsOld(p)
       PROVE  RestTyped' /\ OpeningInv' /\ DecisionInv'
  BY <1>14 DEF ReconcileDies, GrowsOld, records, coupon
<1>15. ASSUME NEW p \in Purchase, FullyRefunded(p) PROVE RestTyped' /\ OpeningInv' /\ DecisionInv'
  <2>1. \A q \in Purchase : q # p => status'[q] = status[q] /\ redemption'[q] = redemption[q]
    BY <1>15 DEF FullyRefunded, releaseCoupon, coupon
  <2> QED
    BY <1>15, <2>1 DEF FullyRefunded, outside
<1>16. ASSUME NEW e \in Event, ClaimEvent(e) \/ DuplicateEvent(e) \/ EventFails(e) \/ EventDies(e)
       PROVE  RestTyped' /\ OpeningInv' /\ DecisionInv'
  BY <1>16 DEF ClaimEvent, DuplicateEvent, EventFails, EventDies, records, coupon
<1> QED
  BY <1>1, <1>2, <1>3, <1>4, <1>5, <1>6, <1>7, <1>8, <1>10, <1>11, <1>12, <1>13, <1>14, <1>15,
     <1>16 DEF Next

(* An order becomes reportable only when it is stored.                     *)
LEMMA ReportableWasReportable ==
  ASSUME IInv, [Next]_vars, NEW q \in Purchase,
         payment'[q] # "NONE" \/ order'[q] \in {"STORED", "OPENED"}
  PROVE  \/ payment[q] # "NONE" \/ order[q] \in {"STORED", "OPENED"}
         \/ order[q] = "IDLE"
<1> USE DEF IInv, TypeOK
<1>1. CASE UNCHANGED vars
  BY <1>1 DEF vars, records, outside
<1>2. ASSUME NEW p \in Purchase,
             StoreOrder(p) \/ OpenGatewayOrder(p) \/ StorePayment(p) \/ OrderDies(p)
      PROVE  payment[q] # "NONE" \/ order[q] \in {"STORED", "OPENED", "IDLE"}
  BY <1>2 DEF StoreOrder, OpenGatewayOrder, StorePayment, OrderDies, records
<1>3. ASSUME NEW p \in Purchase, PaymentMove(p),
             \A x \in Purchase : order'[x] = order[x] \/ order'[x] \in {"ANSWERED", "REFUSED"}
      PROVE  payment[q] # "NONE" \/ order[q] \in {"STORED", "OPENED", "IDLE"}
  BY <1>3 DEF PaymentMove, paymentStatus
<1>4. ASSUME NEW p \in Purchase, CompleteFree(p) \/ GatewayRefusesOrder(p)
      PROVE  payment[q] # "NONE" \/ order[q] \in {"STORED", "OPENED", "IDLE"}
  BY <1>3, <1>4, TransactionOfPayment DEF CompleteFree, GatewayRefusesOrder
<1>5. ASSUME NEW p \in Purchase, AttemptFails(p) \/ Capture(p) \/ ReconcileAsk(p)
                                   \/ ReconcileDies(p) \/ GrowsOld(p)
      PROVE  payment[q] # "NONE" \/ order[q] \in {"STORED", "OPENED", "IDLE"}
  BY <1>5 DEF AttemptFails, Capture, ReconcileAsk, ReconcileDies, GrowsOld, records
<1>6. ASSUME NEW p \in Purchase, verify(p) \/ ReconcileAct(p)
      PROVE  payment[q] # "NONE" \/ order[q] \in {"STORED", "OPENED", "IDLE"}
  BY <1>3, <1>6, TransactionOfPayment DEF verify, ReconcileAct, outside
<1>7. ASSUME NEW p \in Purchase, FullyRefunded(p)
      PROVE  payment[q] # "NONE" \/ order[q] \in {"STORED", "OPENED", "IDLE"}
  BY <1>7 DEF FullyRefunded, outside
<1>8. ASSUME NEW e \in Event, ProcessEvent(e)
      PROVE  payment[q] # "NONE" \/ order[q] \in {"STORED", "OPENED", "IDLE"}
  <2>1. e[1] \in Purchase
    BY DEF Event
  <2>2. PaymentMove(e[1])
    BY <1>8, <2>1, TransactionOfPayment DEF ProcessEvent, processWebhook, PaymentMove, records
  <2> QED
    BY <1>3, <1>8, <2>1, <2>2 DEF ProcessEvent
<1>9. ASSUME NEW e \in Event, ClaimEvent(e) \/ DuplicateEvent(e) \/ EventFails(e) \/ EventDies(e)
      PROVE  payment[q] # "NONE" \/ order[q] \in {"STORED", "OPENED", "IDLE"}
  BY <1>9 DEF ClaimEvent, DuplicateEvent, EventFails, EventDies, records
<1> QED
  BY <1>1, <1>2, <1>4, <1>5, <1>6, <1>7, <1>8, <1>9 DEF Next

(* A move that ends a reservation ends the chance that the order is        *)
(* reported paid without having expired.                                   *)
LEMMA ReservationKept ==
  ASSUME IInv, Move, NEW q \in WithCoupon,
         status'[q] \in {"CREATED", "FAILED"},
         payment'[q] # "NONE" \/ order'[q] \in {"STORED", "OPENED"},
         Reportable(q) \/ order[q] = "IDLE"
  PROVE  redemption'[q] = "RESERVED"
<1> USE PurchasesAssumption DEF IInv, TypeOK, coupon
<1>1. q \in Purchase
  OBVIOUS
<1>2. order[q] = "IDLE" => status[q] = "NONE"
  BY <1>1 DEF OpeningInv
<1>3. order[q] # "IDLE" => redemption[q] = "RESERVED" /\ status[q] \in {"CREATED", "FAILED"}
  BY DEF ReservationInv, Reportable
<1>4. CASE PaymentOnly
  BY <1>2, <1>3, <1>4 DEF PaymentOnly
<1>5. ASSUME NEW p \in Purchase, Stores(p) PROVE redemption'[q] = "RESERVED"
  BY <1>1, <1>2, <1>3, <1>5 DEF Stores, TakeUse
<1>6. ASSUME NEW p \in Purchase, Pays(p) PROVE redemption'[q] = "RESERVED"
  <2>1. q # p /\ status'[q] = status[q]
    BY <1>1, <1>6 DEF Pays, markPurchasePaid
  <2>2. redemption'[q] = redemption[q]
    BY <1>1, <1>6, <2>1 DEF Pays, markPurchasePaid, redeemCoupon, TakeUse
  <2> QED
    BY <1>2, <1>3, <2>1, <2>2
<1>7. ASSUME NEW p \in Purchase, FailsToOpen(p) PROVE redemption'[q] = "RESERVED"
  <2>1. q # p
    BY <1>7 DEF FailsToOpen
  <2> QED
    BY <1>1, <1>2, <1>3, <1>7, <2>1 DEF FailsToOpen, markPurchaseFailed, releaseCoupon, records
<1>8. ASSUME NEW p \in Purchase, Fails(p) PROVE redemption'[q] = "RESERVED"
  BY <1>1, <1>2, <1>3, <1>8 DEF Fails, markPurchaseFailed, records
<1>9. ASSUME NEW p \in Purchase, expirePurchase(p) PROVE redemption'[q] = "RESERVED"
  BY <1>1, <1>2, <1>3, <1>9 DEF expirePurchase, releaseCoupon, records
<1>10. ASSUME NEW p \in Purchase, Refunded(p) PROVE redemption'[q] = "RESERVED"
  BY <1>1, <1>2, <1>3, <1>10 DEF Refunded, releaseCoupon
<1> QED
  BY <1>4, <1>5, <1>6, <1>7, <1>8, <1>9, <1>10 DEF Move

LEMMA NextIInv ==
  ASSUME IInv, [Next]_vars
  PROVE  IInv'
<1>1. Move
  BY StepIsAMove
<1>2. TypeOK'
  <2>1. CouponTyped' /\ DocumentsTyped'
    BY <1>1, MoveOfCoupon, CouponStaysTyped, DocumentsStayTyped
    DEF IInv, TypeOK, CouponTyped, DocumentsTyped
  <2> QED
    BY <2>1, RestStaysOK DEF TypeOK, CouponTyped, DocumentsTyped, RestTyped
<1>3. ReservationInv'
  <2> SUFFICES ASSUME NEW q \in WithCoupon, Reportable(q)'
               PROVE  redemption'[q] = "RESERVED"
    BY DEF ReservationInv
  <2>1. q \in Purchase
    BY PurchasesAssumption
  <2>2. \/ payment[q] # "NONE" \/ order[q] \in {"STORED", "OPENED"}
        \/ order[q] = "IDLE"
    BY <2>1, ReportableWasReportable DEF Reportable
  <2>3. status[q] \in {"CREATED", "FAILED"} \/ order[q] = "IDLE"
    <3> USE PurchasesAssumption DEF IInv, TypeOK, Reportable
    <3>1. CASE PaymentOnly
      BY <2>1, <3>1 DEF PaymentOnly
    <3>2. ASSUME NEW p \in Purchase, Stores(p)
          PROVE  status[q] \in {"CREATED", "FAILED"} \/ order[q] = "IDLE"
      BY <2>1, <3>2 DEF Stores
    <3>3. ASSUME NEW p \in Purchase, Pays(p)
          PROVE  status[q] \in {"CREATED", "FAILED"} \/ order[q] = "IDLE"
      BY <2>1, <3>3 DEF Pays, markPurchasePaid
    <3>4. ASSUME NEW p \in Purchase, FailsToOpen(p) \/ Fails(p)
          PROVE  status[q] \in {"CREATED", "FAILED"} \/ order[q] = "IDLE"
      BY <2>1, <3>4 DEF FailsToOpen, Fails, markPurchaseFailed, records
    <3>5. ASSUME NEW p \in Purchase, expirePurchase(p) \/ Refunded(p)
          PROVE  status[q] \in {"CREATED", "FAILED"} \/ order[q] = "IDLE"
      BY <2>1, <3>5 DEF expirePurchase, Refunded, records
    <3> QED
      BY <1>1, <3>1, <3>2, <3>3, <3>4, <3>5 DEF Move
  <2> QED
    BY <1>1, <2>2, <2>3, ReservationKept DEF Reportable
<1> QED
  BY <1>2, <1>3, RestStaysOK DEF IInv

LEMMA SpecIInv == Spec => []IInv
<1>1. Init => IInv
  BY InitIInv
<1>2. IInv /\ [Next]_vars => IInv'
  BY NextIInv
<1> QED
  BY <1>1, <1>2, PTL DEF Spec

-------------------------------------------------------------------------------
(* The theorems                                                            *)

(* The documents, the events and the decisions of Purchases stay in their  *)
(* types, for any number of orders, users and crashes.                     *)
THEOREM TypeCorrect == Spec => []TypeOK
<1>1. IInv => TypeOK
  BY DEF IInv
<1> QED
  BY <1>1, SpecIInv, PTL

(* A full capture is never taken back by the gateway.                      *)
LEMMA CaptureStays ==
  ASSUME IInv, [Next]_vars, NEW q \in Purchase, gateway[q] = "CAPTURED"
  PROVE  gateway'[q] = "CAPTURED"
<1> USE DEF IInv, TypeOK, OpeningInv
<1>1. CASE UNCHANGED gateway
  BY <1>1
<1>2. ASSUME NEW p \in Purchase, OpenGatewayOrder(p) \/ Capture(p) PROVE gateway'[q] = "CAPTURED"
  BY <1>2 DEF OpenGatewayOrder, Capture, CheckoutOpen
<1>3. UNCHANGED gateway \/ \E p \in Purchase : OpenGatewayOrder(p) \/ Capture(p)
  BY DEF Next, vars, outside, StoreOrder, CompleteFree, GatewayRefusesOrder, StorePayment,
         OrderDies, AttemptFails, verify, ReconcileAsk, ReconcileAct, ReconcileDies, GrowsOld,
         FullyRefunded, ClaimEvent, DuplicateEvent, ProcessEvent, EventFails, EventDies
<1> QED
  BY <1>1, <1>2, <1>3

(* Credits and the status PAID go together, and rest on the gateway's      *)
(* capture of the whole amount or on a coupon that covers it: whoever      *)
(* reports the payment, however often and in whatever order.               *)
THEOREM PaidIsCreditedAlways == Spec => []PaidIsCredited
<1>1. Init => PaidIsCredited
  BY DEF Init, PaidIsCredited
<1>2. IInv /\ PaidIsCredited /\ [Next]_vars => PaidIsCredited'
  <2> SUFFICES ASSUME IInv, PaidIsCredited, [Next]_vars, NEW q \in Purchase
               PROVE  /\ q \in credited' <=> status'[q] \in {"PAID", "REFUNDED"}
                      /\ q \in credited' => q \in Free \/ gateway'[q] = "CAPTURED"
    BY DEF PaidIsCredited
  <2> USE DEF PaidIsCredited, IInv, TypeOK
  <2>1. Move
    BY StepIsAMove
  <2>2. gateway[q] = "CAPTURED" => gateway'[q] = "CAPTURED"
    BY CaptureStays
  <2>3. CASE PaymentOnly
    BY <2>2, <2>3 DEF PaymentOnly
  <2>4. ASSUME NEW p \in Purchase, Stores(p)
        PROVE  credited' = credited
                 /\ (q \in credited <=> status'[q] \in {"PAID", "REFUNDED"})
    BY <2>4 DEF Stores, OpeningInv
  <2>5. ASSUME NEW p \in Purchase, Pays(p)
        PROVE  /\ q \in credited' <=> status'[q] \in {"PAID", "REFUNDED"}
               /\ q \in credited' => q \in Free \/ gateway[q] = "CAPTURED"
    BY <2>5 DEF Pays, markPurchasePaid
  <2>6. ASSUME NEW p \in Purchase, FailsToOpen(p) \/ Fails(p)
        PROVE  credited' = credited
                 /\ (q \in credited <=> status'[q] \in {"PAID", "REFUNDED"})
    BY <2>6 DEF FailsToOpen, Fails, markPurchaseFailed, records
  <2>7. ASSUME NEW p \in Purchase, expirePurchase(p) \/ Refunded(p)
        PROVE  credited' = credited
                 /\ (q \in credited <=> status'[q] \in {"PAID", "REFUNDED"})
    BY <2>7 DEF expirePurchase, Refunded, records
  <2> QED
    BY <2>1, <2>2, <2>3, <2>4, <2>5, <2>6, <2>7 DEF Move
<1> QED
  BY <1>1, <1>2, SpecIInv, PTL DEF Spec

(* Invoices are numbered 1, 2, 3, ... as orders are paid, one number each. *)
THEOREM InvoicesHaveNoGapAlways == Spec => []InvoicesHaveNoGap
<1>1. Init => InvoicesHaveNoGap
  BY DEF Init, InvoicesHaveNoGap
<1>2. IInv /\ InvoicesHaveNoGap /\ [Next]_vars => InvoicesHaveNoGap'
  <2> SUFFICES ASSUME IInv, InvoicesHaveNoGap, [Next]_vars
               PROVE  InvoicesHaveNoGap'
    OBVIOUS
  <2> USE DEF InvoicesHaveNoGap, IInv, TypeOK
  <2>1. Move
    BY StepIsAMove
  <2>2. CASE PaymentOnly
    BY <2>2 DEF PaymentOnly
  <2>3. ASSUME UNCHANGED <<invoice, seq>>,
               \A q \in Purchase : status'[q] \in {"PAID", "REFUNDED"}
                                     <=> status[q] \in {"PAID", "REFUNDED"}
        PROVE  InvoicesHaveNoGap'
    BY <2>3
  <2>4. ASSUME NEW p \in Purchase, Stores(p) PROVE InvoicesHaveNoGap'
    BY <2>3, <2>4 DEF Stores, OpeningInv
  <2>5. ASSUME NEW p \in Purchase, Pays(p) PROVE InvoicesHaveNoGap'
    <3>1. invoice[p] = 0
      BY <2>5 DEF Pays, Payable, Unpaid
    <3>2. /\ seq' = seq + 1
          /\ invoice' = [invoice EXCEPT ![p] = seq + 1]
          /\ status' = [status EXCEPT ![p] = "PAID"]
      BY <2>5, <3>1 DEF Pays, markPurchasePaid, issueInvoiceNumber
    <3>3. \A q \in Purchase : invoice'[q] = IF q = p THEN seq + 1 ELSE invoice[q]
      BY <3>2
    <3>4. \A q \in Purchase : invoice[q] # 0 => invoice[q] \in 1..seq
      OBVIOUS
    <3>5. \A q \in Purchase : invoice'[q] # 0 <=> status'[q] \in {"PAID", "REFUNDED"}
      BY <3>2, <3>3
    <3>6. {invoice'[q] : q \in {x \in Purchase : invoice'[x] # 0}} = 1..seq'
      <4>1. ASSUME NEW q \in Purchase, invoice'[q] # 0 PROVE invoice'[q] \in 1..seq'
        BY <3>2, <3>3, <3>4, <4>1
      <4>2. ASSUME NEW n \in 1..seq' PROVE \E q \in Purchase : invoice'[q] # 0 /\ invoice'[q] = n
        <5>1. CASE n = seq + 1
          BY <3>3, <5>1
        <5>2. CASE n \in 1..seq
          <6>1. PICK q \in Purchase : invoice[q] # 0 /\ invoice[q] = n
            BY <5>2
          <6> QED
            BY <3>1, <3>3, <6>1
        <5> QED
          BY <3>2, <5>1, <5>2
      <4> QED
        BY <4>1, <4>2
    <3>7. \A q, r \in Purchase : invoice'[q] = invoice'[r] /\ invoice'[q] # 0 => q = r
      BY <3>2, <3>3, <3>4
    <3> QED
      BY <3>5, <3>6, <3>7
  <2>6. ASSUME NEW p \in Purchase, FailsToOpen(p) \/ Fails(p) PROVE InvoicesHaveNoGap'
    BY <2>3, <2>6 DEF FailsToOpen, Fails, markPurchaseFailed, records
  <2>7. ASSUME NEW p \in Purchase, expirePurchase(p) \/ Refunded(p) PROVE InvoicesHaveNoGap'
    BY <2>3, <2>7 DEF expirePurchase, Refunded, records
  <2> QED
    BY <2>1, <2>2, <2>4, <2>5, <2>6, <2>7 DEF Move
<1> QED
  BY <1>1, <1>2, SpecIInv, PTL DEF Spec

Holding == {p \in Purchase : Holds(p)}
HoldingOf(u) == {p \in Purchase : Holds(p) /\ Owner[p] = u}

LEMMA HoldingFinite ==
  /\ IsFiniteSet(Holding)
  /\ Cardinality(Holding) \in Nat
  /\ \A u \in User : IsFiniteSet(HoldingOf(u)) /\ Cardinality(HoldingOf(u)) \in Nat
<1>1. Holding \subseteq Purchase /\ \A u \in User : HoldingOf(u) \subseteq Purchase
  BY DEF Holding, HoldingOf
<1> QED
  BY <1>1, FS_Subset, FS_CardinalityType, PurchasesAssumption

LEMMA CountsKept ==
  ASSUME TypeOK, CouponCounts, CouponMove
  PROVE  CouponCounts'
<1> USE PurchasesAssumption
<1>1. usedCount = Cardinality(Holding) /\ \A u \in User : held[u] = Cardinality(HoldingOf(u))
  BY DEF CouponCounts, Holding, HoldingOf
<1>2. SUFFICES /\ usedCount' = Cardinality(Holding')
               /\ \A u \in User : held'[u] = Cardinality(HoldingOf(u)')
  BY DEF CouponCounts, Holding, HoldingOf
<1>3. CASE UNCHANGED coupon
  BY <1>1, <1>3 DEF coupon, Holding, HoldingOf, Holds
<1>4. ASSUME NEW p \in Purchase, Takes(p)
      PROVE  /\ usedCount' = Cardinality(Holding')
             /\ \A u \in User : held'[u] = Cardinality(HoldingOf(u)')
  <2>1. p \notin Holding /\ Holding' = Holding \cup {p}
    BY <1>4 DEF TypeOK, Takes, TakeUse, Holding, Holds
  <2>2. /\ \A u \in User : u # Owner[p] => HoldingOf(u)' = HoldingOf(u)
        /\ p \notin HoldingOf(Owner[p])
        /\ HoldingOf(Owner[p])' = HoldingOf(Owner[p]) \cup {p}
    BY <1>4 DEF TypeOK, Takes, TakeUse, HoldingOf, Holds
  <2>3. usedCount' = usedCount + 1 /\ held' = [held EXCEPT ![Owner[p]] = @ + 1]
    BY <1>4 DEF Takes, TakeUse
  <2>4. usedCount' = Cardinality(Holding')
    BY <1>1, <2>1, <2>3, HoldingFinite, FS_AddElement
  <2>5. Cardinality(HoldingOf(Owner[p])') = Cardinality(HoldingOf(Owner[p])) + 1
    BY <2>2, HoldingFinite, FS_AddElement
  <2> QED
    BY <1>1, <2>2, <2>3, <2>4, <2>5 DEF TypeOK
<1>5. ASSUME NEW p \in Purchase, Gives(p)
      PROVE  /\ usedCount' = Cardinality(Holding')
             /\ \A u \in User : held'[u] = Cardinality(HoldingOf(u)')
  <2>1. p \in Holding /\ Holding' = Holding \ {p}
    BY <1>5 DEF TypeOK, Gives, Holding, Holds
  <2>2. /\ \A u \in User : u # Owner[p] => HoldingOf(u)' = HoldingOf(u)
        /\ p \in HoldingOf(Owner[p])
        /\ HoldingOf(Owner[p])' = HoldingOf(Owner[p]) \ {p}
    BY <1>5 DEF TypeOK, Gives, HoldingOf, Holds
  <2>3. Cardinality(Holding') = Cardinality(Holding) - 1
    BY <2>1, HoldingFinite, FS_RemoveElement
  <2>4. Cardinality(HoldingOf(Owner[p])') = Cardinality(HoldingOf(Owner[p])) - 1
    BY <2>2, HoldingFinite, FS_RemoveElement
  <2>5. Holding' \subseteq Purchase /\ HoldingOf(Owner[p])' \subseteq Purchase
    BY <2>1, <2>2 DEF Holding, HoldingOf
  <2>6. Cardinality(Holding') \in Nat /\ Cardinality(HoldingOf(Owner[p])') \in Nat
    BY <2>5, FS_Subset, FS_CardinalityType
  <2>7. usedCount > 0 /\ held[Owner[p]] > 0
    BY <1>1, <2>3, <2>4, <2>6, HoldingFinite
  <2>8. usedCount' = usedCount - 1 /\ held' = [held EXCEPT ![Owner[p]] = @ - 1]
    BY <1>5, <2>7 DEF Gives
  <2> QED
    BY <1>1, <2>2, <2>3, <2>4, <2>8 DEF TypeOK
<1>6. ASSUME NEW p \in Purchase, Redeems(p)
      PROVE  /\ usedCount' = Cardinality(Holding')
             /\ \A u \in User : held'[u] = Cardinality(HoldingOf(u)')
  <2>1. Holding' = Holding /\ \A u \in User : HoldingOf(u)' = HoldingOf(u)
    BY <1>6 DEF TypeOK, Redeems, Holding, HoldingOf, Holds
  <2> QED
    BY <1>1, <1>6, <2>1 DEF Redeems
<1> QED
  BY <1>3, <1>4, <1>5, <1>6 DEF CouponMove

(* The coupon's counter and each user's counter always equal the uses on   *)
(* record: whatever is reserved, redeemed, given back or taken again.      *)
THEOREM CouponCountsAlways == Spec => []CouponCounts
<1>1. Init => CouponCounts
  <2>1. Init => Holding = {} /\ \A u \in User : HoldingOf(u) = {}
    BY DEF Init, Holding, HoldingOf, Holds
  <2> QED
    BY <2>1, FS_EmptySet DEF Init, CouponCounts, Holding, HoldingOf
<1>2. IInv /\ CouponCounts /\ [Next]_vars => CouponCounts'
  BY StepIsAMove, MoveOfCoupon, CountsKept DEF IInv
<1> QED
  BY <1>1, <1>2, SpecIInv, PTL DEF Spec

Beyond ==
  \/ usedCount' > usedCount /\ usedCount >= MaxUses
  \/ \E u \in User : held'[u] > held[u] /\ held[u] >= PerUserLimit

(* The step that exceeds a limit is the late payment of an expired order.  *)
LEMMA BeyondIsLate ==
  ASSUME IInv, Move, Beyond
  PROVE  \E p \in Purchase : status[p] = "EXPIRED" /\ status'[p] = "PAID"
<1> USE PurchasesAssumption DEF IInv, TypeOK, Beyond
<1>1. ASSUME UNCHANGED <<usedCount, held>> PROVE FALSE
  BY <1>1
<1>2. CASE PaymentOnly
  BY <1>1, <1>2 DEF PaymentOnly, coupon
<1>3. ASSUME NEW p \in Purchase, Stores(p) PROVE FALSE
  BY <1>1, <1>3 DEF Stores, CouponLeft, TakeUse, coupon
<1>4. ASSUME NEW p \in Purchase, NEW from, releaseCoupon(p, from) PROVE FALSE
  BY <1>4 DEF releaseCoupon, coupon
<1>5. ASSUME NEW p \in Purchase, FailsToOpen(p) \/ Fails(p) PROVE FALSE
  BY <1>1, <1>4, <1>5 DEF FailsToOpen, Fails, markPurchaseFailed, records, coupon
<1>6. ASSUME NEW p \in Purchase, expirePurchase(p) \/ Refunded(p) PROVE FALSE
  BY <1>1, <1>4, <1>6 DEF expirePurchase, Refunded, records, coupon
<1>7. ASSUME NEW p \in Purchase, Pays(p) PROVE status[p] = "EXPIRED" /\ status'[p] = "PAID"
  <2>1. redeemCoupon(p) /\ status' = [status EXCEPT ![p] = "PAID"] /\ status[p] \in Unpaid
    BY <1>7 DEF Pays, Payable, markPurchasePaid
  <2>2. p \in WithCoupon /\ redemption[p] \in {"NONE", "RELEASED"}
    BY <1>1, <2>1 DEF redeemCoupon, coupon
  <2>3. ~Reportable(p)
    BY <2>2 DEF ReservationInv
  <2> QED
    BY <1>7, <2>1, <2>3 DEF Pays, Reportable, Unpaid
<1> QED
  BY <1>2, <1>3, <1>5, <1>6, <1>7 DEF Move

(* A coupon exceeds its limits only when an order that had expired, and    *)
(* given its use back, is paid after all.                                  *)
THEOREM OverrunOnlyByLatePaymentAlways == Spec => OverrunOnlyByLatePayment
<1>1. IInv /\ [Next]_vars =>
        [(usedCount' > usedCount /\ usedCount >= MaxUses)
           \/ (\E u \in User : held'[u] > held[u] /\ held[u] >= PerUserLimit)
           => \E p \in Purchase : status[p] = "EXPIRED" /\ status'[p] = "PAID"]_vars
  BY StepIsAMove, BeyondIsLate DEF Beyond
<1> QED
  BY <1>1, SpecIInv, PTL DEF Spec, OverrunOnlyByLatePayment
=============================================================================
