------------------------------ MODULE Purchases ------------------------------
(***************************************************************************)
(* Purchases of credits, from the order to the credits on the account.     *)
(*                                                                         *)
(* Four parties report the outcome of one payment, in any order and at the *)
(* same time: the request that opens the order, the candidate's checkout   *)
(* page (verify), the gateway's webhooks and the reconciliation sweep.     *)
(* Every change of a purchase is a MongoDB transaction of its own, modelled *)
(* as one action; what lies between two transactions of a handler (a call  *)
(* of the gateway, a crash, another party) is modelled as interleaving.    *)
(*                                                                         *)
(* The gateway is external: it captures what was asked for, or another     *)
(* amount, and delivers each event until it is answered.  One coupon and   *)
(* one financial year are modelled; the refund of a purchase is one step   *)
(* here, Refunds models how it comes about.                                *)
(***************************************************************************)
EXTENDS Integers, FiniteSets

CONSTANTS
  Purchase,     \* the orders that may be made
  User,
  Owner,        \* Owner[p]: who makes order p
  WithCoupon,   \* the orders that ask for the coupon
  Free,         \* the orders of which the coupon covers the whole price
  MaxUses,      \* the coupon's maxUses
  PerUserLimit, \* its perUserLimit
  CaptureEvents,\* the events by which the gateway reports a capture
  MaxCrashes    \* bound: how many handlers die half-way

ASSUME PurchasesAssumption ==
  /\ IsFiniteSet(Purchase)
  /\ Owner \in [Purchase -> User]
  /\ WithCoupon \subseteq Purchase
  /\ Free \subseteq WithCoupon
  /\ MaxUses \in Nat
  /\ PerUserLimit \in Nat
  /\ CaptureEvents \subseteq {"payment.captured", "order.paid"}
  /\ MaxCrashes \in Nat

VARIABLES
  status,       \* the purchases: "NONE" before the order is stored
  payment,      \* payments.status: "NONE" until the gateway's order is stored
  credited,     \* the purchases whose credits are a lot of the account
  invoice,      \* purchases.invoiceNumber, 0 before it is issued
  seq,          \* invoiceCounters.seq of the year
  redemption,   \* couponRedemptions.status, "NONE" when the purchase has none
  usedCount,    \* coupons.usedCount
  held,         \* couponUserUsages.held
  order,        \* where the createOrder request is
  gateway,      \* the gateway's order: what was captured on it
  events,       \* webhook events the gateway goes on delivering
  claimed,      \* webhookEvents: the event ids seen
  handling,     \* webhook requests between the claim and its processing
  recon,        \* what reconcilePurchase has decided and not yet done
  overdue,      \* purchases older than expireAfterMs
  crashes

coupon == <<redemption, usedCount, held>>
records == <<status, payment, credited, invoice, seq, coupon>>
outside == <<order, gateway, events, claimed, handling, recon, overdue, crashes>>
vars == <<records, outside>>

Status == {"NONE", "CREATED", "FAILED", "EXPIRED", "PAID", "REFUNDED"}
Unpaid == {"CREATED", "FAILED", "EXPIRED"}
Event == Purchase \X (CaptureEvents \cup {"payment.failed"})

TypeOK ==
  /\ status \in [Purchase -> Status]
  /\ payment \in [Purchase -> {"NONE", "CREATED", "FAILED", "CAPTURED", "REFUNDED"}]
  /\ credited \subseteq Purchase
  /\ invoice \in [Purchase -> Nat]
  /\ seq \in Nat
  /\ redemption \in [Purchase -> {"NONE", "RESERVED", "REDEEMED", "RELEASED"}]
  /\ usedCount \in Nat
  /\ held \in [User -> Nat]
  /\ order \in [Purchase -> {"IDLE", "STORED", "OPENED", "ANSWERED", "REFUSED", "DEAD"}]
  /\ gateway \in [Purchase -> {"NONE", "OPEN", "CAPTURED", "MISMATCH"}]
  /\ events \subseteq Event
  /\ claimed \subseteq Event
  /\ handling \subseteq Event
  /\ recon \in [Purchase -> {"IDLE", "PAY", "EXPIRE"}]
  /\ overdue \subseteq Purchase
  /\ crashes \in 0..MaxCrashes

Init ==
  /\ status = [p \in Purchase |-> "NONE"]
  /\ payment = [p \in Purchase |-> "NONE"]
  /\ credited = {}
  /\ invoice = [p \in Purchase |-> 0]
  /\ seq = 0
  /\ redemption = [p \in Purchase |-> "NONE"]
  /\ usedCount = 0
  /\ held = [u \in User |-> 0]
  /\ order = [p \in Purchase |-> "IDLE"]
  /\ gateway = [p \in Purchase |-> "NONE"]
  /\ events = {}
  /\ claimed = {}
  /\ handling = {}
  /\ recon = [p \in Purchase |-> "IDLE"]
  /\ overdue = {}
  /\ crashes = 0

-------------------------------------------------------------------------------
(* The transactions of packages/db/src/purchases.ts.                       *)

(* Mutant: the coupon's own limit is the quote's business.                 *)
CouponLeft_QuoteOnly(p) == held[Owner[p]] < PerUserLimit

(* Both limits are conditions of the writes that take the use.             *)
CouponLeft(p) == usedCount < MaxUses /\ held[Owner[p]] < PerUserLimit

(* Takes one use of the coupon for p, whose redemption becomes r.          *)
TakeUse(p, r) ==
  /\ usedCount' = usedCount + 1
  /\ held' = [held EXCEPT ![Owner[p]] = @ + 1]
  /\ redemption' = [redemption EXCEPT ![p] = r]

(* Gives p's coupon use back, once.                                        *)
releaseCoupon(p, from) ==
  IF redemption[p] \in from
    THEN /\ redemption' = [redemption EXCEPT ![p] = "RELEASED"]
         /\ held' = [held EXCEPT ![Owner[p]] = IF @ > 0 THEN @ - 1 ELSE @]
         /\ usedCount' = IF usedCount > 0 THEN usedCount - 1 ELSE usedCount
    ELSE UNCHANGED coupon

(* Mutant: a use given back when the order expired is not taken again.     *)
redeemCoupon_OnlyReserved(p) ==
  /\ redemption' = [redemption EXCEPT ![p] = IF p \in WithCoupon THEN "REDEEMED" ELSE @]
  /\ UNCHANGED <<usedCount, held>>

(* The reservation becomes a redemption; without one (a late payment) the  *)
(* use is recorded anyway, whatever the limits say.                        *)
redeemCoupon(p) ==
  CASE p \in WithCoupon /\ redemption[p] = "RESERVED" ->
         /\ redemption' = [redemption EXCEPT ![p] = "REDEEMED"]
         /\ UNCHANGED <<usedCount, held>>
    [] p \in WithCoupon /\ redemption[p] \in {"NONE", "RELEASED"} -> TakeUse(p, "REDEEMED")
    [] OTHER -> UNCHANGED coupon

(* Mutant: the number comes from counting the purchases that are paid.     *)
issueInvoiceNumber_Counted(p) ==
  /\ seq' = seq + 1
  /\ invoice' = [invoice EXCEPT ![p] = Cardinality({q \in Purchase : status[q] = "PAID"}) + 1]

issueInvoiceNumber(p) ==
  IF invoice[p] # 0
    THEN UNCHANGED <<seq, invoice>>
    ELSE /\ seq' = seq + 1
         /\ invoice' = [invoice EXCEPT ![p] = seq + 1]

(* paymentStatus: changes the payment if there is one.                     *)
paymentStatus(p, s) ==
  payment' = [payment EXCEPT ![p] = IF @ = "NONE" THEN @ ELSE s]

(* The statuses from which a purchase can become PAID.                     *)
Payable(p) == status[p] \in Unpaid

(* CREATED, FAILED or EXPIRED -> PAID with its credits, its coupon use and *)
(* its invoice number; nothing when it is PAID or REFUNDED already.        *)
markPurchasePaid(p) ==
  IF Payable(p)
    THEN /\ status' = [status EXCEPT ![p] = "PAID"]
         /\ credited' = credited \cup {p}
         /\ redeemCoupon(p)
         /\ issueInvoiceNumber(p)
         /\ paymentStatus(p, "CAPTURED")
    ELSE UNCHANGED records

(* CREATED -> FAILED.  Only a failure to open the order gives the coupon   *)
(* use back: a failed attempt can be followed by another.                  *)
markPurchaseFailed(p, source) ==
  IF status[p] = "CREATED"
    THEN /\ status' = [status EXCEPT ![p] = "FAILED"]
         /\ IF source = "ORDER" THEN releaseCoupon(p, {"RESERVED"}) ELSE UNCHANGED coupon
         /\ paymentStatus(p, "FAILED")
         /\ UNCHANGED <<credited, invoice, seq>>
    ELSE UNCHANGED records

(* Mutant: an order with a failed attempt is no longer expired.            *)
expirePurchase_OnlyCreated(p) ==
  IF status[p] = "CREATED"
    THEN /\ status' = [status EXCEPT ![p] = "EXPIRED"]
         /\ releaseCoupon(p, {"RESERVED"})
         /\ UNCHANGED <<payment, credited, invoice, seq>>
    ELSE UNCHANGED records

(* CREATED or FAILED -> EXPIRED.                                           *)
expirePurchase(p) ==
  IF status[p] \in {"CREATED", "FAILED"}
    THEN /\ status' = [status EXCEPT ![p] = "EXPIRED"]
         /\ releaseCoupon(p, {"RESERVED"})
         /\ UNCHANGED <<payment, credited, invoice, seq>>
    ELSE UNCHANGED records

-------------------------------------------------------------------------------
(* createOrder                                                             *)

(* The purchase and its coupon use are stored together, or neither is.     *)
StoreOrder(p) ==
  /\ order[p] = "IDLE"
  /\ IF p \notin WithCoupon \/ CouponLeft(p)
       THEN /\ status' = [status EXCEPT ![p] = "CREATED"]
            /\ IF p \in WithCoupon THEN TakeUse(p, "RESERVED") ELSE UNCHANGED coupon
            /\ order' = [order EXCEPT ![p] = "STORED"]
       ELSE /\ order' = [order EXCEPT ![p] = "REFUSED"]
            /\ UNCHANGED <<status, coupon>>
  /\ UNCHANGED <<payment, credited, invoice, seq, gateway, events, claimed, handling,
                 recon, overdue, crashes>>

(* A 100% coupon: nothing to charge, the purchase completes now.           *)
CompleteFree(p) ==
  /\ order[p] = "STORED"
  /\ p \in Free
  /\ markPurchasePaid(p)
  /\ order' = [order EXCEPT ![p] = "ANSWERED"]
  /\ UNCHANGED <<gateway, events, claimed, handling, recon, overdue, crashes>>

OpenGatewayOrder(p) ==
  /\ order[p] = "STORED"
  /\ p \notin Free
  /\ gateway' = [gateway EXCEPT ![p] = "OPEN"]
  /\ order' = [order EXCEPT ![p] = "OPENED"]
  /\ UNCHANGED <<records, events, claimed, handling, recon, overdue, crashes>>

(* The gateway refuses, or its answer does not come.                       *)
GatewayRefusesOrder(p) ==
  /\ order[p] = "STORED"
  /\ p \notin Free
  /\ markPurchaseFailed(p, "ORDER")
  /\ order' = [order EXCEPT ![p] = "REFUSED"]
  /\ UNCHANGED <<gateway, events, claimed, handling, recon, overdue, crashes>>

StorePayment(p) ==
  /\ order[p] = "OPENED"
  /\ payment' = [payment EXCEPT ![p] = "CREATED"]
  /\ order' = [order EXCEPT ![p] = "ANSWERED"]
  /\ UNCHANGED <<status, credited, invoice, seq, coupon, gateway, events, claimed,
                 handling, recon, overdue, crashes>>

OrderDies(p) ==
  /\ order[p] \in {"STORED", "OPENED"}
  /\ crashes < MaxCrashes
  /\ crashes' = crashes + 1
  /\ order' = [order EXCEPT ![p] = "DEAD"]
  /\ UNCHANGED <<records, gateway, events, claimed, handling, recon, overdue>>

-------------------------------------------------------------------------------
(* The candidate and the gateway                                           *)

CheckoutOpen(p) == order[p] = "ANSWERED" /\ gateway[p] = "OPEN"

(* A failed attempt; the candidate may try again.                          *)
AttemptFails(p) ==
  /\ CheckoutOpen(p)
  /\ events' = events \cup {<<p, "payment.failed">>}
  /\ UNCHANGED <<records, order, gateway, claimed, handling, recon, overdue, crashes>>

Capture(p) ==
  /\ CheckoutOpen(p)
  /\ \E amount \in {"CAPTURED", "MISMATCH"} :
       gateway' = [gateway EXCEPT ![p] = amount]
  /\ events' = events \cup {<<p, kind>> : kind \in CaptureEvents}
  /\ UNCHANGED <<records, order, claimed, handling, recon, overdue, crashes>>

(* The checkout page's callback: the payment is fetched before it counts.  *)
verify(p) ==
  /\ payment[p] # "NONE"
  /\ \/ gateway[p] = "CAPTURED" /\ markPurchasePaid(p)
     \/ <<p, "payment.failed">> \in events \cup claimed /\ markPurchaseFailed(p, "VERIFY")
  /\ UNCHANGED outside

-------------------------------------------------------------------------------
(* Webhooks                                                                *)

(* The event is claimed first.                                             *)
ClaimEvent(e) ==
  /\ e \in events \ claimed
  /\ claimed' = claimed \cup {e}
  /\ handling' = handling \cup {e}
  /\ UNCHANGED <<records, order, gateway, events, recon, overdue, crashes>>

(* A delivery of an event seen before is answered, and not repeated, even  *)
(* while the first delivery is still being processed.                      *)
DuplicateEvent(e) ==
  /\ e \in events \cap claimed
  /\ events' = events \ {e}
  /\ UNCHANGED <<records, order, gateway, claimed, handling, recon, overdue, crashes>>

(* Mutant: the captured amount is not compared with the order's.           *)
processWebhook_AnyAmount(e) ==
  IF e[2] = "payment.failed" THEN markPurchaseFailed(e[1], "WEBHOOK") ELSE markPurchasePaid(e[1])

processWebhook(e) ==
  LET p == e[1] IN
  CASE payment[p] = "NONE" -> UNCHANGED records                     \* UNKNOWN_ORDER
    [] payment[p] # "NONE" /\ e[2] = "payment.failed" -> markPurchaseFailed(p, "WEBHOOK")
    [] payment[p] # "NONE" /\ e[2] # "payment.failed" /\ gateway[p] = "CAPTURED" -> markPurchasePaid(p)
    [] OTHER -> UNCHANGED records                                   \* AMOUNT_MISMATCH

ProcessEvent(e) ==
  /\ e \in handling
  /\ processWebhook(e)
  /\ handling' = handling \ {e}
  /\ events' = events \ {e}
  /\ UNCHANGED <<order, gateway, claimed, recon, overdue, crashes>>

(* An error releases the claim, so that the gateway's retry is processed.  *)
EventFails(e) ==
  /\ e \in handling
  /\ crashes < MaxCrashes
  /\ crashes' = crashes + 1
  /\ handling' = handling \ {e}
  /\ claimed' = claimed \ {e}
  /\ UNCHANGED <<records, order, gateway, events, recon, overdue>>

(* A crash does not.                                                       *)
EventDies(e) ==
  /\ e \in handling
  /\ crashes < MaxCrashes
  /\ crashes' = crashes + 1
  /\ handling' = handling \ {e}
  /\ UNCHANGED <<records, order, gateway, events, claimed, recon, overdue>>

-------------------------------------------------------------------------------
(* Reconciliation: by the sweep, or for an admin                           *)

(* Mutant: an order is expired without asking the gateway.                 *)
Outcome_NoLookup(p) ==
  IF p \in overdue THEN "EXPIRE" ELSE IF gateway[p] = "CAPTURED" THEN "PAY" ELSE "IDLE"

(* What the gateway's answer calls for.                                    *)
Outcome(p) ==
  CASE gateway[p] = "CAPTURED" -> "PAY"
    [] gateway[p] = "OPEN" /\ status[p] # "EXPIRED" /\ p \in overdue -> "EXPIRE"
    [] OTHER -> "IDLE"

(* reconcilePurchase reads the purchase and its payment and asks the       *)
(* gateway what was captured; without a payment it changes nothing.        *)
ReconcileAsk(p) ==
  /\ recon[p] = "IDLE"
  /\ status[p] \in Unpaid
  /\ payment[p] # "NONE"
  /\ recon' = [recon EXCEPT ![p] = Outcome(p)]
  /\ UNCHANGED <<records, order, gateway, events, claimed, handling, overdue, crashes>>

ReconcileAct(p) ==
  /\ \/ recon[p] = "PAY" /\ markPurchasePaid(p)
     \/ recon[p] = "EXPIRE" /\ expirePurchase(p)
  /\ recon' = [recon EXCEPT ![p] = "IDLE"]
  /\ UNCHANGED <<order, gateway, events, claimed, handling, overdue, crashes>>

ReconcileDies(p) ==
  /\ recon[p] # "IDLE"
  /\ crashes < MaxCrashes
  /\ crashes' = crashes + 1
  /\ recon' = [recon EXCEPT ![p] = "IDLE"]
  /\ UNCHANGED <<records, order, gateway, events, claimed, handling, overdue>>

(* A day passes over an order.                                             *)
GrowsOld(p) ==
  /\ payment[p] # "NONE"
  /\ p \notin overdue
  /\ overdue' = overdue \cup {p}
  /\ UNCHANGED <<records, order, gateway, events, claimed, handling, recon, crashes>>

(* The full refund of a paid purchase (markPurchaseRefunded with fully).   *)
FullyRefunded(p) ==
  /\ status[p] = "PAID"
  /\ payment[p] = "CAPTURED"
  /\ status' = [status EXCEPT ![p] = "REFUNDED"]
  /\ payment' = [payment EXCEPT ![p] = "REFUNDED"]
  /\ releaseCoupon(p, {"REDEEMED"})
  /\ UNCHANGED <<credited, invoice, seq, outside>>

Next ==
  \/ \E p \in Purchase :
       \/ StoreOrder(p) \/ CompleteFree(p) \/ OpenGatewayOrder(p)
       \/ GatewayRefusesOrder(p) \/ StorePayment(p) \/ OrderDies(p)
       \/ AttemptFails(p) \/ Capture(p) \/ verify(p)
       \/ ReconcileAsk(p) \/ ReconcileAct(p) \/ ReconcileDies(p)
       \/ GrowsOld(p) \/ FullyRefunded(p)
  \/ \E e \in Event :
       ClaimEvent(e) \/ DuplicateEvent(e) \/ ProcessEvent(e) \/ EventFails(e) \/ EventDies(e)

Spec == Init /\ [][Next]_vars

(* The hourly sweep looks at every unconfirmed purchase that has a         *)
(* payment, and a process that is not killed goes on.                      *)
Sweeping ==
  \A p \in Purchase :
    /\ WF_vars(ReconcileAsk(p))
    /\ WF_vars(ReconcileAct(p))
    /\ WF_vars(GrowsOld(p))

FairSpec == Spec /\ Sweeping

-------------------------------------------------------------------------------
(* Properties                                                              *)

(* Credits are issued exactly for the purchases that were paid, and only   *)
(* for money the gateway captured in full, or for an order with nothing to *)
(* pay, whoever reports the payment and however often.                     *)
PaidIsCredited ==
  \A p \in Purchase :
    /\ p \in credited <=> status[p] \in {"PAID", "REFUNDED"}
    /\ p \in credited => p \in Free \/ gateway[p] = "CAPTURED"

Holds(p) == redemption[p] \in {"RESERVED", "REDEEMED"}

(* The coupon's counter and each user's counter are the uses on record.    *)
CouponCounts ==
  /\ usedCount = Cardinality({p \in Purchase : Holds(p)})
  /\ \A u \in User : held[u] = Cardinality({p \in Purchase : Holds(p) /\ Owner[p] = u})

(* A coupon is used beyond its limits only by money already taken: an      *)
(* order that had expired, and given its use back, and was paid after all. *)
OverrunOnlyByLatePayment ==
  [][(usedCount' > usedCount /\ usedCount >= MaxUses)
       \/ (\E u \in User : held'[u] > held[u] /\ held[u] >= PerUserLimit)
       => \E p \in Purchase : status[p] = "EXPIRED" /\ status'[p] = "PAID"]_vars

(* Invoice numbers are given to the paid purchases, one each, without gaps. *)
InvoicesHaveNoGap ==
  /\ \A p \in Purchase : invoice[p] # 0 <=> status[p] \in {"PAID", "REFUNDED"}
  /\ {invoice[p] : p \in {q \in Purchase : invoice[q] # 0}} = 1..seq
  /\ \A p, q \in Purchase : invoice[p] = invoice[q] /\ invoice[p] # 0 => p = q

(* The sweep is deciding on an answer the gateway gave before it captured. *)
LookedTooEarly(p) == recon[p] = "EXPIRE"

(* A captured payment reaches the account although its webhooks are lost,  *)
(* the browser was closed and handlers die, as long as the order had not   *)
(* expired, and was not being expired, when it was captured.               *)
CapturedIsCredited ==
  \A p \in Purchase :
    gateway[p] = "CAPTURED" /\ status[p] \in {"CREATED", "FAILED"} /\ ~LookedTooEarly(p)
      ~> p \in credited

(* An order that is never paid gives its coupon use back: nobody's         *)
(* allowance is held by an abandoned checkout page.                        *)
UnpaidReleasesCoupon ==
  \A p \in Purchase :
    payment[p] # "NONE" /\ gateway[p] = "OPEN" /\ redemption[p] = "RESERVED"
      ~> redemption[p] # "RESERVED" \/ gateway[p] # "OPEN"
=============================================================================
