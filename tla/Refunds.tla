------------------------------- MODULE Refunds -------------------------------
(***************************************************************************)
(* The refunds of one paid purchase.                                       *)
(*                                                                         *)
(* An admin's request claims the payment, asks the gateway, records what   *)
(* it answered and, when the refund is processed at once, applies it.      *)
(* Webhooks and the reconciliation sweep finish what a request left open,  *)
(* and record refunds made in the gateway's own dashboard.  Each step is a *)
(* transaction or a single conditional update; the steps of several        *)
(* requests, webhooks and sweeps interleave.                               *)
(*                                                                         *)
(* The gateway is external: it never refunds more than was captured,       *)
(* settles a pending refund either way, and reports it by a webhook.       *)
(* Amounts are whole units.                                                *)
(***************************************************************************)
EXTENDS Integers, Sequences, FiniteSets, Functions

CONSTANTS
  Amount,       \* payments.amountMinor, captured
  Credits,      \* unused credits of the purchase's lot at the start
  Request,      \* admin requests
  MaxRefunds,   \* bound: refunds the gateway is asked for
  MaxRequests,  \* bound: claims an admin makes
  MaxFaults,    \* bound: how many things go wrong
  Faults        \* what may go wrong

FaultKind == {
  "CRASH",        \* a request dies before it asks, or after it recorded the answer
  "ANSWER_LOST",  \* the gateway accepts, and the request never hears of it
  "EVENT_LOST",   \* a webhook's handler dies after it claimed the event
  "OVERTAKEN",    \* a sweep's question to the gateway is overtaken by another refund
  "SLOW",         \* a request still waits when its claim has gone stale
  "DASHBOARD"}    \* somebody refunds in the gateway's dashboard

ASSUME RefundsAssumption ==
  /\ Amount \in Nat \ {0}
  /\ Credits \in Nat
  /\ MaxRefunds \in Nat
  /\ MaxRequests \in Nat
  /\ MaxFaults \in Nat
  /\ Faults \subseteq FaultKind

VARIABLES
  status,       \* purchases.status
  payment,      \* payments.status
  refundedMinor,\* payments.refundedMinor
  refunds,      \* payments.refunds, in the order they were pushed
  notes,        \* invoiceCounters.seq of the year's credit notes
  unused,       \* the lot's remaining credits
  revoked,      \* the refund ids for which revokeLotCredits has run
  coupon,       \* couponRedemptions.status of the purchase
  request,      \* what each admin request is doing
  remote,       \* the gateway's refunds
  events,       \* refund.processed and refund.failed webhooks under way
  recon,        \* what reconcilePurchase has read or decided
  faults

document == <<payment, refundedMinor, refunds>>
records == <<status, document, notes, unused, revoked, coupon>>
vars == <<records, request, remote, events, recon, faults>>

RefundId == 1..MaxRefunds
Remote == {"NONE", "PENDING", "PROCESSED", "FAILED"}
Step == {"IDLE", "PREVIEWED", "CLAIMED", "ANSWERED", "RECORDED"}

Entry ==
  [id : 0..MaxRefunds, amount : 1..Amount, withdraw : 0..Credits, note : Nat,
   status : {"requested", "pending", "processed", "failed"}]

TypeOK ==
  /\ status \in {"PAID", "REFUNDED"}
  /\ payment \in {"CAPTURED", "REFUND_REQUESTED", "REFUND_PENDING", "REFUNDED"}
  /\ refundedMinor \in Nat
  /\ refunds \in Seq(Entry)
  /\ notes \in Nat
  /\ unused \in 0..Credits
  /\ revoked \subseteq RefundId
  /\ coupon \in {"REDEEMED", "RELEASED"}
  /\ request \in [Request -> [step : Step, amount : 0..Amount, withdraw : 0..Credits,
                              key : Nat, id : 0..MaxRefunds, answer : Remote]]
  /\ remote \in [RefundId -> [status : Remote, amount : 0..Amount, key : Nat]]
  /\ events \subseteq (RefundId \X {"PROCESSED", "FAILED"})
  /\ recon \in [step : {"IDLE", "READ", "RELEASE", "COMPLETE"}, key : Nat, target : Nat,
                id : 0..MaxRefunds]
  /\ faults \subseteq Faults

Quiet == [step |-> "IDLE", amount |-> 0, withdraw |-> 0, key |-> 0, id |-> 0, answer |-> "NONE"]
NotReconciling == [step |-> "IDLE", key |-> 0, target |-> 0, id |-> 0]

Init ==
  /\ status = "PAID"
  /\ payment = "CAPTURED"
  /\ refundedMinor = 0
  /\ refunds = <<>>
  /\ notes = 0
  /\ unused = Credits
  /\ revoked = {}
  /\ coupon = "REDEEMED"
  /\ request = [a \in Request |-> Quiet]
  /\ remote = [r \in RefundId |-> [status |-> "NONE", amount |-> 0, key |-> 0]]
  /\ events = {}
  /\ recon = NotReconciling
  /\ faults = {}

-------------------------------------------------------------------------------
(* The updates of packages/db/src/purchases.ts.                            *)

(* The first entry that satisfies the test, 0 when there is none: find.    *)
First(keys) == IF keys = {} THEN 0 ELSE CHOOSE k \in keys : \A j \in keys : k <= j

Open(k) == refunds[k].status \in {"requested", "pending"}
WithId(r) == First({k \in DOMAIN refunds : refunds[k].id = r})
Unanswered == {k \in DOMAIN refunds : refunds[k].id = 0 /\ refunds[k].status = "requested"}

Lesser(a, b) == IF a <= b THEN a ELSE b

(* The condition of the update that claims a refund.                       *)
Claimable(amount) == payment = "CAPTURED" /\ refundedMinor + amount <= Amount

claimRefund(amount, withdraw) ==
  /\ payment' = "REFUND_REQUESTED"
  /\ refunds' = Append(refunds, [id |-> 0, amount |-> amount, withdraw |-> withdraw,
                                 note |-> 0, status |-> "requested"])
  /\ UNCHANGED <<status, refundedMinor, notes, unused, revoked, coupon>>

IsClaim(k) == payment = "REFUND_REQUESTED" /\ refunds[k].status = "requested"

(* Mutant: the claim is dropped, the payment stays locked.                 *)
releaseRefundClaim_KeepsStatus(k) ==
  IF IsClaim(k)
    THEN /\ refunds' = [refunds EXCEPT ![k].status = "failed"]
         /\ UNCHANGED <<status, payment, refundedMinor, notes, unused, revoked, coupon>>
    ELSE UNCHANGED records

releaseRefundClaim(k) ==
  IF IsClaim(k)
    THEN /\ payment' = "CAPTURED"
         /\ refunds' = [refunds EXCEPT ![k].status = "failed"]
         /\ UNCHANGED <<status, refundedMinor, notes, unused, revoked, coupon>>
    ELSE UNCHANGED records

(* When the claim has gone meanwhile, only the gateway's id is kept.       *)
markRefundPending(k, r) ==
  /\ IF IsClaim(k)
       THEN /\ payment' = "REFUND_PENDING"
            /\ refunds' = [refunds EXCEPT ![k].id = r, ![k].status = "pending"]
       ELSE /\ refunds' = [refunds EXCEPT ![k].id = r]
            /\ UNCHANGED payment
  /\ UNCHANGED <<status, refundedMinor, notes, unused, revoked, coupon>>

(* Mutant: a refund is looked up by its gateway id alone.                  *)
MatchingEntry_ById(r, amount) == WithId(r)

(* Our request whose answer was lost is the gateway's refund, if it is for *)
(* the same amount (0: the caller does not say).                           *)
MatchingEntry(r, amount) ==
  IF WithId(r) # 0
    THEN WithId(r)
    ELSE First({k \in Unanswered : amount \in {0, refunds[k].amount}})

Minor(r, amount) == IF amount = 0 THEN Amount - refundedMinor ELSE amount

(* Where refund r is applied: its entry, or a new one for a refund nobody  *)
(* asked us for.                                                           *)
WithEntry(r, amount) ==
  IF MatchingEntry(r, amount) # 0 THEN refunds
  ELSE Append(refunds, [id |-> r, amount |-> Minor(r, amount), withdraw |-> 0,
                        note |-> 0, status |-> "pending"])
EntryOf(r, amount) ==
  IF MatchingEntry(r, amount) # 0 THEN MatchingEntry(r, amount) ELSE Len(refunds) + 1

(* Mutant: a refund that has been applied is applied again.                *)
Applies_Again(r, amount) ==
  /\ status = "PAID"
  /\ MatchingEntry(r, amount) # 0 \/ Minor(r, amount) > 0

Applies(r, amount) ==
  /\ status = "PAID"
  /\ IF MatchingEntry(r, amount) = 0
       THEN Minor(r, amount) > 0
       ELSE refunds[MatchingEntry(r, amount)].status # "processed"

(* The status the payment returns to when no refund is open any more.      *)
Reopened(s) == IF s \in {"REFUND_PENDING", "REFUND_REQUESTED"} THEN "CAPTURED" ELSE s

AfterRefund(fully, after) ==
  IF fully THEN "REFUNDED"
  ELSE IF \E k \in DOMAIN after : after[k].status \in {"requested", "pending"} THEN payment
  ELSE Reopened(payment)

(* Applies a refund the gateway has processed: the amount, a credit note   *)
(* number, the credits to withdraw (all that are left when everything is   *)
(* refunded), the coupon use.                                              *)
markPurchaseRefunded(r, amount) ==
  IF ~Applies(r, amount) THEN UNCHANGED records
  ELSE LET k == EntryOf(r, amount)
           entry == WithEntry(r, amount)[k]
           total == refundedMinor + entry.amount
           fully == total >= Amount
           taken == IF r \in revoked THEN 0
                    ELSE IF fully THEN unused ELSE Lesser(unused, entry.withdraw)
           after == [WithEntry(r, amount) EXCEPT
                       ![k] = [@ EXCEPT !.id = r, !.status = "processed", !.note = notes + 1]]
       IN /\ refunds' = after
          /\ refundedMinor' = total
          /\ payment' = AfterRefund(fully, after)
          /\ notes' = notes + 1
          /\ unused' = unused - taken
          /\ revoked' = IF fully \/ entry.withdraw > 0 THEN revoked \cup {r} ELSE revoked
          /\ status' = IF fully THEN "REFUNDED" ELSE status
          /\ coupon' = IF fully THEN "RELEASED" ELSE coupon

(* The gateway reports that refund r failed.                               *)
markRefundFailed(r) ==
  LET k == IF WithId(r) # 0 THEN WithId(r) ELSE First(Unanswered) IN
  IF k # 0 /\ ~Open(k) THEN UNCHANGED records
  ELSE LET after == IF k = 0 THEN refunds
                    ELSE [refunds EXCEPT ![k].id = r, ![k].status = "failed"]
       IN /\ refunds' = after
          /\ payment' = IF \E j \in DOMAIN after : after[j].status \in {"requested", "pending"}
                          THEN payment ELSE Reopened(payment)
          /\ UNCHANGED <<status, refundedMinor, notes, unused, revoked, coupon>>

-------------------------------------------------------------------------------
(* The gateway                                                             *)

IsProcessed(r) == remote[r].status = "PROCESSED"

Total(amount, S) == FoldFunctionOnSet(+, 0, amount, S)

RemoteTotal(statuses) ==
  Total([r \in RefundId |-> remote[r].amount], {r \in RefundId : remote[r].status \in statuses})

NextId == First({r \in RefundId : remote[r].status = "NONE"})

(* What a settled refund has the gateway report.                           *)
Reports(r, s) == IF s = "PENDING" THEN {} ELSE {<<r, s>>}

Accepts(amount, key, s) ==
  /\ NextId # 0
  /\ RemoteTotal({"PENDING", "PROCESSED"}) + amount <= Amount
  /\ remote' = [remote EXCEPT ![NextId] = [status |-> s, amount |-> amount, key |-> key]]
  /\ events' = events \cup Reports(NextId, s)

Settle(r) ==
  /\ remote[r].status = "PENDING"
  /\ \E s \in {"PROCESSED", "FAILED"} :
       /\ remote' = [remote EXCEPT ![r].status = s]
       /\ events' = events \cup Reports(r, s)
  /\ UNCHANGED <<records, request, recon, faults>>

Fault(kind) ==
  /\ kind \in Faults \ faults
  /\ Cardinality(faults) < MaxFaults
  /\ faults' = faults \cup {kind}

(* A refund made in the gateway's dashboard.                               *)
Dashboard ==
  /\ Fault("DASHBOARD")
  /\ \E amount \in 1..Amount, s \in {"PENDING", "PROCESSED"} : Accepts(amount, 0, s)
  /\ UNCHANGED <<records, request, recon>>

-------------------------------------------------------------------------------
(* payments.service.ts: refund                                             *)

(* Reads the purchase, the payment and the lot; what it decides is         *)
(* acted on later.                                                         *)
Preview(a) ==
  /\ request[a].step = "IDLE"
  /\ Len(refunds) < MaxRequests
  /\ status = "PAID" /\ payment = "CAPTURED" /\ refundedMinor < Amount
  /\ \E amount \in 1..(Amount - refundedMinor) : \E withdraw \in 0..unused :
       /\ amount = Amount - refundedMinor => withdraw = unused
       /\ request' = [request EXCEPT ![a].step = "PREVIEWED", ![a].amount = amount,
                                     ![a].withdraw = withdraw]
  /\ UNCHANGED <<records, remote, events, recon, faults>>

Claims(a) ==
  /\ request[a].step = "PREVIEWED"
  /\ IF Claimable(request[a].amount)
       THEN /\ claimRefund(request[a].amount, request[a].withdraw)
            /\ request' = [request EXCEPT ![a].step = "CLAIMED", ![a].key = Len(refunds) + 1]
       ELSE request' = [request EXCEPT ![a] = Quiet] /\ UNCHANGED records
  /\ UNCHANGED <<remote, events, recon>>

Claim(a) == recon.step = "IDLE" /\ Claims(a) /\ UNCHANGED faults

ClaimOvertakes(a) == recon.step # "IDLE" /\ Claims(a) /\ Fault("OVERTAKEN")

Ask(a) ==
  /\ request[a].step = "CLAIMED"
  /\ \E s \in {"PENDING", "PROCESSED", "FAILED"} :
       /\ Accepts(request[a].amount, request[a].key, s)
       /\ request' = [request EXCEPT ![a].step = "ANSWERED", ![a].id = NextId, ![a].answer = s]
  /\ UNCHANGED <<records, recon, faults>>

(* The gateway refuses, or does not receive, the request.                  *)
AskRefused(a) ==
  /\ request[a].step = "CLAIMED"
  /\ releaseRefundClaim(request[a].key)
  /\ request' = [request EXCEPT ![a] = Quiet]
  /\ UNCHANGED <<remote, events, recon, faults>>

(* The call of the gateway fails although the gateway has the request.     *)
AnswerLost(a) ==
  /\ request[a].step = "ANSWERED"
  /\ Fault("ANSWER_LOST")
  /\ releaseRefundClaim(request[a].key)
  /\ request' = [request EXCEPT ![a] = Quiet]
  /\ UNCHANGED <<remote, events, recon>>

RecordAnswer(a) ==
  /\ request[a].step = "ANSWERED"
  /\ markRefundPending(request[a].key, request[a].id)
  /\ request' = [request EXCEPT ![a].step = "RECORDED"]
  /\ UNCHANGED <<remote, events, recon, faults>>

Conclude(a) ==
  /\ request[a].step = "RECORDED"
  /\ CASE request[a].answer = "PROCESSED" -> markPurchaseRefunded(request[a].id, 0)
       [] request[a].answer = "FAILED"    -> markRefundFailed(request[a].id)
       [] OTHER                           -> UNCHANGED records
  /\ request' = [request EXCEPT ![a] = Quiet]
  /\ UNCHANGED <<remote, events, recon, faults>>

RequestDies(a) ==
  /\ \/ request[a].step \in {"CLAIMED", "RECORDED"} /\ Fault("CRASH")
     \/ request[a].step = "ANSWERED" /\ Fault("ANSWER_LOST")
  /\ request' = [request EXCEPT ![a] = Quiet]
  /\ UNCHANGED <<records, remote, events, recon>>

-------------------------------------------------------------------------------
(* Webhooks.  The claim of the event makes each one processed once; a      *)
(* crash after the claim loses it.                                         *)

RefundEvent(e) ==
  /\ e \in events
  /\ IF e[2] = "PROCESSED"
       THEN markPurchaseRefunded(e[1], remote[e[1]].amount)
       ELSE markRefundFailed(e[1])
  /\ events' = events \ {e}
  /\ UNCHANGED <<request, remote, recon, faults>>

EventLost(e) ==
  /\ e \in events
  /\ Fault("EVENT_LOST")
  /\ events' = events \ {e}
  /\ UNCHANGED <<records, request, remote, recon>>

-------------------------------------------------------------------------------
(* reconcilePurchase of a paid purchase                                    *)

(* Mutant: only claims are asked about, never pending refunds.             *)
FirstOpen_Claims == First(Unanswered)

FirstOpen == First({k \in DOMAIN refunds : Open(k)})

(* Mutant: a claim is taken over however young it is.                      *)
Stale_AtOnce(k) == TRUE

(* A claim is left alone until it is stale, which it becomes while its     *)
(* request is still running only if that is slow.                          *)
Stale(k) == \A a \in Request : ~(request[a].key = k /\ request[a].step # "IDLE")

Reads ==
  /\ recon.step = "IDLE"
  /\ status = "PAID"
  /\ FirstOpen # 0
  /\ recon' = [step |-> "READ", key |-> FirstOpen,
               target |-> refundedMinor + refunds[FirstOpen].amount,
               id |-> refunds[FirstOpen].id]
  /\ UNCHANGED <<records, request, remote, events>>

ReconcileRead ==
  /\ Reads
  /\ refunds[FirstOpen].status = "requested" => Stale(FirstOpen)
  /\ UNCHANGED faults

ReconcileEarly ==
  /\ Reads
  /\ refunds[FirstOpen].status = "requested" /\ ~Stale(FirstOpen)
  /\ Fault("SLOW")

(* What the gateway reports refunded says whether the refund is done.      *)
ReconcileAsk ==
  /\ recon.step = "READ"
  /\ LET done == RemoteTotal({"PROCESSED"}) >= recon.target IN
     recon' = CASE recon.id = 0 /\ ~done -> [recon EXCEPT !.step = "RELEASE"]
                [] recon.id # 0 /\ done  -> [recon EXCEPT !.step = "COMPLETE"]
                [] OTHER                 -> NotReconciling
  /\ UNCHANGED <<records, request, remote, events, faults>>

ReconcileAct ==
  /\ \/ recon.step = "RELEASE" /\ releaseRefundClaim(recon.key)
     \/ recon.step = "COMPLETE" /\ markPurchaseRefunded(recon.id, 0)
  /\ recon' = NotReconciling
  /\ UNCHANGED <<request, remote, events, faults>>

(* The candidate spends a credit of the purchase.                          *)
UseCredit ==
  /\ unused > 0
  /\ unused' = unused - 1
  /\ UNCHANGED <<status, document, notes, revoked, coupon, request, remote, events, recon, faults>>

Next ==
  \/ \E a \in Request :
       \/ Preview(a) \/ Claim(a) \/ ClaimOvertakes(a) \/ Ask(a) \/ AskRefused(a)
       \/ AnswerLost(a) \/ RecordAnswer(a) \/ Conclude(a) \/ RequestDies(a)
  \/ \E r \in RefundId : Settle(r)
  \/ \E e \in RefundId \X {"PROCESSED", "FAILED"} : RefundEvent(e) \/ EventLost(e)
  \/ Dashboard \/ ReconcileRead \/ ReconcileEarly \/ ReconcileAsk \/ ReconcileAct \/ UseCredit

Spec == Init /\ [][Next]_vars

Fairness ==
  /\ \A a \in Request :
       WF_vars(Claim(a)) /\ WF_vars(Ask(a) \/ AskRefused(a))
         /\ WF_vars(RecordAnswer(a)) /\ WF_vars(Conclude(a))
  /\ \A r \in RefundId : WF_vars(Settle(r))
  /\ \A e \in RefundId \X {"PROCESSED", "FAILED"} : WF_vars(RefundEvent(e))
  /\ WF_vars(ReconcileRead) /\ WF_vars(ReconcileAsk) /\ WF_vars(ReconcileAct)

FairSpec == Spec /\ Fairness

-------------------------------------------------------------------------------
(* Properties                                                              *)

Processed == {k \in DOMAIN refunds : refunds[k].status = "processed"}

(* Credit notes are numbered without gaps, one for each processed refund.  *)
CreditNotesHaveNoGap ==
  /\ {refunds[k].note : k \in Processed} = 1..notes
  /\ \A j, k \in Processed : refunds[j].note = refunds[k].note => j = k

(* Nothing but a process that died before it asked, after it recorded the  *)
(* answer, or in a webhook.                                                *)
Ordinary == faults \subseteq {"CRASH", "EVENT_LOST"}

(* What is recorded as refunded is the sum of the processed entries, each  *)
(* with its credit note, and the purchase is REFUNDED, with its coupon use *)
(* given back, exactly when that is everything: in any order of webhooks,  *)
(* answers and sweeps, and whatever goes wrong.  No credit is then left,   *)
(* unless a refund was applied twice: credits are withdrawn once for each  *)
(* id of the gateway.                                                      *)
BooksBalance ==
  /\ refundedMinor = Total([k \in DOMAIN refunds |-> refunds[k].amount], Processed)
  /\ status = "REFUNDED" <=> refundedMinor >= Amount
  /\ payment = "REFUNDED" <=> status = "REFUNDED"
  /\ coupon = "RELEASED" <=> status = "REFUNDED"
  /\ status = "REFUNDED" /\ Ordinary => unused = 0
  /\ CreditNotesHaveNoGap

(* "once per gateway refund id" (purchases.ts:578): each processed entry   *)
(* is a refund of its own that the gateway has processed, for its amount,  *)
(* and they never exceed the payment.                                      *)
AppliedOnce ==
  Ordinary =>
    /\ \A j, k \in Processed : refunds[j].id = refunds[k].id => j = k
    /\ \A k \in Processed :
         LET r == refunds[k].id IN
         r # 0 /\ IsProcessed(r) /\ remote[r].amount = refunds[k].amount
    /\ refundedMinor <= Amount

(* A claim is released only if the gateway refused, or never received, the *)
(* request (purchases.ts:513, 774): while the gateway has it, no other     *)
(* refund is asked for.                                                    *)
ReleasedWasNeverAsked ==
  Ordinary =>
    \A k \in DOMAIN refunds :
      refunds[k].status = "failed"
        => \A r \in RefundId : remote[r].key = k => remote[r].status = "FAILED"

(* The gateway refused a pending refund, and its report was lost: nothing  *)
(* else in the code finds out.                                             *)
FailureUnheard ==
  \E k \in DOMAIN refunds :
    /\ refunds[k].status = "pending"
    /\ remote[refunds[k].id].status = "FAILED"
    /\ <<refunds[k].id, "FAILED">> \notin events

(* A refund that is under way comes to an end, whoever dies on the way.    *)
RefundSettles ==
  payment \in {"REFUND_REQUESTED", "REFUND_PENDING"}
    ~> payment \in {"CAPTURED", "REFUNDED"} \/ FailureUnheard

(* A refund the gateway has processed is recorded.                         *)
ProcessedIsRecorded ==
  \A r \in RefundId :
    IsProcessed(r) ~> (\E k \in Processed : refunds[k].id = r) \/ ~Ordinary
===============================================================================
