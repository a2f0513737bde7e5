----------------------------- MODULE CreditLedger -----------------------------
(***************************************************************************)
(* One user's credit account and ledger under concurrent transactions.     *)
(*                                                                         *)
(* Any number of API and worker processes run the operations of Credits,   *)
(* each in a MongoDB transaction: a transaction reads a snapshot, takes    *)
(* the account document's write lock with loadAccount, and commits its     *)
(* writes atomically.  Writing a document that another transaction holds,  *)
(* or that changed since the snapshot, is a WriteConflict, on which        *)
(* withTransaction runs the whole callback again.  The database itself is  *)
(* external; what the code relies on is modelled: snapshot reads, first    *)
(* writer wins, $inc applied to the stored document.                       *)
(*                                                                         *)
(* Versions are compared only for equality with a version read before, so  *)
(* the model keeps, for each open transaction, whether the account has     *)
(* changed since its snapshot (fresh).                                     *)
(***************************************************************************)
EXTENDS Credits

CONSTANTS
  Process,      \* API replicas and workers
  Request,      \* the operations that may be asked for, each any number of times
  LastDay       \* bound: dates run from 0 to LastDay

VARIABLES
  account,      \* the creditAccounts document
  ledger,       \* the creditLedger collection
  tx,           \* tx[p]: the transaction process p is running
  today

vars == <<account, ledger, tx, today>>

(* A request is what a caller of credits.ts asks for.  Fields an operation *)
(* does not take have a fixed value.                                       *)
Operation == {"GRANT", "RESERVE", "SETTLE", "REVOKE", "DEDUCT"}

RequestType ==
  [op : Operation, session : Session, lot : Lot, key : Withdrawal,
   outcome : {"CONSUME", "REFUND"}, n : Nat]

ASSUME LedgerAssumption ==
  /\ LastDay \in Nat
  /\ LastDay < Never
  /\ Request \subseteq RequestType
  /\ Request # {}

Phase == {"IDLE", "READ", "LOCKED"}

Transaction ==
  [phase : Phase, req : Request, now : 0..LastDay, fresh : BOOLEAN,
   account : Account, ledger : SUBSET LedgerEntry]

TypeOK ==
  /\ account \in Account
  /\ ledger \subseteq LedgerEntry
  /\ tx \in [Process -> Transaction]
  /\ today \in 0..LastDay

NoTransaction ==
  [phase |-> "IDLE", req |-> CHOOSE r \in Request : TRUE, now |-> 0,
   fresh |-> TRUE, account |-> EmptyAccount, ledger |-> {}]

Init ==
  /\ account = EmptyAccount
  /\ ledger = {}
  /\ today = 0
  /\ tx = [p \in Process |-> NoTransaction]

-------------------------------------------------------------------------------

(* A transaction begins (or begins again) with its first read.             *)
Snapshot(req, now) ==
  [phase |-> "READ", req |-> req, now |-> now, fresh |-> TRUE,
   account |-> account, ledger |-> ledger]

Begin(p) ==
  /\ tx[p].phase = "IDLE"
  /\ \E req \in Request : tx' = [tx EXCEPT ![p] = Snapshot(req, today)]
  /\ UNCHANGED <<account, ledger, today>>

(* A grant or a reservation whose key is found returns before it writes.   *)
FoundFirst(t) ==
  \/ t.req.op = "GRANT" /\ Happened(t.ledger, GrantKey(t.req.lot))
  \/ t.req.op = "RESERVE" /\ Happened(t.ledger, ReserveKey(t.req.session))

ReturnFound(p) ==
  /\ tx[p].phase = "READ"
  /\ FoundFirst(tx[p])
  /\ tx' = [tx EXCEPT ![p] = NoTransaction]
  /\ UNCHANGED <<account, ledger, today>>

(* The account is unchanged since the snapshot and nobody else writes it.  *)
CanLock(p) ==
  /\ tx[p].fresh
  /\ \A q \in Process : tx[q].phase # "LOCKED"

(* loadAccount: its $inc takes the account's write lock.                   *)
loadAccount(p) ==
  /\ tx[p].phase = "READ"
  /\ ~FoundFirst(tx[p])
  /\ CanLock(p)
  /\ tx' = [tx EXCEPT ![p].phase = "LOCKED"]
  /\ UNCHANGED <<account, ledger, today>>

(* A WriteConflict: withTransaction runs the callback again.               *)
Conflict(p) ==
  /\ tx[p].phase = "READ"
  /\ ~FoundFirst(tx[p])
  /\ ~CanLock(p)
  /\ tx' = [tx EXCEPT ![p] = Snapshot(tx[p].req, tx[p].now)]
  /\ UNCHANGED <<account, ledger, today>>

(* The writes the operation decides on from what it read.                  *)
Decision(t) ==
  CASE t.req.op = "GRANT"   -> grantCredits(t.ledger, t.req.lot)
    [] t.req.op = "RESERVE" -> reserveCredit(t.account, t.ledger, t.req.session, t.now)
    [] t.req.op = "SETTLE"  -> settleCredit(t.ledger, t.req.session, t.req.outcome)
    [] t.req.op = "REVOKE"  -> revokeLotCredits(t.account, t.ledger, t.req.lot,
                                                t.req.key, t.req.n)
    [] t.req.op = "DEDUCT"  -> deductCredits(t.account, t.ledger, t.req.n,
                                             t.req.key, t.now)

(* Others that read before this commit no longer hold the latest account.  *)
Committed(p) ==
  [q \in Process |->
     IF q = p THEN NoTransaction
     ELSE [tx[q] EXCEPT !.fresh = tx[q].fresh /\ tx[q].phase = "IDLE"]]

Commit(p) ==
  /\ tx[p].phase = "LOCKED"
  /\ \E w \in Decision(tx[p]) :
       /\ account' = Applied(account, w)
       /\ ledger' = ledger \cup w.entries
  /\ tx' = Committed(p)
  /\ UNCHANGED today

(* InsufficientCreditsError, an error in the caller's transaction, or the  *)
(* death of the process: nothing the transaction wrote is kept.            *)
Abort(p) ==
  /\ tx[p].phase # "IDLE"
  /\ tx' = [tx EXCEPT ![p] = NoTransaction]
  /\ UNCHANGED <<account, ledger, today>>

NextDay ==
  /\ today < LastDay
  /\ today' = today + 1
  /\ UNCHANGED <<account, ledger, tx>>

Next ==
  \/ \E p \in Process :
       \/ Begin(p) \/ ReturnFound(p) \/ loadAccount(p)
       \/ Conflict(p) \/ Commit(p) \/ Abort(p)
  \/ NextDay

Spec == Init /\ [][Next]_vars

-------------------------------------------------------------------------------
(* Properties.                                                             *)

Reserved == {s \in Session : Happened(ledger, ReserveKey(s))}

Settled == {s \in Session : Happened(ledger, SettleKey(s))}

(* The account projection is always what recomputeCreditAccount would      *)
(* rebuild from the ledger, whatever transactions ran concurrently; its    *)
(* balance is exactly the credits left in the lots, and what lotUsage      *)
(* reports as used of a lot the number of interviews that drew from it and *)
(* were not refunded.                                                      *)
Projection ==
  /\ account = recomputeCreditAccount(ledger)
  /\ account.balance = Total(account.remaining, Lot)
  /\ \A l \in Lot :
       lotUsed(account, ledger, l) =
         Cardinality({s \in Session :
           /\ \E e \in findEntry(ledger, ReserveKey(s)) : e.lot = l
           /\ \A e \in findEntry(ledger, SettleKey(s)) : e.type # "INTERVIEW_REFUND"})

(* No lot and no hold ever goes below zero: two transactions that both saw *)
(* a lot's last credit never both take it.                                 *)
NoOverdraft ==
  /\ account.reserved >= 0
  /\ \A l \in Lot : account.remaining[l] >= 0

(* Each business event is recorded at most once, and a settlement always   *)
(* concerns the lot its reservation drew from.                             *)
LedgerConsistent ==
  /\ \A e, f \in ledger : e.key = f.key => e = f
  /\ \A s \in Settled : \A e \in findEntry(ledger, SettleKey(s)) :
       \E r \in findEntry(ledger, ReserveKey(s)) : r.lot = e.lot

(* The credits counted as reserved are those of the interviews that have   *)
(* reserved and not yet settled.                                           *)
HeldByInterviews == account.reserved = Cardinality(Reserved \ Settled)

(* A reservation draws from a lot that is, in the account as it is when    *)
(* the reservation commits, usable and the earliest to expire.             *)
EarliestExpiringFirst ==
  [][\A e \in ledger' \ ledger : e.type = "INTERVIEW_RESERVE" =>
       \E p \in Process :
         /\ tx[p].phase = "LOCKED"
         /\ tx[p].req.op = "RESERVE"
         /\ e.key = ReserveKey(tx[p].req.session)
         /\ e.lot \in pickLot(account, tx[p].now)]_vars

(* The ledger implements the promise of CreditHold: what has become of an  *)
(* interview's credit, read off the ledger.                                *)
LedgerHold ==
  [s \in Session |->
     IF Happened(ledger, SettleKey(s))
     THEN IF \E e \in findEntry(ledger, SettleKey(s)) : e.type = "INTERVIEW_CONSUME"
          THEN "CONSUMED" ELSE "REFUNDED"
     ELSE IF Happened(ledger, ReserveKey(s)) THEN "RESERVED" ELSE "NONE"]

Promise == INSTANCE CreditHold WITH hold <- LedgerHold

(* Reserved at most once, settled at most once, only after a reservation.  *)
PromiseKept == Promise!HSpec
===============================================================================
