-------------------------------- MODULE Credits -------------------------------
(***************************************************************************)
(* The credit operations of packages/db/src/credits.ts as pure operators   *)
(* on one user's account and ledger.                                       *)
(*                                                                         *)
(* Every operation decides from what its transaction has read (account,    *)
(* ledger) and then issues writes: new ledger entries, and $inc updates of *)
(* the account projection.  The decision and the writes are kept apart     *)
(* because they are apart in the code: the decision uses the snapshot of   *)
(* the transaction, the $inc applies to the stored document.               *)
(*                                                                         *)
(* A lot is named by the idempotency key of the grant that creates it (one *)
(* grant creates exactly one lot).  Its expiry date never changes; a lot   *)
(* without one expires at Never, which is later than any date.             *)
(***************************************************************************)
EXTENDS Integers, FiniteSets, FiniteSetsExt

CONSTANTS
  Session,     \* interviews of the user
  Lot,         \* grants: the welcome credit, purchases, admin grants
  Withdrawal,  \* idempotency keys of withdrawals and admin deductions
  Granted,     \* Granted[l]: credits in lot l
  Expires,     \* Expires[l]: the date lot l expires
  Never        \* the date of a lot without expiry

ASSUME CreditsAssumption ==
  /\ Granted \in [Lot -> Nat \ {0}]
  /\ Never \in Nat
  /\ Expires \in [Lot -> 0..Never]
  /\ IsFiniteSet(Session)
  /\ IsFiniteSet(Lot)

(* Idempotency keys.  A deduction writes one entry per lot: the first one  *)
(* carries the key itself, the others carry the key and the lot.           *)
GrantKey(l)        == <<"grant", l>>
ReserveKey(s)      == <<"reserve", s>>
SettleKey(s)       == <<"settle", s>>
WithdrawKey(k)     == <<"withdraw", k>>
WithdrawLotKey(k, l) == <<"withdraw", k, l>>

Key == (({"grant"} \X Lot) \cup ({"reserve", "settle"} \X Session))
         \cup (({"withdraw"} \X Withdrawal) \cup ({"withdraw"} \X Withdrawal \X Lot))

EntryType == {"GRANT", "INTERVIEW_RESERVE", "INTERVIEW_CONSUME",
              "INTERVIEW_REFUND", "ADMIN_ADJUSTMENT"}

Entry(key, type, amount, reservedDelta, lot) ==
  [key |-> key, type |-> type, amount |-> amount,
   reservedDelta |-> reservedDelta, lot |-> lot]

LedgerEntry ==
  [key : Key, type : EntryType, amount : Int, reservedDelta : Int, lot : Lot]

Account == [balance : Int, reserved : Int, remaining : [Lot -> Int]]

NoLots == [l \in Lot |-> 0]

EmptyAccount == [balance |-> 0, reserved |-> 0, remaining |-> NoLots]

findEntry(ledger, key) == {e \in ledger : e.key = key}

Happened(ledger, key) == findEntry(ledger, key) # {}

Total(amounts, S) == MapThenSumSet(LAMBDA x : amounts[x], S)

-------------------------------------------------------------------------------
(* Writes of a transaction: entries to insert and increments to apply.     *)

Writes(entries, balance, reserved, lots) ==
  [entries |-> entries, balance |-> balance, reserved |-> reserved,
   lots |-> lots]

NoWrites == Writes({}, 0, 0, NoLots)

Applied(account, w) ==
  [balance   |-> account.balance + w.balance,
   reserved  |-> account.reserved + w.reserved,
   remaining |-> [l \in Lot |-> account.remaining[l] + w.lots[l]]]

Only(lot, n) == [l \in Lot |-> IF l = lot THEN n ELSE 0]

usable(account, l, now) == account.remaining[l] > 0 /\ Expires[l] > now

usableLots(account, now) == {l \in Lot : usable(account, l, now)}

(* The earliest-expiring usable lots: any of them may come first.          *)
pickLot(account, now) ==
  {l \in usableLots(account, now) :
     \A m \in usableLots(account, now) : Expires[l] <= Expires[m]}

-------------------------------------------------------------------------------
(* Each operation is the set of writes it may issue; the empty set is a    *)
(* refusal (InsufficientCreditsError), NoWrites an event already recorded. *)

grantCredits(ledger, l) ==
  IF Happened(ledger, GrantKey(l)) THEN {NoWrites}
  ELSE {Writes({Entry(GrantKey(l), "GRANT", Granted[l], 0, l)},
               Granted[l], 0, Only(l, Granted[l]))}

(* Mutant: the lots are not sorted by expiry.                              *)
reserveCredit_AnyLot(account, ledger, s, now) ==
  IF Happened(ledger, ReserveKey(s)) THEN {NoWrites}
  ELSE {Writes({Entry(ReserveKey(s), "INTERVIEW_RESERVE", -1, 1, l)},
               -1, 1, Only(l, -1)) : l \in usableLots(account, now)}

reserveCredit(account, ledger, s, now) ==
  IF Happened(ledger, ReserveKey(s)) THEN {NoWrites}
  ELSE {Writes({Entry(ReserveKey(s), "INTERVIEW_RESERVE", -1, 1, l)},
               -1, 1, Only(l, -1)) : l \in pickLot(account, now)}

SettleWrites(s, outcome, lot) ==
  IF outcome = "REFUND"
  THEN Writes({Entry(SettleKey(s), "INTERVIEW_REFUND", 1, -1, lot)},
              1, -1, Only(lot, 1))
  ELSE Writes({Entry(SettleKey(s), "INTERVIEW_CONSUME", 0, -1, lot)},
              0, -1, NoLots)

(* Mutants: settled again; settled without a reservation; the refund does  *)
(* not go back to its lot.                                                 *)
settleCredit_Again(ledger, s, outcome) ==
  IF ~Happened(ledger, ReserveKey(s)) THEN {NoWrites}
  ELSE {SettleWrites(s, outcome, r.lot) : r \in findEntry(ledger, ReserveKey(s))}

settleCredit_Unreserved(ledger, s, outcome) ==
  IF Happened(ledger, SettleKey(s)) THEN {NoWrites}
  ELSE {SettleWrites(s, outcome, l) : l \in Lot}

settleCredit_NoLot(ledger, s, outcome) ==
  IF Happened(ledger, SettleKey(s)) \/ ~Happened(ledger, ReserveKey(s))
  THEN {NoWrites}
  ELSE {[SettleWrites(s, outcome, r.lot) EXCEPT !.lots = NoLots]
          : r \in findEntry(ledger, ReserveKey(s))}

settleCredit(ledger, s, outcome) ==
  IF Happened(ledger, SettleKey(s)) \/ ~Happened(ledger, ReserveKey(s))
  THEN {NoWrites}
  ELSE {SettleWrites(s, outcome, r.lot) : r \in findEntry(ledger, ReserveKey(s))}

AtMost(n, bound) == IF n <= bound THEN n ELSE bound

(* Withdraws what is left of a lot, at most max credits of it.             *)
revokeLotCredits(account, ledger, l, k, max) ==
  IF Happened(ledger, WithdrawKey(k)) THEN {NoWrites}
  ELSE LET n == AtMost(account.remaining[l], max)
       IN {Writes({Entry(WithdrawKey(k), "ADMIN_ADJUSTMENT", -n, 0, l)},
                  -n, 0, Only(l, -n))}

(* How a deduction of n may be taken from the usable lots: earlier lots    *)
(* are taken whole before a later one is touched, and at most one lot is   *)
(* taken in part.                                                          *)
Takings(account, n, now) ==
  LET U == usableLots(account, now)
  IN {take \in [Lot -> 0..n] :
        /\ Total(take, Lot) = n
        /\ \A l \in Lot \ U : take[l] = 0
        /\ \A l \in U : take[l] <= account.remaining[l]
        /\ \A l, m \in U :
             l # m /\ take[l] < account.remaining[l] /\ take[m] > 0
               => /\ Expires[m] <= Expires[l]
                  /\ take[l] = 0 \/ take[m] = account.remaining[m]}

(* The lot a deduction takes from first carries the key itself.            *)
FirstTaken(take) ==
  {l \in Lot : take[l] > 0 /\ \A m \in Lot : take[m] > 0 => Expires[l] <= Expires[m]}

(* A negative adjustCredits (a positive one is a grant).                   *)
deductCredits(account, ledger, n, k, now) ==
  IF Happened(ledger, WithdrawKey(k)) THEN {NoWrites}
  ELSE UNION {
    {Writes({Entry(IF l = first THEN WithdrawKey(k) ELSE WithdrawLotKey(k, l),
                   "ADMIN_ADJUSTMENT", -take[l], 0, l)
               : l \in {x \in Lot : take[x] > 0}},
            -n, 0, [l \in Lot |-> -take[l]])
       : first \in FirstTaken(take)}
    : take \in Takings(account, n, now)}

(* The account rebuilt from its ledger, which is authoritative.            *)
recomputeCreditAccount(ledger) ==
  [balance   |-> MapThenSumSet(LAMBDA e : e.amount, ledger),
   reserved  |-> MapThenSumSet(LAMBDA e : e.reservedDelta, ledger),
   remaining |-> [l \in Lot |->
     MapThenSumSet(LAMBDA e : e.amount, {e \in ledger : e.lot = l})]]

(* Credits of a lot that are spent, or held by an interview in progress.   *)
lotUsed(account, ledger, l) ==
  LET withdrawn == {e \in ledger : e.lot = l /\ e.type = "ADMIN_ADJUSTMENT"}
      granted   == {e \in ledger : e.lot = l /\ e.type = "GRANT"}
  IN MapThenSumSet(LAMBDA e : e.amount, granted \cup withdrawn)
       - account.remaining[l]
===============================================================================
