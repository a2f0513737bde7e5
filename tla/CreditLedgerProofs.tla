-------------------------- MODULE CreditLedgerProofs --------------------------
(***************************************************************************)
(* Theorems about CreditLedger, for any number of processes, interviews    *)
(* and lots.  The argument: the account's write lock makes the snapshot of *)
(* the one transaction that holds it equal to the stored account and       *)
(* ledger (SnapshotInv), so what the operation decides from its snapshot   *)
(* is right for the documents its writes are applied to.  The writes of an *)
(* operation then fall into three kinds (neutral, reservation, settlement) *)
(* and each kind preserves the ledger's shape, the count of holds and what *)
(* is used of a lot.  The increments of the account are the sums of the    *)
(* entries written with them (Moves), so the account stays the sum of the  *)
(* ledger (BookInv); sums over finite sets are reasoned about by induction *)
(* on subsets.                                                             *)
(***************************************************************************)
EXTENDS CreditLedger, FiniteSetTheorems, WellFoundedInduction, TLAPS

SnapshotInv ==
  /\ \A p \in Process : tx[p].phase = "LOCKED" => tx[p].fresh
  /\ \A p \in Process : tx[p].phase # "IDLE" /\ tx[p].fresh =>
       tx[p].account = account /\ tx[p].ledger = ledger
  /\ \A p, q \in Process :
       tx[p].phase = "LOCKED" /\ tx[q].phase = "LOCKED" => p = q

UniqueKeys(L) == \A e, f \in L : e.key = f.key => e = f

SettlesItsReserve(L) ==
  \A s \in Session : \A e \in findEntry(L, SettleKey(s)) :
    /\ e.type \in {"INTERVIEW_CONSUME", "INTERVIEW_REFUND"}
    /\ \E r \in findEntry(L, ReserveKey(s)) : r.lot = e.lot

FirstOfWithdrawal(L) ==
  \A k \in Withdrawal, l \in Lot :
    Happened(L, WithdrawLotKey(k, l)) => Happened(L, WithdrawKey(k))

ShapeInv ==
  UniqueKeys(ledger) /\ SettlesItsReserve(ledger) /\ FirstOfWithdrawal(ledger)

LotsInv == \A l \in Lot : account.remaining[l] >= 0

(* What lotUsage reports as used of a lot, and the interviews it counts.   *)
Booked(L, l) ==
  {e \in L : e.lot = l /\ e.type = "GRANT"}
    \cup {e \in L : e.lot = l /\ e.type = "ADMIN_ADJUSTMENT"}

AmountSum(S) == MapThenSumSet(LAMBDA e : e.amount, S)
DeltaSum(S)  == MapThenSumSet(LAMBDA e : e.reservedDelta, S)

OfLot(L, l) == {e \in L : e.lot = l}

Used(L, l) == AmountSum(Booked(L, l)) - AmountSum(OfLot(L, l))

Using(L, l) ==
  {s \in Session :
     /\ \E e \in findEntry(L, ReserveKey(s)) : e.lot = l
     /\ \A e \in findEntry(L, SettleKey(s)) : e.type # "INTERVIEW_REFUND"}

UsedInv(L) == \A l \in Lot : Used(L, l) = Cardinality(Using(L, l))

BookInv ==
  /\ IsFiniteSet(ledger)
  /\ account = recomputeCreditAccount(ledger)
  /\ UsedInv(ledger)

IInv == TypeOK /\ SnapshotInv /\ ShapeInv /\ LotsInv /\ HeldByInterviews /\ BookInv

-------------------------------------------------------------------------------
(* Sums.  Induction over the subsets of a finite set is stated with a set  *)
(* of those for which the claim holds.                                     *)

LEMMA SubsetInduction ==
  ASSUME NEW S, IsFiniteSet(S), NEW Good,
         \A s \in SUBSET S : (\A t \in SUBSET s : t # s => t \in Good) => s \in Good
  PROVE  \A s \in SUBSET S : s \in Good
<1> DEFINE Bad == {s \in SUBSET S : s \notin Good}
<1> SUFFICES ASSUME Bad # {} PROVE FALSE
  OBVIOUS
<1>1. Bad \subseteq FiniteSubsetsOf(S)
  BY FS_FiniteSubsetsOfFinite
<1>2. PICK s \in Bad : \A t \in Bad : <<t, s>> \notin StrictSubsetOrdering(S)
  <2> HIDE DEF Bad
  <2> QED BY <1>1, FS_StrictSubsetOrderingWellFounded, WFMin
<1>3. \A t \in SUBSET s : t # s => t \in Good
  BY <1>2 DEF StrictSubsetOrdering
<1> QED BY <1>2, <1>3

(* The recursive function that a sum over D is taken from.                 *)
Pick(s) == CHOOSE x \in s : TRUE

IsTotal(f, D, g) ==
  g = [s \in SUBSET D |-> IF s = {} THEN 0 ELSE f[Pick(s)] + g[s \ {Pick(s)}]]

LEMMA TotalIs ==
  ASSUME NEW f, NEW S
  PROVE  Total(f, S) = (CHOOSE g : IsTotal(f, S, g))[S]
BY Zenon DEF Total, MapThenSumSet, MapThenFoldSet, IsTotal, Pick

LEMMA TotalUnique ==
  ASSUME NEW f, NEW D, IsFiniteSet(D), NEW E, NEW g, NEW h,
         IsTotal(f, D, g), IsTotal(f, E, h)
  PROVE  \A s \in SUBSET (D \cap E) : g[s] = h[s]
<1> DEFINE Good == {s \in SUBSET (D \cap E) : g[s] = h[s]}
<1>1. IsFiniteSet(D \cap E)
  BY FS_Subset
<1>2. ASSUME NEW s \in SUBSET (D \cap E), \A t \in SUBSET s : t # s => t \in Good
      PROVE  s \in Good
  <2>1. CASE s = {}
    BY <2>1 DEF IsTotal
  <2>2. CASE s # {}
    <3>1. Pick(s) \in s
      BY <2>2 DEF Pick
    <3>2. g[s \ {Pick(s)}] = h[s \ {Pick(s)}]
      BY <1>2, <3>1
    <3>3. g[s] = f[Pick(s)] + g[s \ {Pick(s)}]
      BY <2>2 DEF IsTotal
    <3>4. h[s] = f[Pick(s)] + h[s \ {Pick(s)}]
      BY <2>2 DEF IsTotal
    <3> QED BY <3>2, <3>3, <3>4
  <2> QED BY <2>1, <2>2
<1>3. \A s \in SUBSET (D \cap E) : s \in Good
  <2> HIDE DEF Good
  <2> QED BY <1>1, <1>2, SubsetInduction
<1> QED BY <1>3

LEMMA TotalExists ==
  ASSUME NEW f, NEW S, IsFiniteSet(S)
  PROVE  \A s \in SUBSET S : IsTotal(f, s, CHOOSE g : IsTotal(f, s, g))
<1> DEFINE G(s) == CHOOSE g : IsTotal(f, s, g)
           Good == {s \in SUBSET S : IsTotal(f, s, G(s))}
<1>1. ASSUME NEW s \in SUBSET S, \A t \in SUBSET s : t # s => t \in Good
      PROVE  s \in Good
  <2> DEFINE V(t) == G(t)[t]
             h == [t \in SUBSET s |-> IF t = {} THEN 0 ELSE f[Pick(t)] + V(t \ {Pick(t)})]
  <2>1. ASSUME NEW t \in SUBSET s, t # s
        PROVE  h[t] = V(t)
    <3>1. IsTotal(f, t, G(t))
      BY <1>1, <2>1
    <3>2. CASE t = {}
      BY <3>1, <3>2 DEF IsTotal
    <3>3. CASE t # {}
      <4> DEFINE u == t \ {Pick(t)}
      <4>1. Pick(t) \in t
        BY <3>3 DEF Pick
      <4>2. u \in SUBSET s /\ u # s /\ u \in SUBSET t
        BY <4>1
      <4>3. IsTotal(f, u, G(u)) /\ IsFiniteSet(t)
        BY <4>2, <1>1, FS_Subset
      <4>4. u \in SUBSET (t \cap u)
        BY <4>2
      <4>5. G(t)[u] = G(u)[u]
        <5> HIDE DEF G, u
        <5> QED BY <3>1, <4>3, <4>4, TotalUnique
      <4>6. V(t) = f[Pick(t)] + G(t)[u]
        BY <3>1, <3>3 DEF IsTotal
      <4> QED BY <3>3, <4>5, <4>6
    <3> QED BY <3>2, <3>3
  <2>2. IsTotal(f, s, h)
    <3>1. ASSUME NEW t \in SUBSET s, t # {}
          PROVE  V(t \ {Pick(t)}) = h[t \ {Pick(t)}]
      <4>1. Pick(t) \in t
        BY <3>1 DEF Pick
      <4>2. t \ {Pick(t)} \in SUBSET s /\ t \ {Pick(t)} # s
        BY <4>1
      <4> HIDE DEF h, V
      <4> QED BY <4>2, <2>1
    <3>2. h = [t \in SUBSET s |-> IF t = {} THEN 0 ELSE f[Pick(t)] + h[t \ {Pick(t)}]]
      <4> HIDE DEF V
      <4> QED BY <3>1
    <3> HIDE DEF h
    <3> QED BY <3>2 DEF IsTotal
  <2>3. IsTotal(f, s, G(s))
    <3> HIDE DEF h
    <3> QED BY <2>2
  <2> QED BY <2>3
<1>2. \A s \in SUBSET S : s \in Good
  <2> HIDE DEF Good
  <2> QED BY <1>1, SubsetInduction
<1> QED BY <1>2

LEMMA TotalUnfolds ==
  ASSUME NEW f, NEW S, IsFiniteSet(S)
  PROVE  Total(f, S) = IF S = {} THEN 0 ELSE f[Pick(S)] + Total(f, S \ {Pick(S)})
<1> DEFINE G(s) == CHOOSE g : IsTotal(f, s, g)
           T == S \ {Pick(S)}
<1>1. IsTotal(f, S, G(S)) /\ IsTotal(f, T, G(T))
  BY TotalExists
<1>2. Total(f, S) = G(S)[S] /\ Total(f, T) = G(T)[T]
  BY TotalIs
<1>3. G(S)[T] = G(T)[T]
  <2> T \in SUBSET (S \cap T)
    OBVIOUS
  <2> HIDE DEF G, T
  <2> QED BY <1>1, TotalUnique
<1>4. G(S)[S] = IF S = {} THEN 0 ELSE f[Pick(S)] + G(S)[T]
  BY <1>1 DEF IsTotal
<1> QED BY <1>2, <1>3, <1>4

LEMMA TotalRemove ==
  ASSUME NEW f, NEW S, IsFiniteSet(S), \A x \in S : f[x] \in Int
  PROVE  /\ Total(f, {}) = 0
         /\ Total(f, S) \in Int
         /\ \A x \in S : Total(f, S) = f[x] + Total(f, S \ {x})
<1> DEFINE Good == {s \in SUBSET S :
                      /\ Total(f, s) \in Int
                      /\ \A x \in s : Total(f, s) = f[x] + Total(f, s \ {x})}
<1>1. Total(f, {}) = 0
  BY TotalUnfolds, FS_EmptySet
<1>2. ASSUME NEW s \in SUBSET S, \A t \in SUBSET s : t # s => t \in Good
      PROVE  s \in Good
  <2>1. CASE s = {}
    BY <2>1, <1>1
  <2>2. CASE s # {}
    <3> DEFINE p == Pick(s)
    <3>1. p \in s
      BY <2>2 DEF Pick
    <3>2. Total(f, s) = f[p] + Total(f, s \ {p})
      BY <2>2, TotalUnfolds, FS_Subset
    <3>3. Total(f, s \ {p}) \in Int /\ f[p] \in Int
      BY <3>1, <1>2
    <3>4. ASSUME NEW x \in s, x # p
          PROVE  Total(f, s) = f[x] + Total(f, s \ {x})
      <4> DEFINE both == s \ {p, x}
      <4>1. both = (s \ {p}) \ {x} /\ both = (s \ {x}) \ {p}
        OBVIOUS
      <4>2. s \ {p} \in Good /\ s \ {x} \in Good /\ both \in Good
        BY <3>1, <1>2
      <4>3. Total(f, s \ {p}) = f[x] + Total(f, both)
        BY <4>1, <4>2, <3>4
      <4>4. Total(f, s \ {x}) = f[p] + Total(f, both)
        BY <4>1, <4>2, <3>1, <3>4
      <4>5. f[x] \in Int /\ Total(f, both) \in Int
        BY <4>2
      <4> HIDE DEF p, both, Good
      <4> QED BY <3>2, <3>3, <4>3, <4>4, <4>5
    <3>5. \A x \in s : Total(f, s) = f[x] + Total(f, s \ {x})
      BY <3>2, <3>4
    <3> QED BY <3>2, <3>3, <3>5
  <2> QED BY <2>1, <2>2
<1>3. \A s \in SUBSET S : s \in Good
  <2> HIDE DEF Good
  <2> QED BY <1>2, SubsetInduction
<1> QED BY <1>1, <1>3

(* What the other proofs use: three facts about sums of whole numbers.     *)
LEMMA TotalAdds ==
  ASSUME NEW f, NEW S, IsFiniteSet(S), NEW x, x \notin S,
         f[x] \in Int, \A y \in S : f[y] \in Int
  PROVE  Total(f, S \cup {x}) = Total(f, S) + f[x]
<1>1. IsFiniteSet(S \cup {x}) /\ (S \cup {x}) \ {x} = S
  BY FS_AddElement
<1>2. Total(f, S) \in Int
  BY TotalRemove
<1>3. \A y \in S \cup {x} : f[y] \in Int
  OBVIOUS
<1>4. Total(f, S \cup {x}) = f[x] + Total(f, (S \cup {x}) \ {x})
  BY <1>1, <1>3, TotalRemove
<1>5. Total(f, S \cup {x}) = f[x] + Total(f, S)
  BY <1>1, <1>4
<1> QED BY <1>2, <1>5

LEMMA TotalSame ==
  ASSUME NEW f, NEW g, NEW S, IsFiniteSet(S), \A x \in S : f[x] = g[x]
  PROVE  Total(f, S) = Total(g, S)
<1> DEFINE Good == {s \in SUBSET S : Total(f, s) = Total(g, s)}
<1>1. ASSUME NEW s \in SUBSET S, \A t \in SUBSET s : t # s => t \in Good
      PROVE  s \in Good
  <2>1. Total(f, s) = IF s = {} THEN 0 ELSE f[Pick(s)] + Total(f, s \ {Pick(s)})
    BY TotalUnfolds, FS_Subset
  <2>2. Total(g, s) = IF s = {} THEN 0 ELSE g[Pick(s)] + Total(g, s \ {Pick(s)})
    BY TotalUnfolds, FS_Subset
  <2>3. s # {} => Pick(s) \in s
    BY DEF Pick
  <2>4. s # {} => s \ {Pick(s)} \in Good
    BY <1>1, <2>3
  <2> QED BY <2>1, <2>2, <2>3, <2>4
<1>2. \A s \in SUBSET S : s \in Good
  <2> HIDE DEF Good
  <2> QED BY <1>1, SubsetInduction
<1> QED BY <1>2

(* The sum over two disjoint sets.                                         *)
LEMMA TotalUnion ==
  ASSUME NEW f, NEW A, NEW B, IsFiniteSet(A), IsFiniteSet(B), A \cap B = {},
         \A x \in A \cup B : f[x] \in Int
  PROVE  Total(f, A \cup B) = Total(f, A) + Total(f, B)
<1> DEFINE Good == {s \in SUBSET B : Total(f, A \cup s) = Total(f, A) + Total(f, s)}
<1>1. Total(f, A) \in Int /\ Total(f, {}) = 0
  BY TotalRemove
<1>2. ASSUME NEW s \in SUBSET B, \A t \in SUBSET s : t # s => t \in Good
      PROVE  s \in Good
  <2>1. CASE s = {}
    <3>1. A \cup s = A
      BY <2>1
    <3> QED BY <1>1, <2>1, <3>1
  <2>2. CASE s # {}
    <3> DEFINE p == Pick(s)
               u == s \ {p}
    <3>1. p \in s
      BY <2>2 DEF Pick
    <3>2. u \in Good /\ IsFiniteSet(u) /\ IsFiniteSet(A \cup u)
      BY <1>2, <3>1, FS_Subset, FS_Union
    <3>3. /\ p \notin A \cup u /\ p \notin u /\ f[p] \in Int
          /\ \A x \in A \cup u : f[x] \in Int
          /\ s = u \cup {p} /\ A \cup s = (A \cup u) \cup {p}
      BY <3>1
    <3> HIDE DEF p, u
    <3>4. Total(f, (A \cup u) \cup {p}) = Total(f, A \cup u) + f[p]
      BY <3>2, <3>3, TotalAdds
    <3>5. Total(f, u \cup {p}) = Total(f, u) + f[p] /\ Total(f, u) \in Int
      BY <3>2, <3>3, TotalAdds, TotalRemove
    <3>6. Total(f, A \cup u) = Total(f, A) + Total(f, u)
      BY <3>2
    <3>7. Total(f, (A \cup u) \cup {p}) = Total(f, A) + Total(f, u \cup {p})
      BY <1>1, <3>3, <3>4, <3>5, <3>6
    <3> QED BY <3>3, <3>7
  <2> QED BY <2>1, <2>2
<1>3. \A s \in SUBSET B : s \in Good
  <2> HIDE DEF Good
  <2> QED BY <1>2, SubsetInduction
<1> QED BY <1>3

(* The sum over one element.                                               *)
LEMMA TotalOne ==
  ASSUME NEW f, NEW x, f[x] \in Int
  PROVE  Total(f, {x}) = f[x]
<1>1. Total(f, {} \cup {x}) = Total(f, {}) + f[x] /\ Total(f, {}) = 0
  BY FS_EmptySet, TotalAdds, TotalRemove
<1>2. {} \cup {x} = {x}
  OBVIOUS
<1> QED BY <1>1, <1>2

(* A sum of which one term changes.                                        *)
LEMMA TotalChange ==
  ASSUME NEW f, NEW g, NEW S, IsFiniteSet(S), NEW x \in S, NEW d \in Int,
         \A y \in S : f[y] \in Int, g[x] = f[x] + d,
         \A y \in S \ {x} : g[y] = f[y]
  PROVE  Total(g, S) = Total(f, S) + d
<1>1. IsFiniteSet(S \ {x}) /\ \A y \in S : g[y] \in Int
  BY FS_Subset
<1>2. Total(f, S) = f[x] + Total(f, S \ {x}) /\ Total(f, S \ {x}) \in Int
  BY <1>1, TotalRemove
<1>3. Total(g, S) = g[x] + Total(g, S \ {x})
  BY <1>1, TotalRemove
<1>4. Total(g, S \ {x}) = Total(f, S \ {x})
  BY <1>1, TotalSame
<1> QED BY <1>2, <1>3, <1>4

(* A sum of which every term changes its sign.                             *)
LEMMA TotalNegated ==
  ASSUME NEW f, NEW g, NEW S, IsFiniteSet(S), \A x \in S : f[x] \in Int,
         \A x \in S : g[x] = -f[x]
  PROVE  Total(g, S) = -Total(f, S)
<1> DEFINE Good == {s \in SUBSET S : Total(g, s) = -Total(f, s)}
<1>1. ASSUME NEW s \in SUBSET S, \A t \in SUBSET s : t # s => t \in Good
      PROVE  s \in Good
  <2>1. CASE s = {}
    <3>1. Total(f, {}) = 0 /\ Total(g, {}) = 0
      BY FS_EmptySet, TotalRemove
    <3> QED BY <2>1, <3>1
  <2>2. CASE s # {}
    <3> DEFINE p == Pick(s)
               u == s \ {p}
    <3>1. p \in s /\ IsFiniteSet(s)
      BY <2>2, FS_Subset DEF Pick
    <3>2. u \in Good /\ IsFiniteSet(u) /\ g[p] = -f[p] /\ f[p] \in Int
      BY <1>1, <3>1, FS_Subset
    <3>3. Total(f, s) = f[p] + Total(f, u) /\ Total(f, u) \in Int
      BY <3>1, <3>2, TotalRemove
    <3>4. Total(g, s) = g[p] + Total(g, u)
      BY <3>1, <3>2, TotalRemove
    <3> HIDE DEF p, u
    <3> QED BY <3>2, <3>3, <3>4
  <2> QED BY <2>1, <2>2
<1>2. \A s \in SUBSET S : s \in Good
  <2> HIDE DEF Good
  <2> QED BY <1>1, SubsetInduction
<1> QED BY <1>2

(* A sum of zeros.                                                         *)
LEMMA TotalZero ==
  ASSUME NEW f, NEW S, IsFiniteSet(S), \A x \in S : f[x] = 0
  PROVE  Total(f, S) = 0
<1>1. Total(f, S) = -Total(f, S) /\ Total(f, S) \in Int
  BY TotalNegated, TotalRemove
<1> QED BY <1>1

-------------------------------------------------------------------------------
(* The sums of recomputeCreditAccount are totals over the entries.         *)

Amount == [e \in LedgerEntry |-> e.amount]
Delta  == [e \in LedgerEntry |-> e.reservedDelta]

IsAmountSum(D, g) ==
  g = [s \in SUBSET D |-> IF s = {} THEN 0 ELSE Pick(s).amount + g[s \ {Pick(s)}]]

IsDeltaSum(D, g) ==
  g = [s \in SUBSET D |-> IF s = {} THEN 0 ELSE Pick(s).reservedDelta + g[s \ {Pick(s)}]]

LEMMA AmountSumIs ==
  ASSUME NEW S \in SUBSET LedgerEntry, IsFiniteSet(S)
  PROVE  AmountSum(S) = Total(Amount, S)
<1> DEFINE h == CHOOSE g : IsAmountSum(S, g)
           k == CHOOSE g : IsTotal(Amount, S, g)
<1>1. AmountSum(S) = h[S]
  BY Zenon DEF AmountSum, MapThenSumSet, MapThenFoldSet, IsAmountSum, Pick
<1>2. \A s \in SUBSET S : s # {} => Amount[Pick(s)] = Pick(s).amount
  BY DEF Pick, Amount
<1>3. \A g : IsAmountSum(S, g) <=> IsTotal(Amount, S, g)
  BY <1>2 DEF IsAmountSum, IsTotal
<1>4. IsTotal(Amount, S, k)
  BY TotalExists
<1>5. IsTotal(Amount, S, h)
  <2>1. IsAmountSum(S, k)
    BY <1>3, <1>4
  <2> HIDE DEF k
  <2>2. IsAmountSum(S, h)
    BY <2>1
  <2> HIDE DEF h
  <2> QED BY <1>3, <2>2
<1>6. h[S] = k[S]
  <2> HIDE DEF h, k
  <2> QED BY <1>4, <1>5, TotalUnique
<1> QED BY <1>1, <1>6, TotalIs

LEMMA DeltaSumIs ==
  ASSUME NEW S \in SUBSET LedgerEntry, IsFiniteSet(S)
  PROVE  DeltaSum(S) = Total(Delta, S)
<1> DEFINE h == CHOOSE g : IsDeltaSum(S, g)
           k == CHOOSE g : IsTotal(Delta, S, g)
<1>1. DeltaSum(S) = h[S]
  BY Zenon DEF DeltaSum, MapThenSumSet, MapThenFoldSet, IsDeltaSum, Pick
<1>2. \A s \in SUBSET S : s # {} => Delta[Pick(s)] = Pick(s).reservedDelta
  BY DEF Pick, Delta
<1>3. \A g : IsDeltaSum(S, g) <=> IsTotal(Delta, S, g)
  BY <1>2 DEF IsDeltaSum, IsTotal
<1>4. IsTotal(Delta, S, k)
  BY TotalExists
<1>5. IsTotal(Delta, S, h)
  <2>1. IsDeltaSum(S, k)
    BY <1>3, <1>4
  <2> HIDE DEF k
  <2>2. IsDeltaSum(S, h)
    BY <2>1
  <2> HIDE DEF h
  <2> QED BY <1>3, <2>2
<1>6. h[S] = k[S]
  <2> HIDE DEF h, k
  <2> QED BY <1>4, <1>5, TotalUnique
<1> QED BY <1>1, <1>6, TotalIs

(* Entries and what they add up to.                                        *)
LEMMA EntriesAdd ==
  ASSUME NEW A \in SUBSET LedgerEntry, NEW B \in SUBSET LedgerEntry,
         IsFiniteSet(A), IsFiniteSet(B), A \cap B = {}
  PROVE  /\ AmountSum(A) \in Int /\ DeltaSum(A) \in Int
         /\ AmountSum(A \cup B) = AmountSum(A) + AmountSum(B)
         /\ DeltaSum(A \cup B) = DeltaSum(A) + DeltaSum(B)
<1>1. \A e \in A \cup B : Amount[e] \in Int /\ Delta[e] \in Int
  BY DEF Amount, Delta, LedgerEntry
<1>2. IsFiniteSet(A \cup B) /\ A \cup B \in SUBSET LedgerEntry
  BY FS_Union
<1>3. Total(Amount, A) \in Int /\ Total(Delta, A) \in Int
  BY <1>1, TotalRemove
<1> QED BY <1>1, <1>2, <1>3, TotalUnion, AmountSumIs, DeltaSumIs

LEMMA OneEntry ==
  ASSUME NEW e \in LedgerEntry
  PROVE  AmountSum({e}) = e.amount /\ DeltaSum({e}) = e.reservedDelta
<1>1. IsFiniteSet({e}) /\ {e} \in SUBSET LedgerEntry
  BY FS_Singleton
<1>2. Amount[e] = e.amount /\ Delta[e] = e.reservedDelta
  BY DEF Amount, Delta
<1>3. e.amount \in Int /\ e.reservedDelta \in Int
  BY DEF LedgerEntry
<1> QED BY <1>1, <1>2, <1>3, TotalOne, AmountSumIs, DeltaSumIs

LEMMA NoEntry == AmountSum({}) = 0 /\ DeltaSum({}) = 0
<1>1. IsFiniteSet({}) /\ {} \in SUBSET LedgerEntry
  BY FS_EmptySet
<1>2. Total(Amount, {}) = 0 /\ Total(Delta, {}) = 0
  BY FS_EmptySet, TotalRemove
<1> QED BY <1>1, <1>2, AmountSumIs, DeltaSumIs

-------------------------------------------------------------------------------
(* The ledger adds up to what its entries leave in each lot.               *)

Remaining(L) == [l \in Lot |-> AmountSum(OfLot(L, l))]

LEMMA OfLotTyped ==
  ASSUME NEW L \in SUBSET LedgerEntry, IsFiniteSet(L), NEW l \in Lot
  PROVE  /\ OfLot(L, l) \in SUBSET LedgerEntry /\ IsFiniteSet(OfLot(L, l))
         /\ Remaining(L)[l] = AmountSum(OfLot(L, l))
         /\ Remaining(L)[l] \in Int
<1>1. OfLot(L, l) \in SUBSET LedgerEntry /\ IsFiniteSet(OfLot(L, l))
  BY FS_Subset DEF OfLot
<1>2. AmountSum(OfLot(L, l)) \in Int
  BY <1>1, FS_EmptySet, EntriesAdd
<1> QED BY <1>1, <1>2 DEF Remaining

LEMMA SumByLot ==
  ASSUME NEW L \in SUBSET LedgerEntry, IsFiniteSet(L)
  PROVE  Total(Remaining(L), Lot) = AmountSum(L)
<1> DEFINE Good == {s \in SUBSET L : Total(Remaining(s), Lot) = AmountSum(s)}
<1>1. ASSUME NEW s \in SUBSET L, \A t \in SUBSET s : t # s => t \in Good
      PROVE  s \in Good
  <2>1. CASE s = {}
    <3>1. \A l \in Lot : Remaining(s)[l] = 0
      BY <2>1, NoEntry DEF OfLot, Remaining
    <3>2. Total(Remaining(s), Lot) = 0
      BY <3>1, CreditsAssumption, TotalZero
    <3> QED BY <2>1, <3>2, NoEntry
  <2>2. CASE s # {}
    <3> DEFINE e == Pick(s)
               u == s \ {e}
    <3>1. e \in s /\ e \in LedgerEntry
      BY <2>2 DEF Pick
    <3>2. /\ u \in SUBSET s /\ u # s /\ s = u \cup {e} /\ u \cap {e} = {}
          /\ u \in SUBSET LedgerEntry
      BY <3>1
    <3>3. IsFiniteSet(u) /\ IsFiniteSet({e}) /\ e.lot \in Lot /\ e.amount \in Int
      BY <3>1, FS_Subset, FS_Singleton DEF LedgerEntry
    <3>4. Total(Remaining(u), Lot) = AmountSum(u)
      BY <1>1, <3>2
    <3> HIDE DEF e, u
    <3>5. AmountSum(s) = AmountSum(u) + e.amount
      BY <3>1, <3>2, <3>3, EntriesAdd, OneEntry
    <3>6. \A l \in Lot \ {e.lot} : Remaining(s)[l] = Remaining(u)[l]
      <4> TAKE l \in Lot \ {e.lot}
      <4>1. OfLot(s, l) = OfLot(u, l)
        BY <3>2 DEF OfLot
      <4> QED BY <4>1 DEF Remaining
    <3>7. Remaining(s)[e.lot] = Remaining(u)[e.lot] + e.amount
      <4> DEFINE A == OfLot(u, e.lot)
      <4>1. A \in SUBSET LedgerEntry /\ IsFiniteSet(A) /\ A \cap {e} = {}
        BY <3>2, <3>3, OfLotTyped DEF OfLot
      <4>2. OfLot(s, e.lot) = A \cup {e}
        BY <3>2 DEF OfLot
      <4>3. Remaining(s)[e.lot] = AmountSum(A \cup {e}) /\ Remaining(u)[e.lot] = AmountSum(A)
        BY <3>3, <4>2 DEF Remaining
      <4> HIDE DEF A
      <4>4. AmountSum(A \cup {e}) = AmountSum(A) + e.amount
        BY <3>1, <3>3, <4>1, EntriesAdd, OneEntry
      <4> QED BY <4>3, <4>4
    <3>8. \A l \in Lot : Remaining(u)[l] \in Int
      BY <3>2, <3>3, OfLotTyped
    <3>9. Total(Remaining(s), Lot) = Total(Remaining(u), Lot) + e.amount
      BY <3>3, <3>6, <3>7, <3>8, CreditsAssumption, TotalChange
    <3> QED BY <3>4, <3>5, <3>9
  <2> QED BY <2>1, <2>2
<1>2. \A s \in SUBSET L : s \in Good
  <2> HIDE DEF Good
  <2> QED BY <1>1, SubsetInduction
<1> QED BY <1>2

-------------------------------------------------------------------------------

(* The kinds of writes, as the invariant needs to know them.               *)
SessionKey == {ReserveKey(s) : s \in Session} \cup {SettleKey(s) : s \in Session}

WellTyped(w) ==
  /\ w.entries \subseteq LedgerEntry
  /\ w.balance \in Int
  /\ w.reserved \in Int
  /\ w.lots \in [Lot -> Int]

Neutral(w) ==
  /\ w.reserved = 0
  /\ \A e \in w.entries :
       e.key \notin SessionKey /\ e.type \in {"GRANT", "ADMIN_ADJUSTMENT"}

Reserves(w, L, s) ==
  /\ w.reserved = 1
  /\ ~Happened(L, ReserveKey(s))
  /\ \E l \in Lot :
       w.entries = {Entry(ReserveKey(s), "INTERVIEW_RESERVE", -1, 1, l)}

Returned(type) == IF type = "INTERVIEW_REFUND" THEN 1 ELSE 0

Settles(w, L, s) ==
  /\ w.reserved = -1
  /\ ~Happened(L, SettleKey(s))
  /\ \E r \in findEntry(L, ReserveKey(s)) :
       \E type \in {"INTERVIEW_CONSUME", "INTERVIEW_REFUND"} :
         w.entries = {Entry(SettleKey(s), type, Returned(type), -1, r.lot)}

(* The increments of the account are what the entries add up to.           *)
Moves(w) ==
  /\ IsFiniteSet(w.entries)
  /\ w.balance = AmountSum(w.entries)
  /\ w.reserved = DeltaSum(w.entries)
  /\ w.lots = Remaining(w.entries)

SoundWrites(w, a, L) ==
  /\ WellTyped(w)
  /\ Moves(w)
  /\ \A l \in Lot : a.remaining[l] + w.lots[l] >= 0
  /\ UniqueKeys(w.entries)
  /\ \A e \in w.entries : ~Happened(L, e.key)
  /\ FirstOfWithdrawal(L \cup w.entries)
  /\ \/ Neutral(w)
     \/ \E s \in Session : Reserves(w, L, s) \/ Settles(w, L, s)

-------------------------------------------------------------------------------

(* The keys of different kinds of entries differ.                          *)
LEMMA KeysDiffer ==
  /\ \A s, u \in Session :
       /\ ReserveKey(s) # SettleKey(u)
       /\ ReserveKey(s) = ReserveKey(u) => s = u
       /\ SettleKey(s) = SettleKey(u) => s = u
  /\ \A l \in Lot : GrantKey(l) \notin SessionKey
  /\ \A k \in Withdrawal : WithdrawKey(k) \notin SessionKey
  /\ \A k \in Withdrawal, l \in Lot : WithdrawLotKey(k, l) \notin SessionKey
BY DEF ReserveKey, SettleKey, GrantKey, WithdrawKey, WithdrawLotKey, SessionKey

(* Each lot's entry of a withdrawal has a key of its own.                  *)
LEMMA WithdrawLotKeysDiffer ==
  /\ \A k, j \in Withdrawal, l \in Lot : WithdrawLotKey(k, l) # WithdrawKey(j)
  /\ \A k, j \in Withdrawal, l, m \in Lot :
       WithdrawLotKey(k, l) = WithdrawLotKey(j, m) => k = j /\ l = m
BY DEF WithdrawKey, WithdrawLotKey

(* Every key the operations build is a key.                                *)
LEMMA KeyTypes ==
  /\ \A l \in Lot : GrantKey(l) \in Key
  /\ \A s \in Session : ReserveKey(s) \in Key /\ SettleKey(s) \in Key
  /\ \A k \in Withdrawal : WithdrawKey(k) \in Key
  /\ \A k \in Withdrawal, l \in Lot : WithdrawLotKey(k, l) \in Key
BY DEF ReserveKey, SettleKey, GrantKey, WithdrawKey, WithdrawLotKey, Key

-------------------------------------------------------------------------------
(* What each operation decides, from an account and a ledger of the right  *)
(* shape, are sound writes.                                                *)

GoodBook(a, L) ==
  /\ a \in Account
  /\ L \subseteq LedgerEntry
  /\ FirstOfWithdrawal(L)
  /\ \A l \in Lot : a.remaining[l] >= 0

(* Writing nothing moves nothing, writing one entry moves what it says.    *)
LEMMA NothingMoves == Moves(NoWrites)
<1>1. \A l \in Lot : OfLot({}, l) = {}
  BY DEF OfLot
<1>2. Remaining({}) = NoLots
  BY <1>1, NoEntry DEF Remaining, NoLots
<1> QED
  BY <1>2, NoEntry, FS_EmptySet DEF Moves, NoWrites, Writes

LEMMA OneMoves ==
  ASSUME NEW e \in LedgerEntry, NEW w,
         w = Writes({e}, e.amount, e.reservedDelta, Only(e.lot, e.amount))
  PROVE  Moves(w)
<1>1. \A l \in Lot : OfLot({e}, l) = IF l = e.lot THEN {e} ELSE {}
  BY DEF OfLot
<1>2. \A l \in Lot : AmountSum(OfLot({e}, l)) = IF l = e.lot THEN e.amount ELSE 0
  BY <1>1, NoEntry, OneEntry
<1>3. Remaining({e}) = Only(e.lot, e.amount)
  BY <1>2 DEF Remaining, Only
<1> QED
  BY <1>3, OneEntry, FS_Singleton DEF Moves, Writes

LEMMA ManyMove ==
  ASSUME NEW n \in Nat, NEW take \in [Lot -> 0..n], n = Total(take, Lot),
         NEW entry \in [Lot -> LedgerEntry],
         \A l \in Lot : /\ entry[l].lot = l /\ entry[l].amount = -take[l]
                       /\ entry[l].reservedDelta = 0,
         NEW w,
         w = Writes({entry[l] : l \in {x \in Lot : take[x] > 0}},
                    -n, 0, [l \in Lot |-> -take[l]])
  PROVE  Moves(w)
<1> DEFINE T == {x \in Lot : take[x] > 0}
           S == {entry[l] : l \in T}
           minus == [l \in Lot |-> -take[l]]
<1>1. S \in SUBSET LedgerEntry /\ IsFiniteSet(S)
  <2>1. IsFiniteSet(T)
    BY CreditsAssumption, FS_Subset
  <2>2. \A x \in T : entry[x] \in LedgerEntry
    OBVIOUS
  <2> HIDE DEF T
  <2> DEFINE f == [x \in T |-> entry[x]]
  <2>3. f \in Surjection(T, S)
    BY DEF Surjection
  <2> HIDE DEF f, S
  <2>4. IsFiniteSet(S)
    BY <2>1, <2>3, FS_Surjection
  <2> QED
    BY <2>2, <2>4 DEF S
<1>2. Remaining(S) = minus
  <2>1. ASSUME NEW l \in Lot PROVE AmountSum(OfLot(S, l)) = -take[l]
    <3>1. OfLot(S, l) = IF take[l] > 0 THEN {entry[l]} ELSE {}
      BY DEF OfLot
    <3>2. AmountSum({entry[l]}) = -take[l]
      BY OneEntry
    <3>3. take[l] \in Nat
      OBVIOUS
    <3>4. CASE take[l] > 0
      BY <3>1, <3>2, <3>4
    <3>5. CASE take[l] = 0
      <4>1. -take[l] = 0
        <5>1. \A i \in Int : -i = 0 - i
          OBVIOUS
        <5>2. -take[l] = 0 - take[l]
          BY <3>3, <5>1
        <5> QED
          BY <3>5, <5>2
      <4>2. ~(take[l] > 0)
        BY <3>5
      <4>3. OfLot(S, l) = {}
        BY <3>1, <4>2
      <4> HIDE DEF S
      <4> QED
        BY <4>1, <4>3, NoEntry
    <3> QED
      BY <3>3, <3>4, <3>5
  <2> HIDE DEF S
  <2> QED
    BY <2>1 DEF Remaining
<1>3. AmountSum(S) = -n
  <2>1. Total(minus, Lot) = -Total(take, Lot)
    <3>1. \A l \in Lot : take[l] \in Int /\ minus[l] = -take[l]
      OBVIOUS
    <3> HIDE DEF minus
    <3> QED
      BY <3>1, CreditsAssumption, TotalNegated
  <2> HIDE DEF S, minus
  <2> QED
    BY <1>1, <1>2, <2>1, SumByLot
<1>4. DeltaSum(S) = 0
  <2>1. \A e \in S : Delta[e] = 0
    BY <1>1 DEF Delta
  <2> HIDE DEF S
  <2> QED
    BY <1>1, <2>1, TotalZero, DeltaSumIs
<1> QED
  BY <1>1, <1>2, <1>3, <1>4 DEF Moves, Writes

(* Writing nothing is neutral.                                             *)
LEMMA NoWritesSound ==
  ASSUME NEW a, NEW L, GoodBook(a, L)
  PROVE  SoundWrites(NoWrites, a, L)
BY NothingMoves DEF GoodBook, SoundWrites, NoWrites, Writes, NoLots, WellTyped, Neutral,
       UniqueKeys, Account, FirstOfWithdrawal

(* What a grant writes is neutral: it takes nothing and holds nothing.     *)
LEMMA GrantSound ==
  ASSUME NEW a, NEW L, GoodBook(a, L), NEW l \in Lot,
         NEW w \in grantCredits(L, l)
  PROVE  SoundWrites(w, a, L)
<1>1. CASE Happened(L, GrantKey(l))
  BY <1>1, NoWritesSound DEF grantCredits
<1>2. CASE ~Happened(L, GrantKey(l))
  <2> DEFINE e == Entry(GrantKey(l), "GRANT", Granted[l], 0, l)
  <2>0. w = Writes({e}, Granted[l], 0, Only(l, Granted[l]))
    BY <1>2 DEF grantCredits
  <2>1. /\ w.entries = {e} /\ w.balance = Granted[l] /\ w.reserved = 0
        /\ w.lots = Only(l, Granted[l])
    BY <2>0 DEF Writes
  <2>2. Granted[l] \in Nat
    BY CreditsAssumption
  <2>3. e \in LedgerEntry /\ e.key = GrantKey(l)
    BY <2>2, KeyTypes DEF Entry, LedgerEntry, EntryType
  <2>4. WellTyped(w)
    BY <2>1, <2>2, <2>3 DEF WellTyped, Only
  <2>5. \A m \in Lot : a.remaining[m] + w.lots[m] >= 0
    BY <2>1, <2>2 DEF GoodBook, Account, Only
  <2>6. Neutral(w)
    BY <2>1, <2>3, KeysDiffer DEF Neutral, Entry
  <2>9. Moves(w)
    BY <2>0, <2>3, OneMoves DEF Entry
  <2>7. FirstOfWithdrawal(L \cup w.entries)
    BY <2>1, <2>3, KeysDiffer DEF FirstOfWithdrawal, GoodBook, Happened, findEntry,
       GrantKey, WithdrawLotKey, WithdrawKey
  <2>8. UniqueKeys(w.entries) /\ \A f \in w.entries : ~Happened(L, f.key)
    BY <1>2, <2>1, <2>3 DEF UniqueKeys
  <2> QED
    BY <2>4, <2>5, <2>6, <2>7, <2>8, <2>9 DEF SoundWrites
<1> QED
  BY <1>1, <1>2

(* What a reservation writes is nothing or a reservation.                  *)
LEMMA ReserveSound ==
  ASSUME NEW a, NEW L, GoodBook(a, L), NEW s \in Session, NEW now,
         NEW w \in reserveCredit(a, L, s, now)
  PROVE  SoundWrites(w, a, L)
<1>1. CASE Happened(L, ReserveKey(s))
  BY <1>1, NoWritesSound DEF reserveCredit
<1>2. CASE ~Happened(L, ReserveKey(s))
  <2>1. PICK l \in pickLot(a, now) :
          w = Writes({Entry(ReserveKey(s), "INTERVIEW_RESERVE", -1, 1, l)},
                     -1, 1, Only(l, -1))
    BY <1>2 DEF reserveCredit
  <2> DEFINE e == Entry(ReserveKey(s), "INTERVIEW_RESERVE", -1, 1, l)
  <2>2. l \in Lot /\ a.remaining[l] > 0
    BY DEF pickLot, usableLots, usable
  <2>3. e \in LedgerEntry /\ e.key = ReserveKey(s)
    BY <2>2, KeyTypes DEF Entry, LedgerEntry, EntryType
  <2>4. WellTyped(w)
    BY <2>1, <2>3 DEF WellTyped, Only, Writes
  <2>5. \A m \in Lot : a.remaining[m] + w.lots[m] >= 0
    BY <2>1, <2>2 DEF GoodBook, Account, Only, Writes
  <2>6. Reserves(w, L, s)
    BY <1>2, <2>1, <2>2 DEF Reserves, Writes
  <2>9. Moves(w)
    BY <2>1, <2>3, OneMoves DEF Entry
  <2>7. FirstOfWithdrawal(L \cup w.entries)
    BY <2>1, <2>3 DEF FirstOfWithdrawal, GoodBook, Happened, findEntry, Writes,
       ReserveKey, WithdrawLotKey, WithdrawKey
  <2>8. UniqueKeys(w.entries) /\ \A f \in w.entries : ~Happened(L, f.key)
    BY <1>2, <2>1, <2>3 DEF UniqueKeys, Writes
  <2> QED
    BY <2>4, <2>5, <2>6, <2>7, <2>8, <2>9 DEF SoundWrites
<1> QED
  BY <1>1, <1>2

(* What a settlement writes is nothing or a settlement.                    *)
LEMMA SettleSound ==
  ASSUME NEW a, NEW L, GoodBook(a, L), NEW s \in Session,
         NEW outcome \in {"CONSUME", "REFUND"},
         NEW w \in settleCredit(L, s, outcome)
  PROVE  SoundWrites(w, a, L)
<1>1. CASE Happened(L, SettleKey(s)) \/ ~Happened(L, ReserveKey(s))
  BY <1>1, NoWritesSound DEF settleCredit
<1>2. CASE ~Happened(L, SettleKey(s)) /\ Happened(L, ReserveKey(s))
  <2>1. PICK r \in findEntry(L, ReserveKey(s)) :
          w = SettleWrites(s, outcome, r.lot)
    BY <1>2 DEF settleCredit
  <2>2. PICK type \in {"INTERVIEW_CONSUME", "INTERVIEW_REFUND"} :
          w = Writes({Entry(SettleKey(s), type, Returned(type), -1, r.lot)},
                     Returned(type), -1, Only(r.lot, Returned(type)))
    BY <2>1 DEF SettleWrites, Only, NoLots, Returned
  <2> DEFINE n == Returned(type)
             e == Entry(SettleKey(s), type, n, -1, r.lot)
  <2>3. r.lot \in Lot /\ n \in {0, 1}
    BY DEF GoodBook, findEntry, LedgerEntry, Returned
  <2>4. e \in LedgerEntry /\ e.key = SettleKey(s)
    BY <2>3, KeyTypes DEF Entry, LedgerEntry, EntryType
  <2>5. WellTyped(w)
    BY <2>2, <2>3, <2>4 DEF WellTyped, Writes, Only
  <2>6. \A m \in Lot : a.remaining[m] + w.lots[m] >= 0
    BY <2>2, <2>3 DEF GoodBook, Account, Writes, Only
  <2>10. Moves(w)
    BY <2>2, <2>4, OneMoves DEF Entry
  <2>7. Settles(w, L, s)
    BY <1>2, <2>2 DEF Settles, Writes
  <2>8. FirstOfWithdrawal(L \cup w.entries)
    BY <2>2, <2>4 DEF FirstOfWithdrawal, GoodBook, Happened, findEntry, Writes,
       SettleKey, WithdrawLotKey, WithdrawKey
  <2>9. UniqueKeys(w.entries) /\ \A f \in w.entries : ~Happened(L, f.key)
    BY <1>2, <2>2, <2>4 DEF UniqueKeys, Writes
  <2> QED
    BY <2>5, <2>6, <2>7, <2>8, <2>9, <2>10 DEF SoundWrites
<1> QED
  BY <1>1, <1>2

(* What a revocation writes is neutral.                                    *)
LEMMA RevokeSound ==
  ASSUME NEW a, NEW L, GoodBook(a, L), NEW l \in Lot, NEW k \in Withdrawal,
         NEW max \in Nat, NEW w \in revokeLotCredits(a, L, l, k, max)
  PROVE  SoundWrites(w, a, L)
<1>1. CASE Happened(L, WithdrawKey(k))
  BY <1>1, NoWritesSound DEF revokeLotCredits
<1>2. CASE ~Happened(L, WithdrawKey(k))
  <2> DEFINE n == AtMost(a.remaining[l], max)
             e == Entry(WithdrawKey(k), "ADMIN_ADJUSTMENT", -n, 0, l)
  <2>1. w = Writes({e}, -n, 0, Only(l, -n))
    BY <1>2 DEF revokeLotCredits
  <2>2. n \in Nat /\ n <= a.remaining[l]
    BY DEF AtMost, GoodBook, Account
  <2> HIDE DEF n
  <2>3. e \in LedgerEntry /\ e.key = WithdrawKey(k)
    BY <2>2, KeyTypes DEF Entry, LedgerEntry, EntryType
  <2>4. WellTyped(w)
    BY <2>1, <2>2, <2>3 DEF WellTyped, Only, Writes
  <2>5. \A m \in Lot : a.remaining[m] + w.lots[m] >= 0
    BY <2>1, <2>2 DEF GoodBook, Account, Only, Writes
  <2>6. Neutral(w)
    BY <2>1, <2>3, KeysDiffer DEF Neutral, Writes, Entry
  <2>9. Moves(w)
    BY <2>1, <2>3, OneMoves DEF Entry
  <2>7. FirstOfWithdrawal(L \cup w.entries)
    BY <2>1, <2>3 DEF FirstOfWithdrawal, GoodBook, Happened, findEntry, Writes,
       WithdrawLotKey, WithdrawKey
  <2>8. UniqueKeys(w.entries) /\ \A f \in w.entries : ~Happened(L, f.key)
    BY <1>2, <2>1, <2>3 DEF UniqueKeys, Writes
  <2> QED
    BY <2>4, <2>5, <2>6, <2>7, <2>8, <2>9 DEF SoundWrites
<1> QED
  BY <1>1, <1>2

(* What a deduction writes is neutral, over however many lots.             *)
LEMMA DeductSound ==
  ASSUME NEW a, NEW L, GoodBook(a, L), NEW n \in Nat, NEW k \in Withdrawal,
         NEW now, NEW w \in deductCredits(a, L, n, k, now)
  PROVE  SoundWrites(w, a, L)
<1>1. CASE Happened(L, WithdrawKey(k))
  BY <1>1, NoWritesSound DEF deductCredits
<1>2. CASE ~Happened(L, WithdrawKey(k))
  <2> DEFINE key(first, l) ==
               IF l = first THEN WithdrawKey(k) ELSE WithdrawLotKey(k, l)
             e(take, first, l) ==
               Entry(key(first, l), "ADMIN_ADJUSTMENT", -take[l], 0, l)
  <2>1. PICK take \in Takings(a, n, now) : \E first \in FirstTaken(take) :
          w = Writes({e(take, first, l) : l \in {x \in Lot : take[x] > 0}},
                     -n, 0, [l \in Lot |-> -take[l]])
    BY <1>2 DEF deductCredits
  <2>2. PICK first \in FirstTaken(take) :
          w = Writes({e(take, first, l) : l \in {x \in Lot : take[x] > 0}},
                     -n, 0, [l \in Lot |-> -take[l]])
    BY <2>1
  <2>3. take \in [Lot -> 0..n] /\ \A l \in Lot : take[l] <= a.remaining[l]
    BY DEF Takings, usableLots, GoodBook, Account
  <2>4. first \in Lot /\ take[first] > 0
    BY DEF FirstTaken
  <2>5. \A f \in w.entries : \E l \in Lot : f = e(take, first, l)
    BY <2>2 DEF Writes
  <2>6. \A l \in Lot : /\ e(take, first, l) \in LedgerEntry
                       /\ e(take, first, l).key = key(first, l)
    BY <2>3, KeyTypes DEF Entry, LedgerEntry, EntryType
  <2>7. \A l, m \in Lot : key(first, l) = key(first, m) => l = m
    BY WithdrawLotKeysDiffer
  <2>8. \A l \in Lot : ~Happened(L, key(first, l)) /\ key(first, l) \notin SessionKey
    BY <1>2, KeysDiffer DEF GoodBook, FirstOfWithdrawal
  <2>9. e(take, first, first) \in w.entries
    BY <2>2, <2>4 DEF Writes
  <2> HIDE DEF e
  <2>16. Moves(w)
    <3> DEFINE entry == [l \in Lot |-> e(take, first, l)]
    <3>1. entry \in [Lot -> LedgerEntry] /\ n = Total(take, Lot)
      BY <2>6 DEF Takings
    <3>2. \A l \in Lot : /\ entry[l].lot = l /\ entry[l].amount = -take[l]
                         /\ entry[l].reservedDelta = 0
      BY DEF e, Entry
    <3>3. w = Writes({entry[l] : l \in {x \in Lot : take[x] > 0}},
                     -n, 0, [l \in Lot |-> -take[l]])
      BY <2>2
    <3> HIDE DEF entry
    <3> QED
      BY <2>3, <3>1, <3>2, <3>3, ManyMove
  <2>10. WellTyped(w)
    BY <2>2, <2>3, <2>5, <2>6 DEF WellTyped, Writes
  <2>11. \A l \in Lot : a.remaining[l] + w.lots[l] >= 0
    BY <2>2, <2>3 DEF GoodBook, Account, Writes
  <2>12. UniqueKeys(w.entries)
    <3> HIDE DEF key
    <3> QED
      BY <2>5, <2>6, <2>7 DEF UniqueKeys
  <2>13. \A f \in w.entries : ~Happened(L, f.key)
    <3> HIDE DEF key
    <3> QED
      BY <2>5, <2>6, <2>8
  <2>14. Neutral(w)
    <3>1. w.reserved = 0
      BY <2>2 DEF Writes
    <3>2. \A l \in Lot : e(take, first, l).type = "ADMIN_ADJUSTMENT"
      BY DEF e, Entry
    <3> HIDE DEF key
    <3> QED
      BY <3>1, <3>2, <2>5, <2>6, <2>8 DEF Neutral
  <2>15. FirstOfWithdrawal(L \cup w.entries)
    <3> SUFFICES ASSUME NEW j \in Withdrawal, NEW m \in Lot,
                        Happened(L \cup w.entries, WithdrawLotKey(j, m))
                 PROVE  Happened(L \cup w.entries, WithdrawKey(j))
      BY DEF FirstOfWithdrawal
    <3>1. CASE Happened(L, WithdrawLotKey(j, m))
      BY <3>1 DEF GoodBook, FirstOfWithdrawal, Happened, findEntry
    <3>2. CASE \E f \in w.entries : f.key = WithdrawLotKey(j, m)
      <4>1. j = k
        BY <3>2, <2>5, <2>6, WithdrawLotKeysDiffer
      <4>2. e(take, first, first).key = WithdrawKey(k)
        BY <2>4, <2>6
      <4> QED
        BY <4>1, <4>2, <2>9 DEF Happened, findEntry
    <3> QED
      BY <3>1, <3>2 DEF Happened, findEntry
  <2> QED
    BY <2>10, <2>11, <2>12, <2>13, <2>14, <2>15, <2>16 DEF SoundWrites
<1> QED
  BY <1>1, <1>2

-------------------------------------------------------------------------------
(* What sound writes do to the ledger.                                     *)

ReservedIn(L) == {s \in Session : Happened(L, ReserveKey(s))}
SettledIn(L)  == {s \in Session : Happened(L, SettleKey(s))}

SameReserve(L, M, s) == findEntry(M, ReserveKey(s)) = findEntry(L, ReserveKey(s))
SameSettle(L, M, s)  == findEntry(M, SettleKey(s)) = findEntry(L, SettleKey(s))

(* A neutral write changes no interview's hold.                            *)
LEMMA NeutralEffect ==
  ASSUME NEW L, NEW w, Neutral(w)
  PROVE  \A s \in Session : /\ SameReserve(L, L \cup w.entries, s)
                            /\ SameSettle(L, L \cup w.entries, s)
BY DEF Neutral, findEntry, SessionKey, SameReserve, SameSettle

(* A reservation adds one hold, that of its interview.                     *)
LEMMA ReserveEffect ==
  ASSUME NEW L, NEW w, NEW s \in Session, Reserves(w, L, s)
  PROVE  /\ \A u \in Session \ {s} : SameReserve(L, L \cup w.entries, u)
         /\ \A u \in Session : SameSettle(L, L \cup w.entries, u)
         /\ ~Happened(L, ReserveKey(s))
         /\ Happened(L \cup w.entries, ReserveKey(s))
<1>1. PICK l \in Lot :
        w.entries = {Entry(ReserveKey(s), "INTERVIEW_RESERVE", -1, 1, l)}
  BY DEF Reserves
<1> DEFINE e == Entry(ReserveKey(s), "INTERVIEW_RESERVE", -1, 1, l)
<1>2. e.key = ReserveKey(s)
  BY DEF Entry
<1>3. w.entries = {e}
  BY <1>1
<1> HIDE DEF e
<1>4. \A u \in Session \ {s} : SameReserve(L, L \cup w.entries, u)
  <2> TAKE u \in Session \ {s}
  <2>1. e.key # ReserveKey(u)
    BY <1>2 DEF ReserveKey
  <2> QED
    BY <1>3, <2>1 DEF SameReserve, findEntry
<1>5. \A u \in Session : SameSettle(L, L \cup w.entries, u)
  <2> TAKE u \in Session
  <2>1. e.key # SettleKey(u)
    BY <1>2 DEF ReserveKey, SettleKey
  <2> QED
    BY <1>3, <2>1 DEF SameSettle, findEntry
<1>6. ~Happened(L, ReserveKey(s)) /\ Happened(L \cup w.entries, ReserveKey(s))
  BY <1>2, <1>3 DEF Reserves, findEntry, Happened
<1> QED
  BY <1>4, <1>5, <1>6

(* A settlement removes one hold, that of its interview.                   *)
LEMMA SettleEffect ==
  ASSUME NEW L, NEW w, NEW s \in Session, Settles(w, L, s)
  PROVE  /\ \A u \in Session \ {s} : SameSettle(L, L \cup w.entries, u)
         /\ \A u \in Session : SameReserve(L, L \cup w.entries, u)
         /\ Happened(L, ReserveKey(s)) /\ ~Happened(L, SettleKey(s))
         /\ Happened(L \cup w.entries, SettleKey(s))
         /\ \E r \in findEntry(L, ReserveKey(s)), e \in w.entries :
              /\ findEntry(L \cup w.entries, SettleKey(s)) = {e}
              /\ e.type \in {"INTERVIEW_CONSUME", "INTERVIEW_REFUND"}
              /\ e.lot = r.lot
<1>1. PICK r \in findEntry(L, ReserveKey(s)) :
        \E type \in {"INTERVIEW_CONSUME", "INTERVIEW_REFUND"} :
          w.entries = {Entry(SettleKey(s), type, Returned(type), -1, r.lot)}
  BY DEF Settles
<1>2. PICK type \in {"INTERVIEW_CONSUME", "INTERVIEW_REFUND"} :
        w.entries = {Entry(SettleKey(s), type, Returned(type), -1, r.lot)}
  BY <1>1
<1> DEFINE e == Entry(SettleKey(s), type, Returned(type), -1, r.lot)
<1>3. e.key = SettleKey(s) /\ e.type = type /\ e.lot = r.lot
  BY DEF Entry
<1>4. w.entries = {e}
  BY <1>2
<1> HIDE DEF e
<1>5. findEntry(L, SettleKey(s)) = {}
  BY DEF Settles, Happened
<1>6. findEntry(L \cup w.entries, SettleKey(s)) = {e}
  BY <1>3, <1>4, <1>5 DEF findEntry
<1>7. \A u \in Session \ {s} : SameSettle(L, L \cup w.entries, u)
  <2> TAKE u \in Session \ {s}
  <2>1. e.key # SettleKey(u)
    BY <1>3 DEF SettleKey
  <2> QED
    BY <1>4, <2>1 DEF SameSettle, findEntry
<1>8. \A u \in Session : SameReserve(L, L \cup w.entries, u)
  <2> TAKE u \in Session
  <2>1. e.key # ReserveKey(u)
    BY <1>3 DEF ReserveKey, SettleKey
  <2> QED
    BY <1>4, <2>1 DEF SameReserve, findEntry
<1>9. /\ Happened(L, ReserveKey(s)) /\ ~Happened(L, SettleKey(s))
      /\ Happened(L \cup w.entries, SettleKey(s))
  BY <1>5, <1>6 DEF Happened
<1> QED
  BY <1>3, <1>4, <1>6, <1>7, <1>8, <1>9

(* A hold is counted up exactly by a reservation and down by a settlement. *)
LEMMA HoldCount ==
  ASSUME NEW a, NEW L, NEW w, SoundWrites(w, a, L), SettlesItsReserve(L)
  PROVE  Cardinality(ReservedIn(L \cup w.entries) \ SettledIn(L \cup w.entries))
           = Cardinality(ReservedIn(L) \ SettledIn(L)) + w.reserved
<1> DEFINE M == L \cup w.entries
           H(N) == ReservedIn(N) \ SettledIn(N)
<1>0. \A N : IsFiniteSet(H(N)) /\ Cardinality(H(N)) \in Nat
  <2> TAKE N
  <2>1. H(N) \subseteq Session
    BY DEF ReservedIn
  <2> HIDE DEF H
  <2> QED
    BY <2>1, CreditsAssumption, FS_Subset, FS_CardinalityType
<1>1. CASE Neutral(w)
  <2>1. \A s \in Session : SameReserve(L, M, s) /\ SameSettle(L, M, s)
    BY <1>1, NeutralEffect
  <2>2. ReservedIn(M) = ReservedIn(L) /\ SettledIn(M) = SettledIn(L)
    <3> HIDE DEF M
    <3> QED
      BY <2>1 DEF ReservedIn, SettledIn, Happened, SameReserve, SameSettle
  <2>3. H(M) = H(L) /\ w.reserved = 0
    BY <2>2, <1>1 DEF Neutral
  <2> HIDE DEF H, M
  <2>4. Cardinality(H(M)) = Cardinality(H(L)) + w.reserved
    BY <2>3, <1>0
  <2> QED
    BY <2>4 DEF H, M
<1>2. ASSUME NEW s \in Session, Reserves(w, L, s)
      PROVE  Cardinality(H(M)) = Cardinality(H(L)) + w.reserved
  <2>1. /\ \A u \in Session \ {s} : SameReserve(L, M, u)
        /\ \A u \in Session : SameSettle(L, M, u)
        /\ ~Happened(L, ReserveKey(s)) /\ Happened(M, ReserveKey(s))
    BY <1>2, ReserveEffect
  <2>2. s \notin ReservedIn(L) /\ w.reserved = 1
    BY <1>2, <2>1 DEF Reserves, ReservedIn
  <2>3. s \notin SettledIn(L)
    BY <2>1 DEF SettlesItsReserve, SettledIn, Happened
  <2>4. ReservedIn(M) = ReservedIn(L) \cup {s} /\ SettledIn(M) = SettledIn(L)
    <3> HIDE DEF M
    <3> QED
      BY <2>1 DEF ReservedIn, SettledIn, Happened, SameReserve, SameSettle
  <2>5. H(M) = H(L) \cup {s} /\ s \notin H(L)
    BY <2>2, <2>3, <2>4
  <2> HIDE DEF H, M
  <2> QED
    BY <1>0, <2>2, <2>5, FS_AddElement
<1>3. ASSUME NEW s \in Session, Settles(w, L, s)
      PROVE  Cardinality(H(M)) = Cardinality(H(L)) + w.reserved
  <2>1. /\ \A u \in Session \ {s} : SameSettle(L, M, u)
        /\ \A u \in Session : SameReserve(L, M, u)
        /\ Happened(L, ReserveKey(s)) /\ ~Happened(L, SettleKey(s))
        /\ Happened(M, SettleKey(s))
    BY <1>3, SettleEffect
  <2>2. s \notin SettledIn(L) /\ s \in ReservedIn(L) /\ w.reserved = -1
    BY <1>3, <2>1 DEF Settles, ReservedIn, SettledIn
  <2>3. ReservedIn(M) = ReservedIn(L) /\ SettledIn(M) = SettledIn(L) \cup {s}
    <3> HIDE DEF M
    <3> QED
      BY <2>1 DEF ReservedIn, SettledIn, Happened, SameReserve, SameSettle
  <2>4. H(M) = H(L) \ {s} /\ s \in H(L)
    BY <2>2, <2>3
  <2> HIDE DEF H, M
  <2>5. Cardinality(H(M)) = Cardinality(H(L)) - 1
    BY <1>0, <2>4, FS_RemoveElement
  <2> QED
    BY <2>2, <2>5, <1>0
<1> QED
  BY <1>1, <1>2, <1>3 DEF SoundWrites

(* A write of any of the three kinds keeps the ledger's shape.             *)
LEMMA ShapePreserved ==
  ASSUME NEW a, NEW L, NEW w, SoundWrites(w, a, L),
         UniqueKeys(L), SettlesItsReserve(L)
  PROVE  UniqueKeys(L \cup w.entries) /\ SettlesItsReserve(L \cup w.entries)
<1> DEFINE M == L \cup w.entries
<1>1. UniqueKeys(M)
  BY DEF SoundWrites, UniqueKeys, Happened, findEntry
<1>2. ASSUME \A s \in Session : SameSettle(L, M, s)
      PROVE  SettlesItsReserve(M)
  <2>1. \A s \in Session : findEntry(L, ReserveKey(s)) \subseteq findEntry(M, ReserveKey(s))
    BY DEF findEntry
  <2> HIDE DEF M
  <2> QED
    BY <1>2, <2>1 DEF SettlesItsReserve, SameSettle
<1>3. ASSUME Neutral(w)
      PROVE  SettlesItsReserve(M)
  BY <1>2, <1>3, NeutralEffect
<1>4. ASSUME NEW s \in Session, Reserves(w, L, s)
      PROVE  SettlesItsReserve(M)
  BY <1>2, <1>4, ReserveEffect
<1>5. ASSUME NEW s \in Session, Settles(w, L, s)
      PROVE  SettlesItsReserve(M)
  <2>1. /\ \A u \in Session \ {s} : SameSettle(L, M, u)
        /\ \A u \in Session : SameReserve(L, M, u)
    BY <1>5, SettleEffect
  <2>2. PICK r \in findEntry(L, ReserveKey(s)), e \in w.entries :
          /\ findEntry(M, SettleKey(s)) = {e}
          /\ e.type \in {"INTERVIEW_CONSUME", "INTERVIEW_REFUND"}
          /\ e.lot = r.lot
    BY <1>5, SettleEffect
  <2> HIDE DEF M
  <2>3. \A f \in findEntry(M, SettleKey(s)) :
          /\ f.type \in {"INTERVIEW_CONSUME", "INTERVIEW_REFUND"}
          /\ \E q \in findEntry(M, ReserveKey(s)) : q.lot = f.lot
    BY <2>1, <2>2 DEF SameReserve
  <2>4. ASSUME NEW u \in Session \ {s}, NEW f \in findEntry(M, SettleKey(u))
        PROVE  /\ f.type \in {"INTERVIEW_CONSUME", "INTERVIEW_REFUND"}
               /\ \E q \in findEntry(M, ReserveKey(u)) : q.lot = f.lot
    BY <2>1 DEF SettlesItsReserve, SameReserve, SameSettle
  <2> QED
    BY <2>3, <2>4 DEF SettlesItsReserve
<1> QED
  BY <1>1, <1>3, <1>4, <1>5 DEF SoundWrites

(* What an interview's entry adds to the use of its lot.                   *)
LEMMA UsedAdds ==
  ASSUME NEW L \in SUBSET LedgerEntry, NEW E \in SUBSET LedgerEntry,
         IsFiniteSet(L), IsFiniteSet(E), L \cap E = {}, NEW l \in Lot
  PROVE  /\ Used(L, l) \in Int /\ Used(E, l) \in Int
         /\ Used(L \cup E, l) = Used(L, l) + Used(E, l)
<1>1. /\ Booked(L \cup E, l) = Booked(L, l) \cup Booked(E, l)
      /\ Booked(L, l) \in SUBSET L /\ Booked(E, l) \in SUBSET E
  BY DEF Booked
<1>2. /\ OfLot(L \cup E, l) = OfLot(L, l) \cup OfLot(E, l)
      /\ OfLot(L, l) \in SUBSET L /\ OfLot(E, l) \in SUBSET E
  BY DEF OfLot
<1>3. \A A \in SUBSET L, B \in SUBSET E :
        /\ AmountSum(A) \in Int /\ AmountSum(B) \in Int
        /\ AmountSum(A \cup B) = AmountSum(A) + AmountSum(B)
  <2> TAKE A \in SUBSET L, B \in SUBSET E
  <2>1. /\ A \in SUBSET LedgerEntry /\ B \in SUBSET LedgerEntry
        /\ A \cap B = {} /\ B \cap A = {}
    OBVIOUS
  <2>2. IsFiniteSet(A) /\ IsFiniteSet(B)
    BY FS_Subset
  <2> QED
    BY <2>1, <2>2, EntriesAdd
<1>4. /\ AmountSum(Booked(L, l)) \in Int /\ AmountSum(Booked(E, l)) \in Int
      /\ AmountSum(Booked(L \cup E, l))
           = AmountSum(Booked(L, l)) + AmountSum(Booked(E, l))
  BY <1>1, <1>3
<1>5. /\ AmountSum(OfLot(L, l)) \in Int /\ AmountSum(OfLot(E, l)) \in Int
      /\ AmountSum(OfLot(L \cup E, l))
           = AmountSum(OfLot(L, l)) + AmountSum(OfLot(E, l))
  BY <1>2, <1>3
<1> QED
  BY <1>4, <1>5 DEF Used

LEMMA UsedOfOne ==
  ASSUME NEW e \in LedgerEntry, e.type \notin {"GRANT", "ADMIN_ADJUSTMENT"},
         NEW l \in Lot
  PROVE  Used({e}, l) = IF l = e.lot THEN -e.amount ELSE 0
<1>1. Booked({e}, l) = {} /\ OfLot({e}, l) = IF l = e.lot THEN {e} ELSE {}
  BY DEF Booked, OfLot
<1>2. e.amount \in Int
  BY DEF LedgerEntry
<1>3. /\ AmountSum(Booked({e}, l)) = 0
      /\ AmountSum(OfLot({e}, l)) = IF l = e.lot THEN e.amount ELSE 0
  BY <1>1, NoEntry, OneEntry
<1> QED
  BY <1>2, <1>3 DEF Used

(* A lot's use is counted up by a reservation that draws from it and down  *)
(* by its refund.                                                          *)
LEMMA UsePreserved ==
  ASSUME NEW a, NEW L, NEW w, SoundWrites(w, a, L), L \in SUBSET LedgerEntry,
         IsFiniteSet(L), UniqueKeys(L), SettlesItsReserve(L), UsedInv(L)
  PROVE  UsedInv(L \cup w.entries)
<1> DEFINE E == w.entries
           M == L \cup E
<1>1. /\ E \in SUBSET LedgerEntry /\ IsFiniteSet(E) /\ L \cap E = {}
      /\ UniqueKeys(M)
  BY DEF SoundWrites, WellTyped, Moves, Happened, findEntry, UniqueKeys
<1>2. \A l \in Lot : Used(M, l) = Cardinality(Using(L, l)) + Used(E, l)
                     /\ Used(E, l) \in Int
  <2> TAKE l \in Lot
  <2>1. Used(L, l) = Cardinality(Using(L, l))
    BY DEF UsedInv
  <2> HIDE DEF E
  <2>2. Used(L \cup E, l) = Used(L, l) + Used(E, l) /\ Used(E, l) \in Int
    BY <1>1, UsedAdds
  <2> QED
    BY <2>1, <2>2
<1>3. \A N, l : IsFiniteSet(Using(N, l)) /\ Cardinality(Using(N, l)) \in Nat
  <2> TAKE N, l
  <2>1. Using(N, l) \subseteq Session
    BY DEF Using
  <2> QED
    BY <2>1, CreditsAssumption, FS_Subset, FS_CardinalityType
<1> SUFFICES ASSUME NEW l \in Lot
             PROVE  Cardinality(Using(M, l)) = Cardinality(Using(L, l)) + Used(E, l)
  BY <1>2 DEF UsedInv
<1>4. CASE Neutral(w)
  <2>1. \A s \in Session : SameReserve(L, M, s) /\ SameSettle(L, M, s)
    BY <1>4, NeutralEffect
  <2>2. Using(M, l) = Using(L, l)
    <3> HIDE DEF M
    <3> QED
      BY <2>1 DEF Using, SameReserve, SameSettle
  <2>3. Booked(E, l) = OfLot(E, l)
    BY <1>4 DEF Booked, OfLot, Neutral
  <2>4. AmountSum(OfLot(E, l)) \in Int
    BY <1>1, FS_Subset, FS_EmptySet, EntriesAdd DEF OfLot
  <2>5. Used(E, l) = 0
    BY <2>3, <2>4 DEF Used
  <2> HIDE DEF E, M
  <2> QED
    BY <1>3, <2>2, <2>5
<1>5. ASSUME NEW s \in Session, Reserves(w, L, s)
      PROVE  Cardinality(Using(M, l)) = Cardinality(Using(L, l)) + Used(E, l)
  <2>1. /\ \A u \in Session \ {s} : SameReserve(L, M, u)
        /\ \A u \in Session : SameSettle(L, M, u)
        /\ ~Happened(L, ReserveKey(s))
    BY <1>5, ReserveEffect
  <2>2. PICK m \in Lot :
          E = {Entry(ReserveKey(s), "INTERVIEW_RESERVE", -1, 1, m)}
    BY <1>5 DEF Reserves
  <2> DEFINE e == Entry(ReserveKey(s), "INTERVIEW_RESERVE", -1, 1, m)
  <2>3. /\ E = {e} /\ e \in LedgerEntry /\ e.lot = m /\ e.amount = -1
        /\ e.type = "INTERVIEW_RESERVE" /\ e.key = ReserveKey(s)
    BY <1>1, <2>2 DEF Entry
  <2> HIDE DEF e
  <2>4. Used(E, l) = IF l = m THEN 1 ELSE 0
    BY <2>3, UsedOfOne
  <2>5. findEntry(M, ReserveKey(s)) = {e} /\ findEntry(L, ReserveKey(s)) = {}
    BY <2>1, <2>3 DEF findEntry, Happened
  <2>6. findEntry(M, SettleKey(s)) = {}
    BY <2>1, <2>5 DEF SettlesItsReserve, SameSettle
  <2> HIDE DEF E, M
  <2>7. s \notin Using(L, l)
    BY <2>5 DEF Using
  <2>8. CASE l = m
    <3>1. Using(M, l) = Using(L, l) \cup {s}
      BY <2>1, <2>3, <2>5, <2>6, <2>8 DEF Using, SameReserve, SameSettle
    <3> QED
      BY <1>3, <2>4, <2>7, <2>8, <3>1, FS_AddElement
  <2>9. CASE l # m
    <3>1. Using(M, l) = Using(L, l)
      BY <2>1, <2>3, <2>5, <2>9 DEF Using, SameReserve, SameSettle
    <3> QED
      BY <1>3, <2>4, <2>9, <3>1
  <2> QED
    BY <2>8, <2>9
<1>6. ASSUME NEW s \in Session, Settles(w, L, s)
      PROVE  Cardinality(Using(M, l)) = Cardinality(Using(L, l)) + Used(E, l)
  <2>1. /\ \A u \in Session \ {s} : SameSettle(L, M, u)
        /\ \A u \in Session : SameReserve(L, M, u)
        /\ ~Happened(L, SettleKey(s))
    BY <1>6, SettleEffect
  <2>2. PICK r \in findEntry(L, ReserveKey(s)) :
          \E type \in {"INTERVIEW_CONSUME", "INTERVIEW_REFUND"} :
            E = {Entry(SettleKey(s), type, Returned(type), -1, r.lot)}
    BY <1>6 DEF Settles
  <2>3. PICK type \in {"INTERVIEW_CONSUME", "INTERVIEW_REFUND"} :
          E = {Entry(SettleKey(s), type, Returned(type), -1, r.lot)}
    BY <2>2
  <2> DEFINE e == Entry(SettleKey(s), type, Returned(type), -1, r.lot)
  <2>4. /\ E = {e} /\ e \in LedgerEntry /\ e.lot = r.lot
        /\ e.amount = Returned(type) /\ e.type = type /\ e.key = SettleKey(s)
    BY <1>1, <2>3 DEF Entry
  <2> HIDE DEF e
  <2>5. Used(E, l) = IF l = r.lot THEN -Returned(type) ELSE 0
    BY <2>4, UsedOfOne
  <2>6. findEntry(L, SettleKey(s)) = {} /\ findEntry(M, SettleKey(s)) = {e}
    BY <2>1, <2>4 DEF findEntry, Happened
  <2>7. \A f \in findEntry(L, ReserveKey(s)) : f = r
    BY <2>2 DEF findEntry, UniqueKeys
  <2> HIDE DEF E, M
  <2>8. s \in Using(L, l) <=> l = r.lot
    BY <2>2, <2>6, <2>7 DEF Using
  <2>9. CASE type = "INTERVIEW_REFUND" /\ l = r.lot
    <3>1. Using(M, l) = Using(L, l) \ {s}
      BY <2>1, <2>4, <2>6, <2>9 DEF Using, SameReserve, SameSettle
    <3>2. Used(E, l) = -1
      BY <2>5, <2>9 DEF Returned
    <3>3. Cardinality(Using(M, l)) = Cardinality(Using(L, l)) - 1
      <4>1. s \in Using(L, l) /\ IsFiniteSet(Using(L, l))
        BY <1>3, <2>8, <2>9
      <4>2. Cardinality(Using(L, l) \ {s}) = Cardinality(Using(L, l)) - 1
        BY <4>1, FS_RemoveElement
      <4> QED
        BY <3>1, <4>2
    <3> QED
      BY <1>3, <3>2, <3>3
  <2>10. CASE ~(type = "INTERVIEW_REFUND" /\ l = r.lot)
    <3>1. s \in Using(M, l) <=> s \in Using(L, l)
      BY <2>1, <2>4, <2>6, <2>7, <2>8, <2>10 DEF Using, SameReserve
    <3>2. Using(M, l) = Using(L, l)
      BY <2>1, <3>1 DEF Using, SameReserve, SameSettle
    <3>3. Used(E, l) = 0
      <4>1. l = r.lot => Returned(type) = 0
        BY <2>10 DEF Returned
      <4> QED
        BY <2>5, <4>1
    <3> QED
      BY <1>3, <3>2, <3>3
  <2> QED
    BY <2>9, <2>10
<1> QED
  BY <1>4, <1>5, <1>6 DEF SoundWrites

(* What recomputeCreditAccount rebuilds, by name.                          *)
LEMMA Recomputed ==
  ASSUME NEW L
  PROVE  recomputeCreditAccount(L) =
           [balance |-> AmountSum(L), reserved |-> DeltaSum(L),
            remaining |-> Remaining(L)]
BY Zenon DEF recomputeCreditAccount, AmountSum, DeltaSum, Remaining, OfLot

(* The account goes on being what would be rebuilt from the ledger.        *)
LEMMA BookPreserved ==
  ASSUME NEW L \in SUBSET LedgerEntry, IsFiniteSet(L), NEW a,
         a = recomputeCreditAccount(L), NEW w, SoundWrites(w, a, L)
  PROVE  /\ IsFiniteSet(L \cup w.entries)
         /\ Applied(a, w) = recomputeCreditAccount(L \cup w.entries)
<1> DEFINE E == w.entries
           M == L \cup E
<1>1. E \in SUBSET LedgerEntry /\ IsFiniteSet(E) /\ L \cap E = {}
  BY DEF SoundWrites, WellTyped, Moves, Happened, findEntry
<1>2. /\ w.balance = AmountSum(E) /\ w.reserved = DeltaSum(E)
      /\ w.lots = Remaining(E)
  BY DEF SoundWrites, Moves
<1>3. /\ a.balance = AmountSum(L) /\ a.reserved = DeltaSum(L)
      /\ a.remaining = Remaining(L)
  BY Recomputed
<1>4. AmountSum(M) = AmountSum(L) + AmountSum(E) /\ DeltaSum(M) = DeltaSum(L) + DeltaSum(E)
  BY <1>1, EntriesAdd
<1>5. Remaining(M) = [l \in Lot |-> Remaining(L)[l] + Remaining(E)[l]]
  <2>1. ASSUME NEW l \in Lot
        PROVE  AmountSum(OfLot(M, l)) = Remaining(L)[l] + Remaining(E)[l]
    <3>1. OfLot(M, l) = OfLot(L, l) \cup OfLot(E, l) /\ OfLot(L, l) \cap OfLot(E, l) = {}
      BY <1>1 DEF OfLot
    <3> HIDE DEF E, M
    <3>2. /\ OfLot(L, l) \in SUBSET LedgerEntry /\ IsFiniteSet(OfLot(L, l))
          /\ OfLot(E, l) \in SUBSET LedgerEntry /\ IsFiniteSet(OfLot(E, l))
          /\ Remaining(L)[l] = AmountSum(OfLot(L, l))
          /\ Remaining(E)[l] = AmountSum(OfLot(E, l))
      BY <1>1, OfLotTyped
    <3> QED
      BY <3>1, <3>2, EntriesAdd
  <2> HIDE DEF M
  <2> QED
    BY <2>1 DEF Remaining
<1>6. IsFiniteSet(M)
  BY <1>1, FS_Union
<1> HIDE DEF E, M
<1>7. Applied(a, w) = recomputeCreditAccount(M)
  BY <1>2, <1>3, <1>4, <1>5, Recomputed DEF Applied
<1> QED
  BY <1>6, <1>7 DEF E, M

-------------------------------------------------------------------------------
(* The invariant is inductive.                                             *)

LEMMA NoTransactionTyped ==
  NoTransaction \in Transaction /\ EmptyAccount \in Account
<1>1. (CHOOSE r \in Request : TRUE) \in Request
  BY LedgerAssumption
<1>2. EmptyAccount \in Account
  BY DEF EmptyAccount, Account, NoLots
<1> QED
  BY <1>1, <1>2, LedgerAssumption DEF NoTransaction, Transaction, Phase

(* The invariant holds initially.                                          *)
LEMMA InitIInv == Init => IInv
<1> SUFFICES ASSUME Init PROVE IInv
  OBVIOUS
<1>1. TypeOK
  BY NoTransactionTyped, LedgerAssumption DEF Init, TypeOK
<1>2. SnapshotInv
  BY DEF Init, SnapshotInv, NoTransaction
<1>3. ShapeInv
  BY DEF Init, ShapeInv, UniqueKeys, SettlesItsReserve, FirstOfWithdrawal,
     Happened, findEntry
<1>4. LotsInv
  BY DEF Init, LotsInv, EmptyAccount, NoLots
<1>5. HeldByInterviews
  <2>1. Reserved \ Settled = {} /\ account.reserved = 0
    BY DEF Init, Reserved, Happened, findEntry, EmptyAccount
  <2> QED
    BY <2>1, FS_EmptySet DEF HeldByInterviews
<1>6. BookInv
  <2>1. EmptyAccount = recomputeCreditAccount({})
    <3>1. \A l \in Lot : OfLot({}, l) = {}
      BY DEF OfLot
    <3>2. Remaining({}) = NoLots
      BY <3>1, NoEntry DEF Remaining, NoLots
    <3> QED
      BY <3>2, NoEntry, Recomputed DEF EmptyAccount
  <2>2. ASSUME NEW l \in Lot
        PROVE  Used({}, l) = Cardinality(Using({}, l))
    <3>1. Booked({}, l) = {} /\ OfLot({}, l) = {} /\ Using({}, l) = {}
      BY DEF Booked, OfLot, Using, findEntry
    <3> QED
      BY <3>1, NoEntry, FS_EmptySet DEF Used
  <2> QED
    BY <2>1, <2>2, FS_EmptySet DEF Init, BookInv, UsedInv
<1> QED
  BY <1>1, <1>2, <1>3, <1>4, <1>5, <1>6 DEF IInv

(* A transaction that may commit decides from the stored documents.        *)
LEMMA DecisionSound ==
  ASSUME IInv, NEW p \in Process, tx[p].phase = "LOCKED",
         NEW w \in Decision(tx[p])
  PROVE  SoundWrites(w, account, ledger)
<1> DEFINE t == tx[p]
<1>1. /\ t.account = account /\ t.ledger = ledger
      /\ t \in Transaction /\ t.req \in RequestType
  BY LedgerAssumption DEF IInv, TypeOK, SnapshotInv, Transaction
<1>2. GoodBook(account, ledger)
  BY DEF IInv, TypeOK, ShapeInv, LotsInv, GoodBook
<1>3. /\ t.req.op \in Operation /\ t.req.session \in Session /\ t.req.lot \in Lot
      /\ t.req.key \in Withdrawal /\ t.req.outcome \in {"CONSUME", "REFUND"}
      /\ t.req.n \in Nat
  BY <1>1 DEF RequestType
<1>4. CASE t.req.op = "GRANT"
  BY <1>1, <1>2, <1>3, <1>4, GrantSound DEF Decision
<1>5. CASE t.req.op = "RESERVE"
  BY <1>1, <1>2, <1>3, <1>5, ReserveSound DEF Decision
<1>6. CASE t.req.op = "SETTLE"
  BY <1>1, <1>2, <1>3, <1>6, SettleSound DEF Decision
<1>7. CASE t.req.op = "REVOKE"
  BY <1>1, <1>2, <1>3, <1>7, RevokeSound DEF Decision
<1>8. CASE t.req.op = "DEDUCT"
  BY <1>1, <1>2, <1>3, <1>8, DeductSound DEF Decision
<1> QED
  BY <1>3, <1>4, <1>5, <1>6, <1>7, <1>8 DEF Operation

(* A transaction that commits preserves the invariant.                     *)
LEMMA CommitPreserves ==
  ASSUME IInv, NEW p \in Process, Commit(p)
  PROVE  IInv'
<1>1. PICK w \in Decision(tx[p]) :
        account' = Applied(account, w) /\ ledger' = ledger \cup w.entries
  BY DEF Commit
<1>2. SoundWrites(w, account, ledger)
  BY <1>1, DecisionSound DEF Commit
<1>3. TypeOK'
  <2>1. account' \in Account
    BY <1>1, <1>2 DEF Applied, SoundWrites, WellTyped, Account, IInv, TypeOK
  <2>2. ledger' \subseteq LedgerEntry
    BY <1>1, <1>2 DEF SoundWrites, WellTyped, IInv, TypeOK
  <2>3. tx' \in [Process -> Transaction]
    BY NoTransactionTyped DEF Commit, Committed, IInv, TypeOK, Transaction
  <2> QED
    BY <2>1, <2>2, <2>3 DEF TypeOK, Commit, IInv
<1>4. SnapshotInv'
  <2>1. \A q \in Process : tx'[q].phase # "LOCKED"
    BY DEF Commit, Committed, NoTransaction, IInv, SnapshotInv, TypeOK, Transaction
  <2>2. \A q \in Process : ~(tx'[q].phase # "IDLE" /\ tx'[q].fresh)
    BY DEF Commit, Committed, NoTransaction, IInv, TypeOK, Transaction
  <2> QED
    BY <2>1, <2>2 DEF SnapshotInv
<1>5. ShapeInv'
  <2>1. UniqueKeys(ledger \cup w.entries) /\ SettlesItsReserve(ledger \cup w.entries)
    BY <1>2, ShapePreserved DEF IInv, ShapeInv
  <2> QED
    BY <1>1, <1>2, <2>1 DEF ShapeInv, SoundWrites
<1>6. LotsInv'
  BY <1>1, <1>2 DEF LotsInv, Applied, SoundWrites
<1>7. HeldByInterviews'
  <2>1. Cardinality(ReservedIn(ledger') \ SettledIn(ledger'))
          = Cardinality(ReservedIn(ledger) \ SettledIn(ledger)) + w.reserved
    BY <1>1, <1>2, HoldCount DEF IInv, ShapeInv
  <2>2. account'.reserved = account.reserved + w.reserved
    BY <1>1 DEF Applied
  <2> QED
    BY <2>1, <2>2 DEF IInv, HeldByInterviews, Reserved, Settled, ReservedIn, SettledIn
<1>8. BookInv'
  <2>1. /\ ledger \in SUBSET LedgerEntry /\ UniqueKeys(ledger)
        /\ SettlesItsReserve(ledger) /\ IsFiniteSet(ledger)
        /\ account = recomputeCreditAccount(ledger) /\ UsedInv(ledger)
    BY DEF IInv, TypeOK, ShapeInv, BookInv
  <2>2. UsedInv(ledger \cup w.entries)
    BY <1>2, <2>1, UsePreserved
  <2>3. /\ IsFiniteSet(ledger \cup w.entries)
        /\ Applied(account, w) = recomputeCreditAccount(ledger \cup w.entries)
    BY <1>2, <2>1, BookPreserved
  <2> QED
    BY <1>1, <2>2, <2>3 DEF BookInv
<1> QED
  BY <1>3, <1>4, <1>5, <1>6, <1>7, <1>8 DEF IInv

(* A step that only opens, advances or drops a transaction.                *)
LEMMA TransactionPreserves ==
  ASSUME IInv, NEW p \in Process, UNCHANGED <<account, ledger, today>>,
         NEW t \in Transaction, tx' = [tx EXCEPT ![p] = t],
         t.phase = "LOCKED" => t.fresh /\ \A q \in Process : tx[q].phase # "LOCKED",
         t.phase # "IDLE" /\ t.fresh => t.account = account /\ t.ledger = ledger
  PROVE  IInv'
<1>1. TypeOK'
  BY DEF IInv, TypeOK
<1>2. SnapshotInv'
  BY DEF IInv, TypeOK, SnapshotInv
<1>3. ShapeInv' /\ LotsInv' /\ HeldByInterviews' /\ BookInv'
  BY DEF IInv, ShapeInv, LotsInv, HeldByInterviews, Reserved, Settled, BookInv
<1> QED
  BY <1>1, <1>2, <1>3 DEF IInv

(* Every step preserves the invariant.                                     *)
LEMMA NextIInv == IInv /\ [Next]_vars => IInv'
<1> SUFFICES ASSUME IInv, [Next]_vars PROVE IInv'
  OBVIOUS
<1>1. ASSUME NEW p \in Process, Begin(p) PROVE IInv'
  <2>1. PICK req \in Request : tx' = [tx EXCEPT ![p] = Snapshot(req, today)]
    BY <1>1 DEF Begin
  <2>2. Snapshot(req, today) \in Transaction
    BY DEF Snapshot, Transaction, Phase, IInv, TypeOK
  <2> QED
    BY <1>1, <2>1, <2>2, TransactionPreserves DEF Begin, Snapshot
<1>2. ASSUME NEW p \in Process, ReturnFound(p) \/ Abort(p) PROVE IInv'
  BY <1>2, NoTransactionTyped, TransactionPreserves
     DEF ReturnFound, Abort, NoTransaction
<1>3. ASSUME NEW p \in Process, loadAccount(p) PROVE IInv'
  <2> DEFINE t == [tx[p] EXCEPT !.phase = "LOCKED"]
  <2>1. t \in Transaction /\ tx' = [tx EXCEPT ![p] = t]
    BY <1>3 DEF loadAccount, IInv, TypeOK, Transaction, Phase
  <2>2. t.fresh /\ t.account = account /\ t.ledger = ledger
    BY <1>3 DEF loadAccount, CanLock, IInv, TypeOK, SnapshotInv, Transaction
  <2>3. \A q \in Process : tx[q].phase # "LOCKED"
    BY <1>3 DEF loadAccount, CanLock
  <2> HIDE DEF t
  <2> QED
    BY <1>3, <2>1, <2>2, <2>3, TransactionPreserves DEF loadAccount
<1>4. ASSUME NEW p \in Process, Conflict(p) PROVE IInv'
  <2>1. Snapshot(tx[p].req, tx[p].now) \in Transaction
    BY DEF Snapshot, Transaction, Phase, IInv, TypeOK
  <2> QED
    BY <1>4, <2>1, TransactionPreserves DEF Conflict, Snapshot
<1>5. ASSUME NEW p \in Process, Commit(p) PROVE IInv'
  BY <1>5, CommitPreserves
<1>6. CASE NextDay
  BY <1>6, LedgerAssumption
     DEF NextDay, IInv, TypeOK, SnapshotInv, ShapeInv, LotsInv, HeldByInterviews,
         Reserved, Settled, BookInv
<1>7. CASE UNCHANGED vars
  BY <1>7 DEF vars, IInv, TypeOK, SnapshotInv, ShapeInv, LotsInv,
     HeldByInterviews, Reserved, Settled, BookInv
<1> QED
  BY <1>1, <1>2, <1>3, <1>4, <1>5, <1>6, <1>7 DEF Next

(* In every reachable state of any number of concurrent transactions the   *)
(* inductive invariant holds (packages/db/src/credits.ts).                 *)
THEOREM InductiveInvariant == Spec => []IInv
<1> QED
  BY InitIInv, NextIInv, PTL DEF Spec

-------------------------------------------------------------------------------

(* Every document and transaction always has its type.                     *)
THEOREM TypeCorrect == Spec => []TypeOK
<1>1. IInv => TypeOK
  BY DEF IInv
<1> QED
  BY <1>1, InductiveInvariant, PTL

(* However many API and worker processes reserve, settle, withdraw and     *)
(* deduct at the same time, no lot and no hold goes below zero: the write  *)
(* lock of loadAccount makes the snapshot a decision is taken from equal   *)
(* to the documents it is applied to.                                      *)
THEOREM NeverOverdrawn == Spec => []NoOverdraft
<1>1. IInv => NoOverdraft
  <2> SUFFICES ASSUME IInv PROVE NoOverdraft
    OBVIOUS
  <2>1. Reserved \ Settled \subseteq Session
    BY DEF Reserved
  <2>2. Cardinality(Reserved \ Settled) \in Nat
    BY <2>1, CreditsAssumption, FS_Subset, FS_CardinalityType
  <2>3. account.reserved >= 0
    BY <2>2 DEF IInv, HeldByInterviews
  <2> QED
    BY <2>3 DEF IInv, LotsInv, NoOverdraft
<1> QED
  BY <1>1, InductiveInvariant, PTL

(* The credits counted as reserved are always those of the interviews that *)
(* reserved one and have not settled it: no hold leaks, none is returned   *)
(* twice.                                                                  *)
THEOREM HoldsAreInterviews == Spec => []HeldByInterviews
<1>1. IInv => HeldByInterviews
  BY DEF IInv
<1> QED
  BY <1>1, InductiveInvariant, PTL

(* A business event is never recorded twice, and a refund or consumption   *)
(* always concerns the lot the interview's credit was drawn from.          *)
THEOREM LedgerAlwaysConsistent == Spec => []LedgerConsistent
<1>1. IInv => LedgerConsistent
  BY DEF IInv, ShapeInv, LedgerConsistent, UniqueKeys, SettlesItsReserve, Settled
<1> QED
  BY <1>1, InductiveInvariant, PTL

(* Whatever transactions run concurrently, the account's $inc projection   *)
(* is what recomputeCreditAccount would rebuild from the ledger, its       *)
(* balance is what is left in the lots, and a lot's reported use is the    *)
(* number of interviews that drew from it and were not refunded.           *)
THEOREM ProjectionAlwaysExact == Spec => []Projection
<1>1. IInv => Projection
  <2> SUFFICES ASSUME IInv PROVE Projection
    OBVIOUS
  <2>1. /\ ledger \in SUBSET LedgerEntry /\ IsFiniteSet(ledger)
        /\ account = recomputeCreditAccount(ledger) /\ UsedInv(ledger)
    BY DEF IInv, TypeOK, BookInv
  <2>2. account.balance = AmountSum(ledger) /\ account.remaining = Remaining(ledger)
    BY <2>1, Recomputed
  <2>3. account.balance = Total(account.remaining, Lot)
    BY <2>1, <2>2, SumByLot
  <2>4. ASSUME NEW l \in Lot
        PROVE  lotUsed(account, ledger, l) = Cardinality(Using(ledger, l))
    <3>1. account.remaining[l] = AmountSum(OfLot(ledger, l))
      BY <2>2 DEF Remaining
    <3>2. lotUsed(account, ledger, l) = AmountSum(Booked(ledger, l)) - account.remaining[l]
      BY Zenon DEF lotUsed, AmountSum, Booked
    <3> QED
      BY <2>1, <3>1, <3>2 DEF UsedInv, Used
  <2> QED
    BY <2>1, <2>3, <2>4 DEF Projection, Using
<1> QED
  BY <1>1, InductiveInvariant, PTL

-------------------------------------------------------------------------------
(* The ledger implements CreditHold.                                       *)

HoldIn(L) ==
  [s \in Session |->
     IF Happened(L, SettleKey(s))
     THEN IF \E e \in findEntry(L, SettleKey(s)) : e.type = "INTERVIEW_CONSUME"
          THEN "CONSUMED" ELSE "REFUNDED"
     ELSE IF Happened(L, ReserveKey(s)) THEN "RESERVED" ELSE "NONE"]

(* What CreditHold sees of an interview depends on two entries only.       *)
LEMMA HoldOf ==
  ASSUME NEW L, NEW s \in Session
  PROVE  HoldIn(L)[s] \in
           IF Happened(L, SettleKey(s)) THEN {"CONSUMED", "REFUNDED"}
           ELSE IF Happened(L, ReserveKey(s)) THEN {"RESERVED"} ELSE {"NONE"}
BY DEF HoldIn

(* A ledger with the same two entries shows the same hold.                 *)
LEMMA SameHold ==
  ASSUME NEW L, NEW M, NEW s \in Session, SameReserve(L, M, s), SameSettle(L, M, s)
  PROVE  HoldIn(M)[s] = HoldIn(L)[s]
BY DEF HoldIn, SameReserve, SameSettle, Happened

(* A commit is a step of CreditHold, or stutters.                          *)
LEMMA CommitImplements ==
  ASSUME IInv, NEW p \in Process, Commit(p)
  PROVE  Promise!HNext \/ UNCHANGED LedgerHold
<1> DEFINE h == HoldIn(ledger)
           g == HoldIn(ledger')
<1>1. PICK w \in Decision(tx[p]) : ledger' = ledger \cup w.entries
  BY DEF Commit
<1>2. SoundWrites(w, account, ledger)
  BY DecisionSound DEF Commit
<1>3. LedgerHold = h /\ LedgerHold' = g
  BY DEF LedgerHold, HoldIn
<1>4. h = [u \in Session |-> h[u]] /\ g = [u \in Session |-> g[u]]
  BY DEF HoldIn
<1>5. CASE Neutral(w)
  <2>1. \A u \in Session : SameReserve(ledger, ledger', u) /\ SameSettle(ledger, ledger', u)
    BY <1>1, <1>5, NeutralEffect
  <2>2. \A u \in Session : g[u] = h[u]
    BY <2>1, SameHold
  <2> HIDE DEF g, h
  <2> QED
    BY <1>3, <1>4, <2>2
<1>6. ASSUME NEW s \in Session, Reserves(w, ledger, s)
      PROVE  Promise!HNext
  <2>1. /\ \A u \in Session \ {s} : SameReserve(ledger, ledger', u)
        /\ \A u \in Session : SameSettle(ledger, ledger', u)
        /\ ~Happened(ledger, ReserveKey(s)) /\ Happened(ledger', ReserveKey(s))
    BY <1>1, <1>6, ReserveEffect
  <2>2. ~Happened(ledger, SettleKey(s))
    BY <2>1 DEF IInv, ShapeInv, SettlesItsReserve, Happened
  <2>3. ~Happened(ledger', SettleKey(s))
    BY <2>1, <2>2 DEF SameSettle, Happened
  <2>4. h[s] = "NONE" /\ g[s] = "RESERVED"
    BY <2>1, <2>2, <2>3, HoldOf
  <2>5. \A u \in Session \ {s} : g[u] = h[u]
    BY <2>1, SameHold
  <2> HIDE DEF g, h
  <2>6. g = [h EXCEPT ![s] = "RESERVED"]
    BY <1>4, <2>4, <2>5
  <2>7. Promise!HReserve(s)
    BY <1>3, <2>4, <2>6 DEF Promise!HReserve
  <2> QED
    BY <2>7 DEF Promise!HNext
<1>7. ASSUME NEW s \in Session, Settles(w, ledger, s)
      PROVE  Promise!HNext
  <2>1. /\ \A u \in Session \ {s} : SameSettle(ledger, ledger', u)
        /\ \A u \in Session : SameReserve(ledger, ledger', u)
        /\ Happened(ledger, ReserveKey(s)) /\ ~Happened(ledger, SettleKey(s))
        /\ Happened(ledger', SettleKey(s))
    BY <1>1, <1>7, SettleEffect
  <2>3. h[s] = "RESERVED" /\ g[s] \in {"CONSUMED", "REFUNDED"}
    BY <2>1, HoldOf
  <2>4. \A u \in Session \ {s} : g[u] = h[u]
    BY <2>1, SameHold
  <2> HIDE DEF g, h
  <2>5. g = [h EXCEPT ![s] = g[s]]
    BY <1>4, <2>4
  <2>6. Promise!HSettle(s)
    BY <1>3, <2>3, <2>5 DEF Promise!HSettle
  <2> QED
    BY <2>6 DEF Promise!HNext
<1> QED
  BY <1>2, <1>5, <1>6, <1>7 DEF SoundWrites

(* Under every interleaving of transactions the ledger keeps the promise   *)
(* of CreditHold: one reservation per interview at most, settled at most   *)
(* once, never before it is reserved.                                      *)
THEOREM KeepsPromise == Spec => PromiseKept
<1>1. Init => Promise!HInit
  BY DEF Init, Promise!HInit, LedgerHold, findEntry, Happened
<1>2. IInv /\ [Next]_vars => [Promise!HNext]_LedgerHold
  <2> SUFFICES ASSUME IInv, [Next]_vars
               PROVE  Promise!HNext \/ UNCHANGED LedgerHold
    OBVIOUS
  <2>1. CASE ledger' = ledger
    BY <2>1 DEF LedgerHold
  <2>2. CASE ledger' # ledger
    <3>1. PICK p \in Process : Commit(p)
      BY <2>2 DEF Next, Begin, ReturnFound, loadAccount, Conflict, Abort, NextDay, vars
    <3> QED
      BY <3>1, CommitImplements
  <2> QED
    BY <2>1, <2>2
<1> QED
  BY <1>1, <1>2, InductiveInvariant, PTL DEF Spec, PromiseKept, Promise!HSpec

-------------------------------------------------------------------------------
(* The choice of a lot.                                                    *)

(* Only a reservation writes reservation entries, and it picks their lot   *)
(* from the account it has read.                                           *)
LEMMA ReservationsPick ==
  ASSUME NEW t \in Transaction, NEW w \in Decision(t),
         NEW e \in w.entries, e.type = "INTERVIEW_RESERVE"
  PROVE  /\ t.req.op = "RESERVE"
         /\ e.key = ReserveKey(t.req.session)
         /\ e.lot \in pickLot(t.account, t.now)
<1>1. t.req.op \in Operation
  BY LedgerAssumption DEF Transaction, RequestType
<1>2. CASE t.req.op = "GRANT"
  BY <1>2 DEF Decision, grantCredits, NoWrites, Writes, Entry
<1>3. CASE t.req.op = "SETTLE"
  BY <1>3 DEF Decision, settleCredit, SettleWrites, NoWrites, Writes, Entry
<1>4. CASE t.req.op = "REVOKE"
  BY <1>4 DEF Decision, revokeLotCredits, NoWrites, Writes, Entry
<1>5. CASE t.req.op = "DEDUCT"
  BY <1>5 DEF Decision, deductCredits, NoWrites, Writes, Entry
<1>6. CASE t.req.op = "RESERVE"
  BY <1>6 DEF Decision, reserveCredit, NoWrites, Writes, Entry
<1> QED
  BY <1>1, <1>2, <1>3, <1>4, <1>5, <1>6 DEF Operation

(* Whatever was granted, taken or given back while a reservation waited    *)
(* for the account, the lot it draws from is usable and the earliest to    *)
(* expire in the account it commits to (credits.ts, reserveCredit).        *)
THEOREM AlwaysEarliestExpiring == Spec => EarliestExpiringFirst
<1> DEFINE A ==
      \A e \in ledger' \ ledger : e.type = "INTERVIEW_RESERVE" =>
        \E p \in Process :
          /\ tx[p].phase = "LOCKED"
          /\ tx[p].req.op = "RESERVE"
          /\ e.key = ReserveKey(tx[p].req.session)
          /\ e.lot \in pickLot(account, tx[p].now)
<1>1. IInv /\ [Next]_vars => [A]_vars
  <2> SUFFICES ASSUME IInv, [Next]_vars,
                      NEW e \in ledger' \ ledger, e.type = "INTERVIEW_RESERVE"
               PROVE  \E p \in Process :
                        /\ tx[p].phase = "LOCKED"
                        /\ tx[p].req.op = "RESERVE"
                        /\ e.key = ReserveKey(tx[p].req.session)
                        /\ e.lot \in pickLot(account, tx[p].now)
    OBVIOUS
  <2>1. PICK p \in Process : Commit(p)
    BY DEF Next, Begin, ReturnFound, loadAccount, Conflict, Abort, NextDay, vars
  <2>2. PICK w \in Decision(tx[p]) : ledger' = ledger \cup w.entries
    BY <2>1 DEF Commit
  <2>3. /\ tx[p].phase = "LOCKED" /\ tx[p] \in Transaction
        /\ tx[p].account = account
    BY <2>1 DEF Commit, IInv, TypeOK, SnapshotInv
  <2>4. e \in w.entries
    BY <2>2
  <2> QED
    BY <2>2, <2>3, <2>4, ReservationsPick
<1>2. [][A]_vars => EarliestExpiringFirst
  BY DEF EarliestExpiringFirst
<1> QED
  BY <1>1, <1>2, InductiveInvariant, PTL DEF Spec

===============================================================================
