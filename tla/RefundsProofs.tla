---------------------------- MODULE RefundsProofs ----------------------------
(***************************************************************************)
(* Theorems about Refunds, for any amount, any number of admins, requests, *)
(* refunds and faults: the types, that the books balance whatever goes     *)
(* wrong (BooksInv), and that in an ordinary execution each refund of the  *)
(* gateway is applied once and no claim is released that the gateway has   *)
(* (OrdinaryInv).                                                          *)
(***************************************************************************)
EXTENDS Refunds, SequenceTheorems, FiniteSetTheorems, WellFoundedInduction, TLAPS

-------------------------------------------------------------------------------
(* Sums.  Induction over the subsets of a finite set is stated with a set  *)
(* of those for which the claim holds.                                     *)

LEMMA SubsetInduction ==
  ASSUME NEW S, IsFiniteSet(S), NEW Good,
         \A s \in SUBSET S : (\A t \in SUBSET s : t # s => t \in Good) => s \in Good
  PROVE  \A s \in SUBSET S : s \in Good
<1> DEFINE Bad == {s \in SUBSET S : s \notin Good}
<1> SUFFICES ASSUME Bad # {} PROVE FALSE
  OBVIOUS
<1>1. Bad \subseteq FiniteSubsetsOf(S)
  BY FS_FiniteSubsetsOfFinite
<1>2. PICK s \in Bad : \A t \in Bad : <<t, s>> \notin StrictSubsetOrdering(S)
  <2> HIDE DEF Bad
  <2> QED BY <1>1, FS_StrictSubsetOrderingWellFounded, WFMin
<1>3. \A t \in SUBSET s : t # s => t \in Good
  BY <1>2 DEF StrictSubsetOrdering
<1> QED BY <1>2, <1>3

(* The recursive function that a sum over D is taken from.                 *)
Pick(s) == CHOOSE x \in s : TRUE

IsTotal(f, D, g) ==
  g = [s \in SUBSET D |-> IF s = {} THEN 0 ELSE f[Pick(s)] + g[s \ {Pick(s)}]]

LEMMA TotalIs ==
  ASSUME NEW f, NEW S
  PROVE  Total(f, S) = (CHOOSE g : IsTotal(f, S, g))[S]
BY Zenon DEF Total, FoldFunctionOnSet, MapThenFoldSet, IsTotal, Pick

LEMMA TotalUnique ==
  ASSUME NEW f, NEW D, IsFiniteSet(D), NEW E, NEW g, NEW h,
         IsTotal(f, D, g), IsTotal(f, E, h)
  PROVE  \A s \in SUBSET (D \cap E) : g[s] = h[s]
<1> DEFINE Good == {s \in SUBSET (D \cap E) : g[s] = h[s]}
<1>1. IsFiniteSet(D \cap E)
  BY FS_Subset
<1>2. ASSUME NEW s \in SUBSET (D \cap E), \A t \in SUBSET s : t # s => t \in Good
      PROVE  s \in Good
  <2>1. CASE s = {}
    BY <2>1 DEF IsTotal
  <2>2. CASE s # {}
    <3>1. Pick(s) \in s
      BY <2>2 DEF Pick
    <3>2. g[s \ {Pick(s)}] = h[s \ {Pick(s)}]
      BY <1>2, <3>1
    <3>3. g[s] = f[Pick(s)] + g[s \ {Pick(s)}]
      BY <2>2 DEF IsTotal
    <3>4. h[s] = f[Pick(s)] + h[s \ {Pick(s)}]
      BY <2>2 DEF IsTotal
    <3> QED BY <3>2, <3>3, <3>4
  <2> QED BY <2>1, <2>2
<1>3. \A s \in SUBSET (D \cap E) : s \in Good
  <2> HIDE DEF Good
  <2> QED BY <1>1, <1>2, SubsetInduction
<1> QED BY <1>3

LEMMA TotalExists ==
  ASSUME NEW f, NEW S, IsFiniteSet(S)
  PROVE  \A s \in SUBSET S : IsTotal(f, s, CHOOSE g : IsTotal(f, s, g))
<1> DEFINE G(s) == CHOOSE g : IsTotal(f, s, g)
           Good == {s \in SUBSET S : IsTotal(f, s, G(s))}
<1>1. ASSUME NEW s \in SUBSET S, \A t \in SUBSET s : t # s => t \in Good
      PROVE  s \in Good
  <2> DEFINE V(t) == G(t)[t]
             h == [t \in SUBSET s |-> IF t = {} THEN 0 ELSE f[Pick(t)] + V(t \ {Pick(t)})]
  <2>1. ASSUME NEW t \in SUBSET s, t # s
        PROVE  h[t] = V(t)
    <3>1. IsTotal(f, t, G(t))
      BY <1>1, <2>1
    <3>2. CASE t = {}
      BY <3>1, <3>2 DEF IsTotal
    <3>3. CASE t # {}
      <4> DEFINE u == t \ {Pick(t)}
      <4>1. Pick(t) \in t
        BY <3>3 DEF Pick
      <4>2. u \in SUBSET s /\ u # s /\ u \in SUBSET t
        BY <4>1
      <4>3. IsTotal(f, u, G(u)) /\ IsFiniteSet(t)
        BY <4>2, <1>1, FS_Subset
      <4>4. u \in SUBSET (t \cap u)
        BY <4>2
      <4>5. G(t)[u] = G(u)[u]
        <5> HIDE DEF G, u
        <5> QED BY <3>1, <4>3, <4>4, TotalUnique
      <4>6. V(t) = f[Pick(t)] + G(t)[u]
        BY <3>1, <3>3 DEF IsTotal
      <4> QED BY <3>3, <4>5, <4>6
    <3> QED BY <3>2, <3>3
  <2>2. IsTotal(f, s, h)
    <3>1. ASSUME NEW t \in SUBSET s, t # {}
          PROVE  V(t \ {Pick(t)}) = h[t \ {Pick(t)}]
      <4>1. Pick(t) \in t
        BY <3>1 DEF Pick
      <4>2. t \ {Pick(t)} \in SUBSET s /\ t \ {Pick(t)} # s
        BY <4>1
      <4> HIDE DEF h, V
      <4> QED BY <4>2, <2>1
    <3>2. h = [t \in SUBSET s |-> IF t = {} THEN 0 ELSE f[Pick(t)] + h[t \ {Pick(t)}]]
      <4> HIDE DEF V
      <4> QED BY <3>1
    <3> HIDE DEF h
    <3> QED BY <3>2 DEF IsTotal
  <2>3. IsTotal(f, s, G(s))
    <3> HIDE DEF h
    <3> QED BY <2>2
  <2> QED BY <2>3
<1>2. \A s \in SUBSET S : s \in Good
  <2> HIDE DEF Good
  <2> QED BY <1>1, SubsetInduction
<1> QED BY <1>2

LEMMA TotalUnfolds ==
  ASSUME NEW f, NEW S, IsFiniteSet(S)
  PROVE  Total(f, S) = IF S = {} THEN 0 ELSE f[Pick(S)] + Total(f, S \ {Pick(S)})
<1> DEFINE G(s) == CHOOSE g : IsTotal(f, s, g)
           T == S \ {Pick(S)}
<1>1. IsTotal(f, S, G(S)) /\ IsTotal(f, T, G(T))
  BY TotalExists
<1>2. Total(f, S) = G(S)[S] /\ Total(f, T) = G(T)[T]
  BY TotalIs
<1>3. G(S)[T] = G(T)[T]
  <2> T \in SUBSET (S \cap T)
    OBVIOUS
  <2> HIDE DEF G, T
  <2> QED BY <1>1, TotalUnique
<1>4. G(S)[S] = IF S = {} THEN 0 ELSE f[Pick(S)] + G(S)[T]
  BY <1>1 DEF IsTotal
<1> QED BY <1>2, <1>3, <1>4

LEMMA TotalRemove ==
  ASSUME NEW f, NEW S, IsFiniteSet(S), \A x \in S : f[x] \in Int
  PROVE  /\ Total(f, {}) = 0
         /\ Total(f, S) \in Int
         /\ \A x \in S : Total(f, S) = f[x] + Total(f, S \ {x})
<1> DEFINE Good == {s \in SUBSET S :
                      /\ Total(f, s) \in Int
                      /\ \A x \in s : Total(f, s) = f[x] + Total(f, s \ {x})}
<1>1. Total(f, {}) = 0
  BY TotalUnfolds, FS_EmptySet
<1>2. ASSUME NEW s \in SUBSET S, \A t \in SUBSET s : t # s => t \in Good
      PROVE  s \in Good
  <2>1. CASE s = {}
    BY <2>1, <1>1
  <2>2. CASE s # {}
    <3> DEFINE p == Pick(s)
    <3>1. p \in s
      BY <2>2 DEF Pick
    <3>2. Total(f, s) = f[p] + Total(f, s \ {p})
      BY <2>2, TotalUnfolds, FS_Subset
    <3>3. Total(f, s \ {p}) \in Int /\ f[p] \in Int
      BY <3>1, <1>2
    <3>4. ASSUME NEW x \in s, x # p
          PROVE  Total(f, s) = f[x] + Total(f, s \ {x})
      <4> DEFINE both == s \ {p, x}
      <4>1. both = (s \ {p}) \ {x} /\ both = (s \ {x}) \ {p}
        OBVIOUS
      <4>2. s \ {p} \in Good /\ s \ {x} \in Good /\ both \in Good
        BY <3>1, <1>2
      <4>3. Total(f, s \ {p}) = f[x] + Total(f, both)
        BY <4>1, <4>2, <3>4
      <4>4. Total(f, s \ {x}) = f[p] + Total(f, both)
        BY <4>1, <4>2, <3>1, <3>4
      <4>5. f[x] \in Int /\ Total(f, both) \in Int
        BY <4>2
      <4> HIDE DEF p, both, Good
      <4> QED BY <3>2, <3>3, <4>3, <4>4, <4>5
    <3>5. \A x \in s : Total(f, s) = f[x] + Total(f, s \ {x})
      BY <3>2, <3>4
    <3> QED BY <3>2, <3>3, <3>5
  <2> QED BY <2>1, <2>2
<1>3. \A s \in SUBSET S : s \in Good
  <2> HIDE DEF Good
  <2> QED BY <1>2, SubsetInduction
<1> QED BY <1>1, <1>3

(* What the other proofs use: three facts about sums of whole numbers.     *)
LEMMA TotalAdds ==
  ASSUME NEW f, NEW S, IsFiniteSet(S), NEW x, x \notin S,
         f[x] \in Int, \A y \in S : f[y] \in Int
  PROVE  Total(f, S \cup {x}) = Total(f, S) + f[x]
<1>1. IsFiniteSet(S \cup {x}) /\ (S \cup {x}) \ {x} = S
  BY FS_AddElement
<1>2. Total(f, S) \in Int
  BY TotalRemove
<1>3. \A y \in S \cup {x} : f[y] \in Int
  OBVIOUS
<1>4. Total(f, S \cup {x}) = f[x] + Total(f, (S \cup {x}) \ {x})
  BY <1>1, <1>3, TotalRemove
<1>5. Total(f, S \cup {x}) = f[x] + Total(f, S)
  BY <1>1, <1>4
<1> QED BY <1>2, <1>5

LEMMA TotalSame ==
  ASSUME NEW f, NEW g, NEW S, IsFiniteSet(S), \A x \in S : f[x] = g[x]
  PROVE  Total(f, S) = Total(g, S)
<1> DEFINE Good == {s \in SUBSET S : Total(f, s) = Total(g, s)}
<1>1. ASSUME NEW s \in SUBSET S, \A t \in SUBSET s : t # s => t \in Good
      PROVE  s \in Good
  <2>1. Total(f, s) = IF s = {} THEN 0 ELSE f[Pick(s)] + Total(f, s \ {Pick(s)})
    BY TotalUnfolds, FS_Subset
  <2>2. Total(g, s) = IF s = {} THEN 0 ELSE g[Pick(s)] + Total(g, s \ {Pick(s)})
    BY TotalUnfolds, FS_Subset
  <2>3. s # {} => Pick(s) \in s
    BY DEF Pick
  <2>4. s # {} => s \ {Pick(s)} \in Good
    BY <1>1, <2>3
  <2> QED BY <2>1, <2>2, <2>3, <2>4
<1>2. \A s \in SUBSET S : s \in Good
  <2> HIDE DEF Good
  <2> QED BY <1>1, SubsetInduction
<1> QED BY <1>2

LEMMA TotalWithin ==
  ASSUME NEW f, NEW S, IsFiniteSet(S), \A x \in S : f[x] \in Nat, NEW T \in SUBSET S
  PROVE  Total(f, T) <= Total(f, S)
<1> DEFINE Good == {s \in SUBSET S : Total(f, s \cap T) <= Total(f, s)}
<1>1. ASSUME NEW s \in SUBSET S, \A t \in SUBSET s : t # s => t \in Good
      PROVE  s \in Good
  <2>1. CASE s = {}
    <3>1. s \cap T = s /\ Total(f, s) = 0
      BY <2>1, TotalUnfolds, FS_EmptySet
    <3> QED BY <3>1
  <2>2. CASE s # {}
    <3> DEFINE p == Pick(s)
    <3>1. p \in s
      BY <2>2 DEF Pick
    <3>2. (s \ {p}) \in Good /\ IsFiniteSet(s) /\ IsFiniteSet(s \cap T) /\ IsFiniteSet(s \ {p})
      BY <1>1, <3>1, FS_Subset
    <3>3. Total(f, s) = f[p] + Total(f, s \ {p}) /\ Total(f, s \ {p}) \in Int
      BY <3>1, <3>2, TotalRemove
    <3>4. CASE p \in T
      <4>1. (s \cap T) \ {p} = (s \ {p}) \cap T
        OBVIOUS
      <4>2. Total(f, s \cap T) = f[p] + Total(f, (s \ {p}) \cap T)
        BY <3>1, <3>2, <3>4, <4>1, TotalRemove
      <4>3. Total(f, (s \ {p}) \cap T) \in Int
        <5>1. IsFiniteSet((s \ {p}) \cap T)
          BY FS_Subset
        <5> QED BY <5>1, TotalRemove
      <4>4. f[p] \in Nat
        BY <3>1
      <4> HIDE DEF p
      <4> QED BY <3>2, <3>3, <4>2, <4>3, <4>4
    <3>5. CASE p \notin T
      <4>1. s \cap T = (s \ {p}) \cap T
        BY <3>5
      <4>2. Total(f, s \cap T) \in Int
        BY <3>2, TotalRemove
      <4>3. f[p] \in Nat
        BY <3>1
      <4>4. Total(f, s \cap T) <= Total(f, s \ {p})
        BY <3>2, <4>1
      <4>5. Total(f, s \cap T) <= Total(f, s)
        <5> HIDE DEF p
        <5> QED BY <3>3, <4>2, <4>3, <4>4
      <4> QED BY <4>5
    <3> QED BY <3>4, <3>5
  <2> QED BY <2>1, <2>2
<1>2. \A s \in SUBSET S : s \in Good
  <2> HIDE DEF Good
  <2> QED BY <1>1, SubsetInduction
<1>3. Total(f, S \cap T) <= Total(f, S)
  BY <1>2
<1>4. S \cap T = T
  OBVIOUS
<1> QED BY <1>3, <1>4

-------------------------------------------------------------------------------
(* The first of some positions                                             *)

LEMMA FirstIn ==
  ASSUME NEW S \in SUBSET Nat, S # {}
  PROVE  First(S) \in S
<1> DEFINE R == OpToRel(<, Nat)
<1>1. IsWellFoundedOn(R, Nat)
  BY NatLessThanWellFounded
<1>2. \A x, y \in Nat : <<y, x>> \in R <=> y < x
  BY DEF OpToRel
<1> HIDE DEF R
<1>3. PICK x \in S : \A y \in S : ~ (<<y, x>> \in R)
  BY <1>1, WFMin
<1>4. \A y \in S : x <= y
  <2> TAKE y \in S
  <2>1. x \in Nat /\ y \in Nat
    OBVIOUS
  <2>2. ~ (y < x)
    BY <1>2, <1>3, <2>1
  <2> QED BY <2>1, <2>2
<1> QED BY <1>4 DEF First

LEMMA FirstOf ==
  ASSUME NEW n \in Nat, NEW S \in SUBSET (1..n)
  PROVE  IF S = {} THEN First(S) = 0 ELSE First(S) \in S /\ First(S) # 0
<1>1. CASE S = {}
  BY <1>1 DEF First
<1>2. CASE S # {}
  <2>1. S \in SUBSET Nat
    OBVIOUS
  <2>2. First(S) \in S
    BY <1>2, <2>1, FirstIn
  <2>3. First(S) \in 1..n
    BY <2>2
  <2>4. First(S) # 0
    BY <2>3
  <2> QED BY <1>2, <2>2, <2>4
<1> QED BY <1>1, <1>2

-------------------------------------------------------------------------------
(* What the updates of the payment find and leave.                         *)

LEMMA Found ==
  ASSUME TypeOK
  PROVE  /\ Len(refunds) \in Nat
         /\ DOMAIN refunds = 1..Len(refunds)
         /\ \A k \in DOMAIN refunds : refunds[k] \in Entry
         /\ \A r : IF \E k \in DOMAIN refunds : refunds[k].id = r
                     THEN WithId(r) \in DOMAIN refunds /\ WithId(r) # 0
                          /\ refunds[WithId(r)].id = r
                     ELSE WithId(r) = 0
         /\ IF Unanswered = {} THEN First(Unanswered) = 0
            ELSE First(Unanswered) \in Unanswered /\ First(Unanswered) # 0
         /\ \A r, amount :
              MatchingEntry(r, amount) # 0 =>
                /\ MatchingEntry(r, amount) \in DOMAIN refunds
                /\ \/ refunds[MatchingEntry(r, amount)].id = r
                   \/ MatchingEntry(r, amount) \in Unanswered
                        /\ amount \in {0, refunds[MatchingEntry(r, amount)].amount}
         /\ FirstOpen # 0 => FirstOpen \in DOMAIN refunds /\ Open(FirstOpen)
<1>1. /\ Len(refunds) \in Nat
      /\ DOMAIN refunds = 1..Len(refunds)
      /\ \A k \in DOMAIN refunds : refunds[k] \in Entry
  BY DEF TypeOK
<1>2. ASSUME NEW r
      PROVE  IF \E k \in DOMAIN refunds : refunds[k].id = r
               THEN WithId(r) \in DOMAIN refunds /\ WithId(r) # 0
                    /\ refunds[WithId(r)].id = r
               ELSE WithId(r) = 0
  <2> DEFINE S == {k \in DOMAIN refunds : refunds[k].id = r}
  <2>1. IF S = {} THEN First(S) = 0 ELSE First(S) \in S /\ First(S) # 0
    <3>1. S \in SUBSET (1..Len(refunds))
      BY <1>1
    <3> HIDE DEF S
    <3> QED BY <1>1, <3>1, FirstOf
  <2>2. WithId(r) = First(S)
    BY DEF WithId
  <2> QED BY <2>1, <2>2
<1>3. IF Unanswered = {} THEN First(Unanswered) = 0
      ELSE First(Unanswered) \in Unanswered /\ First(Unanswered) # 0
  <2>1. Unanswered \in SUBSET (1..Len(refunds))
    BY <1>1 DEF Unanswered
  <2> QED BY <1>1, <2>1, FirstOf
<1>4. ASSUME NEW r, NEW amount, MatchingEntry(r, amount) # 0
      PROVE  /\ MatchingEntry(r, amount) \in DOMAIN refunds
             /\ \/ refunds[MatchingEntry(r, amount)].id = r
                \/ MatchingEntry(r, amount) \in Unanswered
                     /\ amount \in {0, refunds[MatchingEntry(r, amount)].amount}
  <2>1. CASE WithId(r) # 0
    BY <1>2, <2>1 DEF MatchingEntry
  <2>2. CASE WithId(r) = 0
    <3> DEFINE S == {k \in Unanswered : amount \in {0, refunds[k].amount}}
    <3>1. MatchingEntry(r, amount) = First(S)
      BY <2>2 DEF MatchingEntry
    <3>2. S \in SUBSET (1..Len(refunds))
      BY <1>1 DEF Unanswered
    <3>3. First(S) \in S
      <4> HIDE DEF S
      <4> QED BY <1>1, <1>4, <3>1, <3>2, FirstOf
    <3> QED BY <3>1, <3>3 DEF Unanswered
  <2> QED BY <2>1, <2>2
<1>5. FirstOpen # 0 => FirstOpen \in DOMAIN refunds /\ Open(FirstOpen)
  <2> DEFINE S == {k \in DOMAIN refunds : Open(k)}
  <2>1. FirstOpen = First(S)
    BY DEF FirstOpen
  <2>2. S \in SUBSET (1..Len(refunds))
    BY <1>1
  <2>3. First(S) # 0 => First(S) \in S
    <3> HIDE DEF S
    <3> QED BY <1>1, <2>2, FirstOf
  <2> QED BY <2>1, <2>3
<1> QED BY <1>1, <1>2, <1>3, <1>4, <1>5

LEMMA Sizes ==
  ASSUME TypeOK
  PROVE  /\ Len(refunds) \in Nat
         /\ DOMAIN refunds = 1..Len(refunds)
         /\ \A k \in DOMAIN refunds : refunds[k] \in Entry
BY DEF TypeOK

(* Entries as they are written.                                            *)
LEMMA Written ==
  ASSUME NEW e \in Entry, NEW r \in RefundId, NEW n \in Nat
  PROVE  /\ [e EXCEPT !.id = r] \in Entry
         /\ [e EXCEPT !.status = "failed"] \in Entry
         /\ [e EXCEPT !.id = r, !.status = "pending"] \in Entry
         /\ [e EXCEPT !.id = r, !.status = "failed"] \in Entry
         /\ [e EXCEPT !.id = r, !.status = "processed", !.note = n] \in Entry
<1>1. r \in 0..MaxRefunds
  BY RefundsAssumption DEF RefundId
<1> QED BY <1>1 DEF Entry

LEMMA Replaced ==
  ASSUME NEW s \in Seq(Entry), NEW k \in DOMAIN s, NEW e \in Entry
  PROVE  /\ [s EXCEPT ![k] = e] \in Seq(Entry)
         /\ Len([s EXCEPT ![k] = e]) = Len(s)
         /\ DOMAIN [s EXCEPT ![k] = e] = DOMAIN s
         /\ [s EXCEPT ![k] = e][k] = e
         /\ \A j \in DOMAIN s \ {k} : [s EXCEPT ![k] = e][j] = s[j]
BY ExceptSeq

RecordsTyped ==
  /\ status \in {"PAID", "REFUNDED"}
  /\ payment \in {"CAPTURED", "REFUND_REQUESTED", "REFUND_PENDING", "REFUNDED"}
  /\ refundedMinor \in Nat
  /\ refunds \in Seq(Entry)
  /\ notes \in Nat
  /\ unused \in 0..Credits
  /\ revoked \subseteq RefundId
  /\ coupon \in {"REDEEMED", "RELEASED"}

(* Entries are added and changed, never taken away.                        *)
Grows == DOMAIN refunds \subseteq DOMAIN refunds'

LEMMA ClaimTyped ==
  ASSUME TypeOK, NEW amount \in 1..Amount, NEW withdraw \in 0..Credits,
         claimRefund(amount, withdraw)
  PROVE  RecordsTyped' /\ Grows
<1> DEFINE e == [id |-> 0, amount |-> amount, withdraw |-> withdraw, note |-> 0,
                 status |-> "requested"]
<1>1. e \in Entry
  BY RefundsAssumption DEF Entry
<1>2. refunds' = Append(refunds, e)
  BY DEF claimRefund
<1>3. refunds' \in Seq(Entry) /\ Len(refunds') = Len(refunds) + 1
  <2> HIDE DEF e
  <2> QED BY <1>1, <1>2, AppendProperties DEF TypeOK
<1>4. Grows
  BY <1>3 DEF Grows, TypeOK
<1> QED BY <1>3, <1>4 DEF claimRefund, TypeOK, RecordsTyped

LEMMA ReleaseTyped ==
  ASSUME TypeOK, NEW k \in DOMAIN refunds, releaseRefundClaim(k)
  PROVE  RecordsTyped' /\ Grows
<1>1. CASE IsClaim(k)
  <2>1. [refunds[k] EXCEPT !.status = "failed"] \in Entry
    BY Found DEF Entry
  <2>2. refunds' = [refunds EXCEPT ![k] = [refunds[k] EXCEPT !.status = "failed"]]
    BY <1>1 DEF releaseRefundClaim
  <2>3. refunds' \in Seq(Entry) /\ DOMAIN refunds' = DOMAIN refunds
    BY <2>1, <2>2, Found DEF TypeOK
  <2> QED BY <1>1, <2>3 DEF releaseRefundClaim, TypeOK, RecordsTyped, Grows
<1>2. CASE ~IsClaim(k)
  BY <1>2 DEF releaseRefundClaim, TypeOK, RecordsTyped, Grows, records, document
<1> QED BY <1>1, <1>2

LEMMA PendingTyped ==
  ASSUME TypeOK, NEW k \in DOMAIN refunds, NEW r \in RefundId, markRefundPending(k, r)
  PROVE  RecordsTyped' /\ Grows
<1> DEFINE pending == [refunds[k] EXCEPT !.id = r, !.status = "pending"]
           named == [refunds[k] EXCEPT !.id = r]
<1>1. pending \in Entry /\ named \in Entry
  BY Sizes, Written
<1>2. refunds' = [refunds EXCEPT ![k] = pending] \/ refunds' = [refunds EXCEPT ![k] = named]
  BY DEF markRefundPending
<1>3. refunds' \in Seq(Entry) /\ DOMAIN refunds' = DOMAIN refunds
  <2> HIDE DEF pending, named
  <2>1. refunds \in Seq(Entry)
    BY DEF TypeOK
  <2>2. \A e \in Entry :
          [refunds EXCEPT ![k] = e] \in Seq(Entry)
            /\ DOMAIN [refunds EXCEPT ![k] = e] = DOMAIN refunds
    BY <2>1, Replaced
  <2> QED BY <1>1, <1>2, <2>2
<1>4. payment' \in {payment, "REFUND_PENDING"}
  BY DEF markRefundPending
<1> QED BY <1>3, <1>4 DEF markRefundPending, TypeOK, RecordsTyped, Grows

LEMMA FailedTyped ==
  ASSUME TypeOK, NEW r \in RefundId, markRefundFailed(r)
  PROVE  RecordsTyped' /\ Grows
<1> DEFINE k == IF WithId(r) # 0 THEN WithId(r) ELSE First(Unanswered)
           failed == [refunds[k] EXCEPT !.id = r, !.status = "failed"]
<1>1. k # 0 => k \in DOMAIN refunds
  BY Found DEF Unanswered
<1>2. k # 0 => failed \in Entry
  <2> HIDE DEF k
  <2> QED BY <1>1, Sizes, Written
<1>3. CASE k # 0 /\ ~Open(k)
  <2>1. UNCHANGED records
    BY <1>3 DEF markRefundFailed
  <2> QED BY <2>1 DEF TypeOK, RecordsTyped, Grows, records, document
<1>4. CASE ~(k # 0 /\ ~Open(k))
  <2>1. /\ refunds' = IF k = 0 THEN refunds ELSE [refunds EXCEPT ![k] = failed]
        /\ payment' \in {payment, Reopened(payment)}
        /\ UNCHANGED <<status, refundedMinor, notes, unused, revoked, coupon>>
    BY <1>4 DEF markRefundFailed
  <2>2. refunds' \in Seq(Entry) /\ DOMAIN refunds' = DOMAIN refunds
    <3> HIDE DEF k, failed
    <3> QED BY <1>1, <1>2, <2>1, Replaced DEF TypeOK
  <2>3. payment' \in {payment, "CAPTURED"}
    BY <2>1 DEF Reopened
  <2> HIDE DEF k, failed
  <2> QED BY <2>1, <2>2, <2>3 DEF TypeOK, RecordsTyped, Grows
<1> QED BY <1>3, <1>4

(* What an applied refund does, in one place.                              *)
LEMMA RefundedEffect ==
  ASSUME TypeOK, NEW r \in RefundId, NEW amount \in 0..Amount,
         markPurchaseRefunded(r, amount), Applies(r, amount)
  PROVE  \E k \in 1..(Len(refunds) + 1), entry \in Entry :
           /\ k = EntryOf(r, amount)
           /\ IF k \in DOMAIN refunds
                THEN entry = refunds[k] /\ entry.status # "processed"
                ELSE k = Len(refunds) + 1
           /\ k \in DOMAIN refunds' /\ Len(refunds') \in {Len(refunds), Len(refunds) + 1}
           /\ refunds' \in Seq(Entry)
           /\ DOMAIN refunds' = DOMAIN refunds \cup {k}
           /\ refunds'[k] = [entry EXCEPT !.id = r, !.status = "processed", !.note = notes + 1]
           /\ \A j \in DOMAIN refunds' \ {k} : refunds'[j] = refunds[j]
           /\ status = "PAID"
           /\ refundedMinor' = refundedMinor + entry.amount
           /\ notes' = notes + 1
           /\ unused' \in 0..Credits
           /\ revoked' \in {revoked, revoked \cup {r}}
           /\ payment' \in {payment, Reopened(payment), "REFUNDED"}
           /\ IF refundedMinor' >= Amount
                THEN /\ status' = "REFUNDED" /\ coupon' = "RELEASED" /\ payment' = "REFUNDED"
                     /\ r \notin revoked => unused' = 0
                ELSE /\ status' = "PAID" /\ coupon' = coupon
                     /\ payment' = IF \E j \in DOMAIN refunds' :
                                        refunds'[j].status \in {"requested", "pending"}
                                     THEN payment ELSE Reopened(payment)
<1> DEFINE k == EntryOf(r, amount)
           entries == WithEntry(r, amount)
           entry == entries[k]
           new == [entry EXCEPT !.id = r, !.status = "processed", !.note = notes + 1]
           after == [entries EXCEPT ![k] = new]
           total == refundedMinor + entry.amount
           fully == total >= Amount
<1>1. /\ k \in 1..(Len(refunds) + 1)
      /\ entries \in Seq(Entry)
      /\ k \in DOMAIN entries /\ Len(entries) \in {Len(refunds), Len(refunds) + 1}
      /\ DOMAIN entries = DOMAIN refunds \cup {k}
      /\ \A j \in DOMAIN entries \ {k} : entries[j] = refunds[j]
      /\ IF k \in DOMAIN refunds
           THEN entry = refunds[k] /\ entry.status # "processed"
           ELSE k = Len(refunds) + 1
  <2>1. CASE MatchingEntry(r, amount) # 0
    <3>1. k = MatchingEntry(r, amount) /\ entries = refunds
      BY <2>1 DEF EntryOf, WithEntry
    <3>2. k \in DOMAIN refunds
      BY <2>1, <3>1, Found
    <3>3. refunds[k].status # "processed"
      BY <2>1, <3>1 DEF Applies
    <3>4. /\ refunds \in Seq(Entry) /\ Len(refunds) \in Nat
          /\ DOMAIN refunds = 1..Len(refunds)
      BY DEF TypeOK
    <3>5. entry.status # "processed"
      BY <3>1, <3>3
    <3> HIDE DEF k, entries, entry
    <3>6. entry = refunds[k]
      BY <3>1 DEF entry
    <3>7. k \in 1..(Len(refunds) + 1)
      BY <3>2, <3>4
    <3> QED BY <3>1, <3>2, <3>4, <3>5, <3>6, <3>7
  <2>2. CASE MatchingEntry(r, amount) = 0
    <3> DEFINE made == [id |-> r, amount |-> Minor(r, amount), withdraw |-> 0, note |-> 0,
                        status |-> "pending"]
    <3>1. k = Len(refunds) + 1 /\ entries = Append(refunds, made)
      BY <2>2 DEF EntryOf, WithEntry
    <3>2. Minor(r, amount) \in 1..Amount
      BY <2>2, RefundsAssumption DEF Applies, Minor, TypeOK
    <3>3. made \in Entry
      BY <3>2, RefundsAssumption DEF Entry, RefundId
    <3> HIDE DEF made, k, entries
    <3>4. /\ entries \in Seq(Entry) /\ Len(entries) = Len(refunds) + 1
          /\ \A j \in 1..Len(refunds) : entries[j] = refunds[j]
      BY <3>1, <3>3, AppendProperties DEF TypeOK
    <3>5. DOMAIN entries = 1..(Len(refunds) + 1)
      BY <3>4
    <3> QED BY <3>1, <3>4, <3>5, Sizes
  <2> QED BY <2>1, <2>2
<1>2. entry \in Entry
  <2> HIDE DEF entries, k
  <2>1. entries \in Seq(Entry) /\ k \in 1..Len(entries)
    BY <1>1
  <2> QED BY <2>1, ElementOfSeq
<1>3. new \in Entry
  <2>1. notes + 1 \in Nat
    BY DEF TypeOK
  <2> HIDE DEF entry
  <2> QED BY <1>2, <2>1, Written
<1>4. /\ after \in Seq(Entry) /\ DOMAIN after = DOMAIN entries /\ after[k] = new
      /\ \A j \in DOMAIN after \ {k} : after[j] = entries[j]
      /\ Len(after) = Len(entries)
  <2> HIDE DEF entries, new, k
  <2> QED BY <1>1, <1>3, Replaced
<1> DEFINE taken == IF r \in revoked THEN 0
                    ELSE IF fully THEN unused ELSE Lesser(unused, entry.withdraw)
<1>5. /\ refunds' = after
      /\ refundedMinor' = total
      /\ payment' = AfterRefund(fully, after)
      /\ notes' = notes + 1
      /\ unused' = unused - taken
      /\ revoked' = IF fully \/ entry.withdraw > 0 THEN revoked \cup {r} ELSE revoked
      /\ status' = IF fully THEN "REFUNDED" ELSE status
      /\ coupon' = IF fully THEN "RELEASED" ELSE coupon
  BY DEF markPurchaseRefunded
<1>6. status = "PAID"
  BY DEF Applies
<1>7. unused' \in 0..Credits /\ (fully /\ r \notin revoked => unused' = 0)
  <2>1. entry.withdraw \in 0..Credits
    <3> HIDE DEF entry
    <3> QED BY <1>2 DEF Entry
  <2>2. unused \in 0..Credits
    BY DEF TypeOK
  <2> HIDE DEF entry, fully
  <2> QED BY <1>5, <2>1, <2>2, RefundsAssumption DEF Lesser
<1>13. k = EntryOf(r, amount)
  OBVIOUS
<1> HIDE DEF k, entries, entry, new, after, taken
<1>8. payment' \in {payment, Reopened(payment), "REFUNDED"}
  <2> HIDE DEF fully
  <2> QED BY <1>5 DEF AfterRefund
<1>9. entry = entries[k]
  BY DEF entry, entries, k
<1>10. IF refundedMinor' >= Amount
         THEN /\ status' = "REFUNDED" /\ coupon' = "RELEASED" /\ payment' = "REFUNDED"
              /\ r \notin revoked => unused' = 0
         ELSE /\ status' = "PAID" /\ coupon' = coupon
              /\ payment' = IF \E j \in DOMAIN refunds' :
                                 refunds'[j].status \in {"requested", "pending"}
                              THEN payment ELSE Reopened(payment)
  <2> HIDE DEF total
  <2> QED BY <1>5, <1>6, <1>7 DEF AfterRefund
<1>11. /\ k \in DOMAIN refunds' /\ Len(refunds') \in {Len(refunds), Len(refunds) + 1}
       /\ refunds' \in Seq(Entry)
       /\ DOMAIN refunds' = DOMAIN refunds \cup {k}
       /\ refunds'[k] = [entry EXCEPT !.id = r, !.status = "processed", !.note = notes + 1]
       /\ \A j \in DOMAIN refunds' \ {k} : refunds'[j] = refunds[j]
  BY <1>1, <1>4, <1>5 DEF new
<1>12. revoked' \in {revoked, revoked \cup {r}}
  BY <1>5
<1> HIDE DEF fully
<1> QED BY <1>1, <1>2, <1>5, <1>6, <1>7, <1>8, <1>10, <1>11, <1>12, <1>13

LEMMA RefundedTyped ==
  ASSUME TypeOK, NEW r \in RefundId, NEW amount \in 0..Amount, markPurchaseRefunded(r, amount)
  PROVE  RecordsTyped' /\ Grows
<1>1. CASE Applies(r, amount)
  <2>1. PICK k \in 1..(Len(refunds) + 1), entry \in Entry :
           /\ refunds' \in Seq(Entry)
           /\ DOMAIN refunds' = DOMAIN refunds \cup {k}
           /\ refundedMinor' = refundedMinor + entry.amount
           /\ notes' = notes + 1
           /\ unused' \in 0..Credits
           /\ revoked' \in {revoked, revoked \cup {r}}
           /\ payment' \in {payment, Reopened(payment), "REFUNDED"}
           /\ status' \in {"PAID", "REFUNDED"} /\ coupon' \in {coupon, "RELEASED"}
    BY <1>1, RefundedEffect
  <2>2. refundedMinor' \in Nat
    BY <2>1, RefundsAssumption DEF TypeOK, Entry
  <2>3. payment' \in {payment, "CAPTURED", "REFUNDED"}
    BY <2>1 DEF Reopened
  <2> QED BY <2>1, <2>2, <2>3 DEF TypeOK, RecordsTyped, Grows
<1>2. CASE ~Applies(r, amount)
  BY <1>2 DEF markPurchaseRefunded, TypeOK, RecordsTyped, Grows, records, document
<1> QED BY <1>1, <1>2

-------------------------------------------------------------------------------
(* Types, and what each actor has in hand.                                 *)

RequestRecord == [step : Step, amount : 0..Amount, withdraw : 0..Credits,
                  key : Nat, id : 0..MaxRefunds, answer : Remote]

RequestOK(q, D) ==
  /\ q \in RequestRecord
  /\ q.step = "IDLE" => q = Quiet
  /\ q.step # "IDLE" => q.amount > 0
  /\ q.step = "PREVIEWED" => q.key = 0
  /\ q.step \in {"CLAIMED", "ANSWERED", "RECORDED"} => q.key \in D
  /\ q.step \in {"ANSWERED", "RECORDED"} => q.id # 0

RequestsOK == request \in [Request -> RequestRecord] /\ \A a \in Request : RequestOK(request[a], DOMAIN refunds)

GatewayOK ==
  /\ remote \in [RefundId -> [status : Remote, amount : 0..Amount, key : Nat]]
  /\ events \subseteq (RefundId \X {"PROCESSED", "FAILED"})
  /\ \A r \in RefundId :
       IF remote[r].status # "NONE" THEN remote[r].amount > 0 ELSE remote[r].key = 0
  /\ \A e \in events : remote[e[1]].status = e[2]

ReconOK ==
  /\ recon \in [step : {"IDLE", "READ", "RELEASE", "COMPLETE"}, key : Nat, target : Nat,
                id : 0..MaxRefunds]
  /\ recon.step # "IDLE" => recon.key \in DOMAIN refunds
  /\ recon.step = "COMPLETE" => recon.id # 0

(* Inductive.                                                              *)
Typed == RecordsTyped /\ RequestsOK /\ GatewayOK /\ ReconOK /\ faults \subseteq Faults

LEMMA TypedIs == Typed => TypeOK
BY DEF Typed, TypeOK, RecordsTyped, RequestsOK, GatewayOK, ReconOK, RequestRecord

LEMMA QuietOK == \A D : RequestOK(Quiet, D)
BY RefundsAssumption DEF RequestOK, RequestRecord, Quiet, Step, Remote

LEMMA InitTyped == Init => Typed
<1> SUFFICES ASSUME Init PROVE Typed
  OBVIOUS
<1>1. RecordsTyped
  BY RefundsAssumption DEF Init, RecordsTyped
<1>2. RequestsOK
  BY QuietOK DEF Init, RequestsOK, RequestOK
<1>3. GatewayOK
  BY RefundsAssumption DEF Init, GatewayOK, Remote
<1>4. ReconOK
  BY RefundsAssumption DEF Init, ReconOK, NotReconciling
<1>5. faults \subseteq Faults
  BY DEF Init
<1> QED BY <1>1, <1>2, <1>3, <1>4, <1>5 DEF Typed

LEMMA RequestMoves ==
  ASSUME RequestsOK, Grows, NEW a \in Request, NEW q, RequestOK(q, DOMAIN refunds'),
         request' = [request EXCEPT ![a] = q]
  PROVE  RequestsOK'
BY DEF RequestsOK, RequestOK, Grows

LEMMA RequestsStay ==
  ASSUME RequestsOK, Grows, UNCHANGED request
  PROVE  RequestsOK'
BY DEF RequestsOK, RequestOK, Grows

LEMMA ReconStays ==
  ASSUME ReconOK, Grows, UNCHANGED recon
  PROVE  ReconOK'
BY DEF ReconOK, Grows

LEMMA GatewayStays ==
  ASSUME GatewayOK, UNCHANGED remote, events' \subseteq events
  PROVE  GatewayOK'
BY DEF GatewayOK

LEMMA RecordsStay ==
  ASSUME RecordsTyped, UNCHANGED records
  PROVE  RecordsTyped' /\ Grows
BY DEF RecordsTyped, records, document, Grows

LEMMA FaultsStay ==
  ASSUME faults \subseteq Faults, NEW kind, Fault(kind) \/ UNCHANGED faults
  PROVE  faults' \subseteq Faults
BY DEF Fault

LEMMA NextIdIs ==
  ASSUME NextId # 0
  PROVE  NextId \in RefundId /\ remote[NextId].status = "NONE"
<1> DEFINE S == {r \in RefundId : remote[r].status = "NONE"}
<1>1. NextId = First(S)
  BY DEF NextId
<1>2. S \in SUBSET (1..MaxRefunds) /\ MaxRefunds \in Nat
  BY RefundsAssumption DEF RefundId
<1>3. First(S) \in S
  <2> HIDE DEF S
  <2> QED BY <1>1, <1>2, FirstOf
<1> QED BY <1>1, <1>3

LEMMA AcceptsOK ==
  ASSUME GatewayOK, NEW amount \in 1..Amount, NEW key \in Nat,
         NEW s \in {"PENDING", "PROCESSED", "FAILED"}, Accepts(amount, key, s)
  PROVE  /\ NextId \in RefundId /\ remote[NextId].status = "NONE"
         /\ remote' = [remote EXCEPT ![NextId] = [status |-> s, amount |-> amount, key |-> key]]
         /\ GatewayOK'
<1>1. NextId \in RefundId /\ remote[NextId].status = "NONE"
  BY NextIdIs DEF Accepts
<1> DEFINE new == [status |-> s, amount |-> amount, key |-> key]
<1>2. remote' = [remote EXCEPT ![NextId] = new]
  BY DEF Accepts
<1>3. new \in [status : Remote, amount : 0..Amount, key : Nat] /\ new.amount > 0
      /\ new.status # "NONE" /\ new.status = s
  BY RefundsAssumption DEF Remote
<1>4. events' = events \cup (IF s = "PENDING" THEN {} ELSE {<<NextId, s>>})
  BY DEF Accepts, Reports
<1> HIDE DEF new
<1>5. \A e \in events : e[1] # NextId
  BY <1>1 DEF GatewayOK
<1>6. \A r \in RefundId : remote'[r] = IF r = NextId THEN new ELSE remote[r]
  BY <1>2 DEF GatewayOK
<1>7. remote' \in [RefundId -> [status : Remote, amount : 0..Amount, key : Nat]]
  BY <1>2, <1>3 DEF GatewayOK
<1>8. events' \subseteq (RefundId \X {"PROCESSED", "FAILED"})
  BY <1>1, <1>4 DEF GatewayOK
<1>9. \A e \in events' : remote'[e[1]].status = e[2]
  <2> SUFFICES ASSUME NEW e \in events' PROVE remote'[e[1]].status = e[2]
    OBVIOUS
  <2>1. CASE e \in events
    BY <1>5, <1>6, <2>1 DEF GatewayOK
  <2>2. CASE e = <<NextId, s>>
    BY <1>1, <1>6, <1>3, <2>2
  <2> QED BY <1>4, <2>1, <2>2
<1>10. \A r \in RefundId :
        IF remote'[r].status # "NONE" THEN remote'[r].amount > 0 ELSE remote'[r].key = 0
  BY <1>6, <1>3 DEF GatewayOK
<1> QED BY <1>1, <1>2, <1>7, <1>8, <1>9, <1>10 DEF GatewayOK, new

LEMMA PreviewTyped ==
  ASSUME Typed, NEW a \in Request, Preview(a)
  PROVE  Typed'
<1>1. /\ RecordsTyped' /\ Grows /\ faults' \subseteq Faults
  BY RecordsStay DEF Preview, Typed
<1>2. request[a] = Quiet
  BY DEF Typed, RequestsOK, RequestOK, Preview
<1>3. PICK amount \in 1..(Amount - refundedMinor), withdraw \in 0..unused :
        request' = [request EXCEPT ![a].step = "PREVIEWED", ![a].amount = amount,
                                   ![a].withdraw = withdraw]
  BY DEF Preview
<1> DEFINE q == [step |-> "PREVIEWED", amount |-> amount, withdraw |-> withdraw, key |-> 0,
                 id |-> 0, answer |-> "NONE"]
<1>4. request' = [request EXCEPT ![a] = q]
  BY <1>2, <1>3 DEF Typed, RequestsOK, RequestRecord, Quiet
<1>5. amount \in 1..Amount /\ withdraw \in 0..Credits
  BY RefundsAssumption DEF Typed, RecordsTyped
<1>6. RequestOK(q, DOMAIN refunds')
  <2>1. q.step = "PREVIEWED" /\ q.amount = amount /\ q.key = 0
    OBVIOUS
  <2>2. amount \in 0..Amount /\ amount > 0 /\ 0 \in 0..MaxRefunds
    BY <1>5, RefundsAssumption
  <2>3. q \in RequestRecord
    BY <1>5, <2>2 DEF RequestRecord, Step, Remote
  <2> HIDE DEF q
  <2> QED BY <2>1, <2>2, <2>3 DEF RequestOK
<1>7. RequestsOK'
  <2> HIDE DEF q
  <2> QED BY <1>1, <1>4, <1>6, RequestMoves DEF Typed
<1>8. ReconOK' /\ GatewayOK'
  BY <1>1, ReconStays, GatewayStays DEF Typed, Preview
<1> QED BY <1>1, <1>7, <1>8 DEF Typed

LEMMA ClaimsTyped ==
  ASSUME Typed, NEW a \in Request, Claims(a), NEW kind, Fault(kind) \/ UNCHANGED faults
  PROVE  Typed'
<1>1. RequestOK(request[a], DOMAIN refunds) /\ request[a].step = "PREVIEWED"
  BY DEF Typed, RequestsOK, Claims
<1>2. TypeOK
  BY TypedIs
<1>3. /\ RecordsTyped' /\ Grows
      /\ \E q : RequestOK(q, DOMAIN refunds') /\ request' = [request EXCEPT ![a] = q]
  <2>1. CASE Claimable(request[a].amount)
    <3> DEFINE q == [request[a] EXCEPT !.step = "CLAIMED", !.key = Len(refunds) + 1]
               e == [id |-> 0, amount |-> request[a].amount, withdraw |-> request[a].withdraw,
                     note |-> 0, status |-> "requested"]
    <3>1. request[a].amount \in 1..Amount /\ request[a].withdraw \in 0..Credits
      BY <1>1, RefundsAssumption DEF RequestOK, RequestRecord
    <3>2. claimRefund(request[a].amount, request[a].withdraw)
      BY <2>1 DEF Claims
    <3>3. RecordsTyped' /\ Grows
      BY <1>2, <3>1, <3>2, ClaimTyped
    <3>4. request' = [request EXCEPT ![a] = q]
      BY <2>1 DEF Claims, Typed, RequestsOK
    <3>5. Len(refunds) + 1 \in DOMAIN refunds'
      <4>1. e \in Entry
        BY <3>1, RefundsAssumption DEF Entry
      <4>2. refunds' = Append(refunds, e) /\ refunds \in Seq(Entry)
        BY <3>2, <1>2 DEF claimRefund, TypeOK
      <4>3. Len(refunds') = Len(refunds) + 1 /\ refunds' \in Seq(Entry) /\ Len(refunds) \in Nat
        <5> HIDE DEF e
        <5> QED BY <4>1, <4>2, AppendProperties
      <4> QED BY <4>3
    <3>6. Len(refunds) + 1 \in Nat
      BY <1>2 DEF TypeOK
    <3>7. RequestOK(q, DOMAIN refunds')
      BY <1>1, <3>1, <3>5, <3>6 DEF RequestOK, RequestRecord, Step
    <3> QED BY <3>3, <3>4, <3>7
  <2>2. CASE ~Claimable(request[a].amount)
    <3>1. request' = [request EXCEPT ![a] = Quiet] /\ UNCHANGED records
      BY <2>2 DEF Claims
    <3>2. RecordsTyped' /\ Grows
      BY <3>1, RecordsStay DEF Typed
    <3>3. RequestOK(Quiet, DOMAIN refunds')
      BY RefundsAssumption DEF RequestOK, RequestRecord, Quiet, Step, Remote
    <3> QED BY <3>1, <3>2, <3>3
  <2> QED BY <2>1, <2>2
<1>4. RequestsOK'
  BY <1>3, RequestMoves DEF Typed
<1>5. ReconOK' /\ GatewayOK' /\ faults' \subseteq Faults
  BY <1>3, ReconStays, GatewayStays, FaultsStay DEF Typed, Claims
<1> QED BY <1>3, <1>4, <1>5 DEF Typed

(* A step that ends a request, whatever it writes.                         *)
LEMMA EndsTyped ==
  ASSUME Typed, NEW a \in Request, request' = [request EXCEPT ![a] = Quiet],
         RecordsTyped', Grows, UNCHANGED <<remote, events, recon>>,
         NEW kind, Fault(kind) \/ UNCHANGED faults
  PROVE  Typed'
<1>1. RequestOK(Quiet, DOMAIN refunds')
  BY RefundsAssumption DEF RequestOK, RequestRecord, Quiet, Step, Remote
<1>2. RequestsOK'
  BY <1>1, RequestMoves DEF Typed
<1> QED BY <1>2, ReconStays, GatewayStays, FaultsStay DEF Typed

LEMMA AskTyped ==
  ASSUME Typed, NEW a \in Request, Ask(a)
  PROVE  Typed'
<1>1. RequestOK(request[a], DOMAIN refunds) /\ request[a].step = "CLAIMED"
  BY DEF Typed, RequestsOK, Ask
<1>2. PICK s \in {"PENDING", "PROCESSED", "FAILED"} :
        /\ Accepts(request[a].amount, request[a].key, s)
        /\ request' = [request EXCEPT ![a].step = "ANSWERED", ![a].id = NextId, ![a].answer = s]
  BY DEF Ask
<1> DEFINE q == [request[a] EXCEPT !.step = "ANSWERED", !.id = NextId, !.answer = s]
<1>3. request' = [request EXCEPT ![a] = q]
  BY <1>2 DEF Typed, RequestsOK
<1>4. request[a].amount \in 1..Amount /\ request[a].key \in Nat
  BY <1>1, RefundsAssumption DEF RequestOK, RequestRecord
<1>5. GatewayOK' /\ NextId \in RefundId
  BY <1>2, <1>4, AcceptsOK DEF Typed
<1>6. RecordsTyped' /\ Grows
  BY RecordsStay DEF Typed, Ask
<1>7. NextId \in 0..MaxRefunds /\ NextId # 0 /\ s \in Remote
  BY <1>5, RefundsAssumption DEF RefundId, Remote
<1>8. RequestOK(q, DOMAIN refunds')
  BY <1>1, <1>6, <1>7 DEF RequestOK, RequestRecord, Step, Grows
<1>9. RequestsOK'
  <2> HIDE DEF q
  <2> QED BY <1>3, <1>6, <1>8, RequestMoves DEF Typed
<1> QED BY <1>5, <1>6, <1>9, ReconStays DEF Typed, Ask

LEMMA KeyIn ==
  ASSUME Typed, NEW a \in Request, request[a].step \in {"CLAIMED", "ANSWERED", "RECORDED"}
  PROVE  /\ request[a].key \in DOMAIN refunds
         /\ request[a].step # "CLAIMED" => request[a].id \in RefundId
<1>1. RequestOK(request[a], DOMAIN refunds)
  BY DEF Typed, RequestsOK
<1> QED BY <1>1, RefundsAssumption DEF RequestOK, RequestRecord, RefundId

LEMMA RefusedTyped ==
  ASSUME Typed, NEW a \in Request, AskRefused(a) \/ AnswerLost(a)
  PROVE  Typed'
<1>1. request[a].key \in DOMAIN refunds
  BY KeyIn DEF AskRefused, AnswerLost
<1>2. RecordsTyped' /\ Grows
  BY <1>1, TypedIs, ReleaseTyped DEF AskRefused, AnswerLost
<1> QED BY <1>2, EndsTyped DEF AskRefused, AnswerLost

LEMMA RecordAnswerTyped ==
  ASSUME Typed, NEW a \in Request, RecordAnswer(a)
  PROVE  Typed'
<1>1. request[a].key \in DOMAIN refunds /\ request[a].id \in RefundId
  BY KeyIn DEF RecordAnswer
<1>2. RecordsTyped' /\ Grows
  BY <1>1, TypedIs, PendingTyped DEF RecordAnswer
<1> DEFINE q == [request[a] EXCEPT !.step = "RECORDED"]
<1>3. request' = [request EXCEPT ![a] = q]
  BY DEF RecordAnswer, Typed, RequestsOK
<1>4. RequestOK(request[a], DOMAIN refunds) /\ request[a].step = "ANSWERED"
  BY DEF Typed, RequestsOK, RecordAnswer
<1>5. RequestOK(q, DOMAIN refunds')
  BY <1>2, <1>4 DEF RequestOK, RequestRecord, Step, Grows
<1>6. RequestsOK'
  <2> HIDE DEF q
  <2> QED BY <1>2, <1>3, <1>5, RequestMoves DEF Typed
<1> QED BY <1>2, <1>6, ReconStays, GatewayStays DEF Typed, RecordAnswer

LEMMA ConcludeTyped ==
  ASSUME Typed, NEW a \in Request, Conclude(a)
  PROVE  Typed'
<1>1. request[a].id \in RefundId
  BY KeyIn DEF Conclude
<1>2. 0 \in 0..Amount
  BY RefundsAssumption
<1>3. \/ markPurchaseRefunded(request[a].id, 0)
      \/ markRefundFailed(request[a].id)
      \/ UNCHANGED records
  BY DEF Conclude
<1>4. RecordsTyped' /\ Grows
  <2>1. CASE markPurchaseRefunded(request[a].id, 0)
    BY <1>1, <1>2, <2>1, TypedIs, RefundedTyped
  <2>2. CASE markRefundFailed(request[a].id)
    BY <1>1, <2>2, TypedIs, FailedTyped
  <2>3. CASE UNCHANGED records
    BY <2>3, RecordsStay DEF Typed
  <2> QED BY <1>3, <2>1, <2>2, <2>3
<1> QED BY <1>4, EndsTyped DEF Conclude

LEMMA RequestDiesTyped ==
  ASSUME Typed, NEW a \in Request, RequestDies(a)
  PROVE  Typed'
<1>1. RecordsTyped' /\ Grows
  BY RecordsStay DEF Typed, RequestDies
<1> QED BY <1>1, EndsTyped DEF RequestDies

LEMMA SettleTyped ==
  ASSUME Typed, NEW r \in RefundId, Settle(r)
  PROVE  Typed'
<1>1. RecordsTyped' /\ Grows
  BY RecordsStay DEF Typed, Settle
<1>2. PICK s \in {"PROCESSED", "FAILED"} :
        remote' = [remote EXCEPT ![r].status = s] /\ events' = events \cup Reports(r, s)
  BY DEF Settle
<1>3. \A e \in events : e[1] # r
  BY DEF Settle, Typed, GatewayOK
<1>4. GatewayOK'
  <2>1. events' \subseteq events \cup {<<r, s>>}
    BY <1>2 DEF Reports
  <2>2. \A t \in RefundId : remote'[t] = IF t = r THEN [remote[r] EXCEPT !.status = s] ELSE remote[t]
    BY <1>2 DEF Typed, GatewayOK
  <2>3. remote' \in [RefundId -> [status : Remote, amount : 0..Amount, key : Nat]]
    BY <1>2 DEF Typed, GatewayOK, Remote
  <2>4. remote[r].amount > 0 /\ remote'[r].status = s /\ remote'[r].amount = remote[r].amount
    BY <2>2 DEF Typed, GatewayOK, Settle
  <2>5. events' \subseteq (RefundId \X {"PROCESSED", "FAILED"})
    BY <2>1 DEF Typed, GatewayOK
  <2>6. \A e \in events' : remote'[e[1]].status = e[2]
    <3> SUFFICES ASSUME NEW e \in events' PROVE remote'[e[1]].status = e[2]
      OBVIOUS
    <3>1. CASE e \in events
      BY <1>3, <2>2, <3>1 DEF Typed, GatewayOK
    <3>2. CASE e = <<r, s>>
      BY <2>4, <3>2
    <3> QED BY <2>1, <3>1, <3>2
  <2>7. \A t \in RefundId :
          IF remote'[t].status # "NONE" THEN remote'[t].amount > 0 ELSE remote'[t].key = 0
    BY <2>2, <2>4 DEF Typed, GatewayOK
  <2> QED BY <2>3, <2>5, <2>6, <2>7 DEF GatewayOK
<1> QED BY <1>1, <1>4, RequestsStay, ReconStays DEF Typed, Settle

LEMMA EventTyped ==
  ASSUME Typed, NEW e \in RefundId \X {"PROCESSED", "FAILED"}, RefundEvent(e) \/ EventLost(e)
  PROVE  Typed'
<1>1. RecordsTyped' /\ Grows
  <2>1. e[1] \in RefundId
    OBVIOUS
  <2>2. remote[e[1]].amount \in 0..Amount
    BY <2>1 DEF Typed, GatewayOK
  <2>3. CASE RefundEvent(e) /\ e[2] = "PROCESSED"
    BY <2>1, <2>2, <2>3, TypedIs, RefundedTyped DEF RefundEvent
  <2>4. CASE RefundEvent(e) /\ e[2] # "PROCESSED"
    BY <2>1, <2>4, TypedIs, FailedTyped DEF RefundEvent
  <2>5. CASE EventLost(e)
    BY <2>5, RecordsStay DEF Typed, EventLost
  <2> QED BY <2>3, <2>4, <2>5
<1>2. UNCHANGED <<request, remote, recon>> /\ events' \subseteq events
  BY DEF RefundEvent, EventLost
<1>3. faults' \subseteq Faults
  BY FaultsStay DEF RefundEvent, EventLost, Typed
<1> QED BY <1>1, <1>2, <1>3, RequestsStay, ReconStays, GatewayStays DEF Typed

LEMMA DashboardTyped ==
  ASSUME Typed, Dashboard
  PROVE  Typed'
<1>1. RecordsTyped' /\ Grows
  BY RecordsStay DEF Typed, Dashboard
<1>2. GatewayOK'
  BY AcceptsOK DEF Typed, Dashboard
<1> QED BY <1>1, <1>2, RequestsStay, ReconStays, FaultsStay DEF Typed, Dashboard

LEMMA ReadsTyped ==
  ASSUME Typed, Reads, NEW kind, Fault(kind) \/ UNCHANGED faults
  PROVE  Typed'
<1>1. RecordsTyped' /\ Grows
  BY RecordsStay DEF Typed, Reads
<1>2. FirstOpen \in DOMAIN refunds /\ refunds[FirstOpen] \in Entry /\ FirstOpen \in Nat
  <2>1. TypeOK
    BY TypedIs
  <2>2. FirstOpen \in DOMAIN refunds
    BY <2>1, Found DEF Reads
  <2> QED BY <2>1, <2>2, Sizes
<1>3. refundedMinor + refunds[FirstOpen].amount \in Nat /\ refunds[FirstOpen].id \in 0..MaxRefunds
  BY <1>2, RefundsAssumption DEF Typed, RecordsTyped, Entry
<1>4. ReconOK'
  BY <1>1, <1>2, <1>3 DEF Reads, ReconOK, Grows
<1> QED BY <1>1, <1>4, RequestsStay, GatewayStays, FaultsStay DEF Typed, Reads

LEMMA ReconcileTyped ==
  ASSUME Typed, ReconcileAsk \/ ReconcileAct
  PROVE  Typed'
<1>1. CASE ReconcileAsk
  <2>1. RecordsTyped' /\ Grows
    BY <1>1, RecordsStay DEF Typed, ReconcileAsk
  <2>2. \/ recon.id # 0 /\ recon' = [recon EXCEPT !.step = "COMPLETE"]
        \/ recon' = [recon EXCEPT !.step = "RELEASE"]
        \/ recon' = NotReconciling
    BY <1>1 DEF ReconcileAsk
  <2>3. recon.key \in DOMAIN refunds
    BY <1>1 DEF ReconcileAsk, Typed, ReconOK
  <2>4. ReconOK'
    BY <2>1, <2>2, <2>3, RefundsAssumption DEF ReconOK, NotReconciling, Grows, Typed
  <2> QED BY <1>1, <2>1, <2>4, RequestsStay, GatewayStays DEF Typed, ReconcileAsk
<1>2. CASE ReconcileAct
  <2>1. recon.step # "IDLE" /\ recon.key \in DOMAIN refunds
    BY <1>2 DEF ReconcileAct, Typed, ReconOK
  <2>2. recon.step = "COMPLETE" => recon.id \in RefundId
    BY RefundsAssumption DEF Typed, ReconOK, RefundId
  <2>3. 0 \in 0..Amount
    BY RefundsAssumption
  <2>4. RecordsTyped' /\ Grows
    BY <1>2, <2>1, <2>2, <2>3, TypedIs, ReleaseTyped, RefundedTyped DEF ReconcileAct
  <2>5. ReconOK'
    BY <1>2, RefundsAssumption DEF ReconcileAct, ReconOK, NotReconciling
  <2> QED BY <1>2, <2>4, <2>5, RequestsStay, GatewayStays DEF Typed, ReconcileAct
<1> QED BY <1>1, <1>2

LEMMA UseCreditTyped ==
  ASSUME Typed, UseCredit
  PROVE  Typed'
<1>1. RecordsTyped' /\ Grows
  BY RefundsAssumption DEF UseCredit, Typed, RecordsTyped, document, Grows
<1> QED BY <1>1, RequestsStay, ReconStays, GatewayStays DEF Typed, UseCredit

LEMMA StaysTyped == Typed /\ [Next]_vars => Typed'
<1> SUFFICES ASSUME Typed, [Next]_vars PROVE Typed'
  OBVIOUS
<1>1. ASSUME NEW a \in Request,
             \/ Preview(a) \/ Claim(a) \/ ClaimOvertakes(a) \/ Ask(a) \/ AskRefused(a)
             \/ AnswerLost(a) \/ RecordAnswer(a) \/ Conclude(a) \/ RequestDies(a)
      PROVE  Typed'
  <2>1. CASE Preview(a)
    BY <2>1, PreviewTyped
  <2>2. CASE Claim(a) \/ ClaimOvertakes(a)
    BY <2>2, ClaimsTyped DEF Claim, ClaimOvertakes
  <2>3. CASE Ask(a)
    BY <2>3, AskTyped
  <2>4. CASE AskRefused(a) \/ AnswerLost(a)
    BY <2>4, RefusedTyped
  <2>5. CASE RecordAnswer(a)
    BY <2>5, RecordAnswerTyped
  <2>6. CASE Conclude(a)
    BY <2>6, ConcludeTyped
  <2>7. CASE RequestDies(a)
    BY <2>7, RequestDiesTyped
  <2> QED BY <1>1, <2>1, <2>2, <2>3, <2>4, <2>5, <2>6, <2>7
<1>2. CASE \E r \in RefundId : Settle(r)
  BY <1>2, SettleTyped
<1>3. CASE \E e \in RefundId \X {"PROCESSED", "FAILED"} : RefundEvent(e) \/ EventLost(e)
  BY <1>3, EventTyped
<1>4. CASE Dashboard
  BY <1>4, DashboardTyped
<1>5. CASE ReconcileRead \/ ReconcileEarly
  BY <1>5, ReadsTyped DEF ReconcileRead, ReconcileEarly
<1>6. CASE ReconcileAsk \/ ReconcileAct
  BY <1>6, ReconcileTyped
<1>7. CASE UseCredit
  BY <1>7, UseCreditTyped
<1>8. CASE UNCHANGED vars
  <2>1. RecordsTyped' /\ Grows
    BY <1>8, RecordsStay DEF Typed, vars
  <2> QED BY <1>8, <2>1, RequestsStay, ReconStays, GatewayStays DEF Typed, vars
<1> QED BY <1>1, <1>2, <1>3, <1>4, <1>5, <1>6, <1>7, <1>8 DEF Next

LEMMA AlwaysTyped == Spec => []Typed
BY InitTyped, StaysTyped, PTL DEF Spec

(* The state of the payment, of the requests, of the gateway and of the    *)
(* sweep has its types, whatever goes wrong.                               *)
THEOREM TypeCorrect == Spec => []TypeOK
BY AlwaysTyped, TypedIs, PTL

-------------------------------------------------------------------------------
(* The books                                                               *)

(* What a step does to the records: nothing, one of the updates, or a      *)
(* credit is used.                                                         *)
Update ==
  \/ UNCHANGED records
  \/ \E amount \in 1..Amount, withdraw \in 0..Credits :
       Claimable(amount) /\ claimRefund(amount, withdraw)
  \/ \E k \in DOMAIN refunds :
       releaseRefundClaim(k) \/ \E r \in RefundId : markRefundPending(k, r)
  \/ \E r \in RefundId :
       markRefundFailed(r) \/ \E amount \in 0..Amount : markPurchaseRefunded(r, amount)
  \/ unused > 0 /\ unused' = unused - 1 /\ UNCHANGED <<status, document, notes, revoked, coupon>>

LEMMA StepUpdates ==
  ASSUME Typed, [Next]_vars
  PROVE  Update
<1>1. 0 \in 0..Amount
  BY RefundsAssumption
<1>2. ASSUME NEW a \in Request,
             \/ Preview(a) \/ Claim(a) \/ ClaimOvertakes(a) \/ Ask(a) \/ AskRefused(a)
             \/ AnswerLost(a) \/ RecordAnswer(a) \/ Conclude(a) \/ RequestDies(a)
      PROVE  Update
  <2>1. CASE Preview(a) \/ Ask(a) \/ RequestDies(a)
    BY <2>1 DEF Preview, Ask, RequestDies, Update
  <2>2. CASE Claim(a) \/ ClaimOvertakes(a)
    <3>1. Claims(a)
      BY <2>2 DEF Claim, ClaimOvertakes
    <3>2. request[a].amount \in 1..Amount /\ request[a].withdraw \in 0..Credits
      <4>1. RequestOK(request[a], DOMAIN refunds)
        BY DEF Typed, RequestsOK
      <4> QED BY <3>1, <4>1, RefundsAssumption DEF RequestOK, RequestRecord, Claims
    <3> QED BY <3>1, <3>2 DEF Claims, Update
  <2>3. CASE AskRefused(a) \/ AnswerLost(a) \/ RecordAnswer(a)
    <3>1. request[a].key \in DOMAIN refunds
      BY <2>3, KeyIn DEF AskRefused, AnswerLost, RecordAnswer
    <3>2. RecordAnswer(a) => request[a].id \in RefundId
      BY KeyIn DEF RecordAnswer
    <3> QED BY <2>3, <3>1, <3>2 DEF AskRefused, AnswerLost, RecordAnswer, Update
  <2>4. CASE Conclude(a)
    <3>1. request[a].id \in RefundId
      BY <2>4, KeyIn DEF Conclude
    <3>2. \/ markPurchaseRefunded(request[a].id, 0)
          \/ markRefundFailed(request[a].id)
          \/ UNCHANGED records
      BY <2>4 DEF Conclude
    <3> QED BY <1>1, <3>1, <3>2 DEF Update
  <2> QED BY <1>2, <2>1, <2>2, <2>3, <2>4
<1>3. CASE \E r \in RefundId : Settle(r)
  BY <1>3 DEF Settle, Update
<1>4. ASSUME NEW e \in RefundId \X {"PROCESSED", "FAILED"}, RefundEvent(e) \/ EventLost(e)
      PROVE  Update
  <2>1. e[1] \in RefundId /\ remote[e[1]].amount \in 0..Amount
    BY DEF Typed, GatewayOK
  <2>2. \/ markPurchaseRefunded(e[1], remote[e[1]].amount)
        \/ markRefundFailed(e[1])
        \/ UNCHANGED records
    BY <1>4 DEF RefundEvent, EventLost
  <2> QED BY <2>1, <2>2 DEF Update
<1>5. CASE Dashboard \/ ReconcileRead \/ ReconcileEarly \/ ReconcileAsk
  BY <1>5 DEF Dashboard, ReconcileRead, ReconcileEarly, Reads, ReconcileAsk, Update
<1>6. CASE ReconcileAct
  <2>1. recon.step # "IDLE" /\ recon.key \in DOMAIN refunds
    BY <1>6 DEF ReconcileAct, Typed, ReconOK
  <2>2. recon.step = "COMPLETE" => recon.id \in RefundId
    BY RefundsAssumption DEF Typed, ReconOK, RefundId
  <2> QED BY <1>1, <1>6, <2>1, <2>2 DEF ReconcileAct, Update
<1>7. CASE UseCredit
  BY <1>7 DEF UseCredit, Update
<1>8. CASE UNCHANGED vars
  BY <1>8 DEF vars, Update
<1> QED BY <1>2, <1>3, <1>4, <1>5, <1>6, <1>7, <1>8 DEF Next

EntryAmounts == [k \in DOMAIN refunds |-> refunds[k].amount]

(* The part of BooksBalance that holds whatever goes wrong.                *)
BooksInv ==
  /\ refundedMinor = Total(EntryAmounts, Processed)
  /\ status = "REFUNDED" <=> refundedMinor >= Amount
  /\ payment = "REFUNDED" <=> status = "REFUNDED"
  /\ coupon = "RELEASED" <=> status = "REFUNDED"
  /\ CreditNotesHaveNoGap

LEMMA InitBooks == Init => BooksInv
<1> SUFFICES ASSUME Init PROVE BooksInv
  OBVIOUS
<1>1. Processed = {} /\ DOMAIN refunds = {}
  BY DEF Init, Processed
<1>2. Total(EntryAmounts, {}) = 0
  BY TotalUnfolds, FS_EmptySet
<1>3. CreditNotesHaveNoGap
  BY <1>1 DEF Init, CreditNotesHaveNoGap
<1> QED BY <1>1, <1>2, <1>3, RefundsAssumption DEF Init, BooksInv

LEMMA ProcessedFinite ==
  ASSUME TypeOK
  PROVE  /\ IsFiniteSet(Processed)
         /\ \A k \in Processed : EntryAmounts[k] = refunds[k].amount /\ EntryAmounts[k] \in 1..Amount
<1>1. IsFiniteSet(1..Len(refunds)) /\ Processed \in SUBSET (1..Len(refunds))
  BY Sizes, FS_Interval DEF Processed
<1>2. IsFiniteSet(Processed)
  BY <1>1, FS_Subset
<1>3. \A k \in DOMAIN refunds : refunds[k].amount \in 1..Amount
  BY Sizes DEF Entry
<1> QED BY <1>2, <1>3 DEF Processed, EntryAmounts

(* Steps that apply no refund.                                             *)
LEMMA ProcessedStays ==
  ASSUME TypeOK, BooksInv,
         DOMAIN refunds \subseteq DOMAIN refunds',
         \A k \in DOMAIN refunds' :
           IF k \in Processed
             THEN /\ refunds'[k].status = "processed" /\ refunds'[k].amount = refunds[k].amount
                  /\ refunds'[k].note = refunds[k].note
             ELSE refunds'[k].status # "processed",
         UNCHANGED <<refundedMinor, notes, status, coupon>>,
         payment' = "REFUNDED" <=> payment = "REFUNDED"
  PROVE  BooksInv'
<1>1. Processed' = Processed
  BY DEF Processed
<1>2. Total(EntryAmounts', Processed) = Total(EntryAmounts, Processed)
  <2>1. \A k \in Processed : EntryAmounts'[k] = EntryAmounts[k]
    BY DEF EntryAmounts, Processed
  <2> QED BY <2>1, ProcessedFinite, TotalSame
<1>3. CreditNotesHaveNoGap'
  <2>1. \A k \in Processed : refunds'[k].note = refunds[k].note
    BY DEF Processed
  <2> QED BY <1>1, <2>1 DEF BooksInv, CreditNotesHaveNoGap
<1> QED BY <1>1, <1>2, <1>3 DEF BooksInv

LEMMA ClaimBooks ==
  ASSUME TypeOK, BooksInv, NEW amount \in 1..Amount, NEW withdraw \in 0..Credits,
         Claimable(amount), claimRefund(amount, withdraw)
  PROVE  BooksInv'
<1> DEFINE e == [id |-> 0, amount |-> amount, withdraw |-> withdraw, note |-> 0,
                 status |-> "requested"]
<1>1. e \in Entry /\ e.status = "requested"
  BY RefundsAssumption DEF Entry
<1>2. refunds' = Append(refunds, e)
  BY DEF claimRefund
<1>3. /\ DOMAIN refunds' = 1..(Len(refunds) + 1) /\ DOMAIN refunds = 1..Len(refunds)
      /\ \A k \in 1..Len(refunds) : refunds'[k] = refunds[k]
      /\ refunds'[Len(refunds) + 1] = e
      /\ Len(refunds) \in Nat
  <2> HIDE DEF e
  <2> QED BY <1>1, <1>2, AppendProperties DEF TypeOK
<1> HIDE DEF e
<1>4. \A k \in DOMAIN refunds' : k \in DOMAIN refunds \/ k = Len(refunds) + 1
  BY <1>3
<1>5. DOMAIN refunds \subseteq DOMAIN refunds'
  BY <1>3
<1>6. Len(refunds) + 1 \notin Processed
  BY <1>3 DEF Processed
<1>7. \A k \in DOMAIN refunds' :
        IF k \in Processed
          THEN /\ refunds'[k].status = "processed" /\ refunds'[k].amount = refunds[k].amount
               /\ refunds'[k].note = refunds[k].note
          ELSE refunds'[k].status # "processed"
  BY <1>1, <1>3, <1>4, <1>6 DEF Processed
<1>8. UNCHANGED <<refundedMinor, notes, status, coupon>> /\ payment' = "REFUND_REQUESTED"
      /\ payment = "CAPTURED"
  BY DEF claimRefund, Claimable
<1> QED BY <1>5, <1>7, <1>8, ProcessedStays

(* The updates that change one entry, which is not applied.                *)
LEMMA EditBooks ==
  ASSUME TypeOK, BooksInv, NEW k \in DOMAIN refunds, NEW e,
         refunds' = [refunds EXCEPT ![k] = e],
         \/ refunds[k].status # "processed" /\ e.status # "processed"
         \/ e.status = refunds[k].status /\ e.amount = refunds[k].amount /\ e.note = refunds[k].note,
         UNCHANGED <<refundedMinor, notes, status, coupon>>,
         payment' = "REFUNDED" <=> payment = "REFUNDED"
  PROVE  BooksInv'
<1>1. /\ DOMAIN refunds' = DOMAIN refunds
      /\ \A j \in DOMAIN refunds : refunds'[j] = IF j = k THEN e ELSE refunds[j]
  BY DEF TypeOK
<1>2. \A j \in DOMAIN refunds' :
        IF j \in Processed
          THEN /\ refunds'[j].status = "processed" /\ refunds'[j].amount = refunds[j].amount
               /\ refunds'[j].note = refunds[j].note
          ELSE refunds'[j].status # "processed"
  BY <1>1 DEF Processed
<1> QED BY <1>1, <1>2, ProcessedStays

LEMMA ReleaseBooks ==
  ASSUME TypeOK, BooksInv, NEW k \in DOMAIN refunds, releaseRefundClaim(k), IsClaim(k)
  PROVE  BooksInv'
<1> DEFINE e == [refunds[k] EXCEPT !.status = "failed"]
<1>1. refunds' = [refunds EXCEPT ![k] = e] /\ payment' = "CAPTURED"
      /\ UNCHANGED <<refundedMinor, notes, status, coupon>>
  BY DEF releaseRefundClaim
<1>2. refunds[k].status = "requested" /\ payment = "REFUND_REQUESTED"
  BY DEF IsClaim
<1>3. e.status = "failed"
  BY Sizes DEF Entry
<1> HIDE DEF e
<1> QED BY <1>1, <1>2, <1>3, EditBooks

LEMMA PendingBooks ==
  ASSUME TypeOK, BooksInv, NEW k \in DOMAIN refunds, NEW r \in RefundId, markRefundPending(k, r)
  PROVE  BooksInv'
<1>1. UNCHANGED <<refundedMinor, notes, status, coupon>>
  BY DEF markRefundPending
<1>2. CASE IsClaim(k)
  <2> DEFINE e == [refunds[k] EXCEPT !.id = r, !.status = "pending"]
  <2>1. refunds' = [refunds EXCEPT ![k] = e] /\ payment' = "REFUND_PENDING"
    BY <1>2 DEF markRefundPending
  <2>2. e.status = "pending"
    BY Sizes DEF Entry
  <2> HIDE DEF e
  <2> QED BY <1>1, <1>2, <2>1, <2>2, EditBooks DEF IsClaim
<1>3. CASE ~IsClaim(k)
  <2> DEFINE e == [refunds[k] EXCEPT !.id = r]
  <2>1. refunds' = [refunds EXCEPT ![k] = e] /\ payment' = payment
    BY <1>3 DEF markRefundPending
  <2>2. e.status = refunds[k].status /\ e.amount = refunds[k].amount /\ e.note = refunds[k].note
    BY Sizes DEF Entry
  <2> HIDE DEF e
  <2> QED BY <1>1, <2>1, <2>2, EditBooks
<1> QED BY <1>2, <1>3

LEMMA FailedBooks ==
  ASSUME TypeOK, BooksInv, NEW r \in RefundId, markRefundFailed(r)
  PROVE  BooksInv' \/ UNCHANGED records
<1> DEFINE k == IF WithId(r) # 0 THEN WithId(r) ELSE First(Unanswered)
           e == [refunds[k] EXCEPT !.id = r, !.status = "failed"]
<1>1. k # 0 => k \in DOMAIN refunds
  BY Found DEF Unanswered
<1>2. SUFFICES ASSUME ~(k # 0 /\ ~Open(k)) PROVE BooksInv'
  BY DEF markRefundFailed
<1>3. /\ refunds' = IF k = 0 THEN refunds ELSE [refunds EXCEPT ![k] = e]
      /\ payment' \in {payment, Reopened(payment)}
      /\ UNCHANGED <<status, refundedMinor, notes, coupon>>
  BY <1>2 DEF markRefundFailed
<1>4. payment' = "REFUNDED" <=> payment = "REFUNDED"
  BY <1>3 DEF Reopened
<1>5. CASE k = 0
  BY <1>3, <1>4, <1>5, ProcessedStays DEF Processed
<1>6. CASE k # 0
  <2>1. e.status = "failed" /\ refunds[k].status # "processed"
    <3>1. refunds[k] \in Entry
      BY <1>1, <1>6, Sizes
    <3> HIDE DEF k
    <3> QED BY <1>2, <1>6, <3>1 DEF Entry, Open
  <2> HIDE DEF e, k
  <2> QED BY <1>1, <1>3, <1>4, <1>6, <2>1, EditBooks
<1> QED BY <1>5, <1>6

LEMMA RefundedBooks ==
  ASSUME TypeOK, BooksInv, NEW r \in RefundId, NEW amount \in 0..Amount,
         markPurchaseRefunded(r, amount), Applies(r, amount)
  PROVE  BooksInv'
<1>1. PICK k \in 1..(Len(refunds) + 1), entry \in Entry :
           /\ IF k \in DOMAIN refunds
                THEN entry = refunds[k] /\ entry.status # "processed"
                ELSE k = Len(refunds) + 1
           /\ refunds' \in Seq(Entry)
           /\ DOMAIN refunds' = DOMAIN refunds \cup {k}
           /\ refunds'[k] = [entry EXCEPT !.id = r, !.status = "processed", !.note = notes + 1]
           /\ \A j \in DOMAIN refunds' \ {k} : refunds'[j] = refunds[j]
           /\ status = "PAID"
           /\ refundedMinor' = refundedMinor + entry.amount
           /\ notes' = notes + 1
           /\ payment' \in {payment, Reopened(payment), "REFUNDED"}
           /\ IF refundedMinor' >= Amount
                THEN status' = "REFUNDED" /\ coupon' = "RELEASED" /\ payment' = "REFUNDED"
                ELSE /\ status' = "PAID" /\ coupon' = coupon
                     /\ payment' \in {payment, Reopened(payment)}
  <2>1. PICK k \in 1..(Len(refunds) + 1), entry \in Entry :
           /\ IF k \in DOMAIN refunds
                THEN entry = refunds[k] /\ entry.status # "processed"
                ELSE k = Len(refunds) + 1
           /\ refunds' \in Seq(Entry)
           /\ DOMAIN refunds' = DOMAIN refunds \cup {k}
           /\ refunds'[k] = [entry EXCEPT !.id = r, !.status = "processed", !.note = notes + 1]
           /\ \A j \in DOMAIN refunds' \ {k} : refunds'[j] = refunds[j]
           /\ status = "PAID"
           /\ refundedMinor' = refundedMinor + entry.amount
           /\ notes' = notes + 1
           /\ payment' \in {payment, Reopened(payment), "REFUNDED"}
           /\ IF refundedMinor' >= Amount
                THEN /\ status' = "REFUNDED" /\ coupon' = "RELEASED" /\ payment' = "REFUNDED"
                     /\ r \notin revoked => unused' = 0
                ELSE /\ status' = "PAID" /\ coupon' = coupon
                     /\ payment' = IF \E j \in DOMAIN refunds' :
                                        refunds'[j].status \in {"requested", "pending"}
                                     THEN payment ELSE Reopened(payment)
    BY RefundedEffect
  <2> QED BY <2>1
<1>2. refunds'[k].status = "processed" /\ refunds'[k].note = notes + 1
      /\ refunds'[k].amount = entry.amount /\ k \in DOMAIN refunds'
  BY <1>1 DEF Entry
<1>3. k \notin Processed /\ Processed' = Processed \cup {k}
  BY <1>1, <1>2 DEF Processed
<1>4. \A j \in Processed : refunds'[j] = refunds[j]
  BY <1>1, <1>3 DEF Processed
<1>5. refundedMinor' = Total(EntryAmounts', Processed')
  <2>1. EntryAmounts'[k] = entry.amount /\ \A j \in Processed : EntryAmounts'[j] = EntryAmounts[j]
    BY <1>1, <1>2, <1>4 DEF EntryAmounts, Processed
  <2>2. IsFiniteSet(Processed) /\ \A j \in Processed : EntryAmounts'[j] \in Int
    BY <2>1, ProcessedFinite
  <2>3. Total(EntryAmounts', Processed) = Total(EntryAmounts, Processed)
    BY <2>1, <2>2, TotalSame
  <2>4. Total(EntryAmounts', Processed \cup {k}) = Total(EntryAmounts', Processed) + EntryAmounts'[k]
    <3>1. EntryAmounts'[k] \in Int
      BY <2>1 DEF Entry
    <3> QED BY <1>3, <2>2, <3>1, TotalAdds
  <2> QED BY <1>1, <1>3, <2>1, <2>3, <2>4 DEF BooksInv
<1>6. CreditNotesHaveNoGap'
  <2>1. notes \in Nat /\ notes' = notes + 1
    BY <1>1 DEF TypeOK
  <2>2. /\ {refunds[j].note : j \in Processed} = 1..notes
        /\ \A i, j \in Processed : refunds[i].note = refunds[j].note => i = j
    BY DEF BooksInv, CreditNotesHaveNoGap
  <2>3. \A j \in Processed : refunds'[j].note = refunds[j].note /\ refunds[j].note \in 1..notes
    BY <1>4, <2>2
  <2>4. {refunds'[j].note : j \in Processed \cup {k}} = 1..(notes + 1)
    <3>1. {refunds'[j].note : j \in Processed} = 1..notes
      BY <2>2, <2>3
    <3>2. {refunds'[j].note : j \in Processed \cup {k}} = {refunds'[j].note : j \in Processed} \cup {notes + 1}
      BY <1>2
    <3>3. 1..notes \cup {notes + 1} = 1..(notes + 1)
      BY <2>1
    <3> QED BY <3>1, <3>2, <3>3
  <2>5. \A i, j \in Processed \cup {k} : refunds'[i].note = refunds'[j].note => i = j
    BY <1>2, <2>1, <2>2, <2>3
  <2> QED BY <1>3, <2>1, <2>4, <2>5 DEF CreditNotesHaveNoGap
<1>7. /\ status' = "REFUNDED" <=> refundedMinor' >= Amount
      /\ payment' = "REFUNDED" <=> status' = "REFUNDED"
      /\ coupon' = "RELEASED" <=> status' = "REFUNDED"
  <2>1. payment # "REFUNDED" /\ coupon # "RELEASED" /\ Reopened(payment) # "REFUNDED"
    BY <1>1 DEF BooksInv, Reopened
  <2> QED BY <1>1, <2>1
<1> QED BY <1>5, <1>6, <1>7 DEF BooksInv

LEMMA StaysBooks == Typed /\ BooksInv /\ [Next]_vars => BooksInv'
<1> SUFFICES ASSUME Typed, BooksInv, [Next]_vars PROVE BooksInv'
  OBVIOUS
<1>1. Update /\ TypeOK
  BY StepUpdates, TypedIs
<1>2. CASE UNCHANGED records
  BY <1>1, <1>2, ProcessedStays DEF records, document, Processed
<1>3. ASSUME NEW amount \in 1..Amount, NEW withdraw \in 0..Credits,
             Claimable(amount) /\ claimRefund(amount, withdraw)
      PROVE  BooksInv'
  BY <1>1, <1>3, ClaimBooks
<1>4. ASSUME NEW k \in DOMAIN refunds, releaseRefundClaim(k)
      PROVE  BooksInv'
  BY <1>1, <1>2, <1>4, ReleaseBooks DEF releaseRefundClaim
<1>5. ASSUME NEW k \in DOMAIN refunds, NEW r \in RefundId, markRefundPending(k, r)
      PROVE  BooksInv'
  BY <1>1, <1>5, PendingBooks
<1>6. ASSUME NEW r \in RefundId, markRefundFailed(r)
      PROVE  BooksInv'
  BY <1>1, <1>2, <1>6, FailedBooks
<1>7. ASSUME NEW r \in RefundId, NEW amount \in 0..Amount, markPurchaseRefunded(r, amount)
      PROVE  BooksInv'
  BY <1>1, <1>2, <1>7, RefundedBooks DEF markPurchaseRefunded
<1>8. CASE unused > 0 /\ unused' = unused - 1 /\ UNCHANGED <<status, document, notes, revoked, coupon>>
  BY <1>1, <1>8, ProcessedStays DEF document, Processed
<1> QED BY <1>1, <1>2, <1>3, <1>4, <1>5, <1>6, <1>7, <1>8 DEF Update

-------------------------------------------------------------------------------
(* What the gateway has refunded, or will unless it fails, is no more than *)
(* was captured.                                                           *)

Amounts == [r \in RefundId |-> remote[r].amount]

Live == {r \in RefundId : remote[r].status \in {"PENDING", "PROCESSED"}}

CapacityInv == Total(Amounts, Live) <= Amount

LEMMA RemoteTotalIs == \A S : RemoteTotal(S) = Total(Amounts, {r \in RefundId : remote[r].status \in S})
BY DEF RemoteTotal, Amounts

LEMMA RefundsFinite == IsFiniteSet(RefundId) /\ \A S \in SUBSET RefundId : IsFiniteSet(S)
<1>1. 1 \in Int /\ MaxRefunds \in Int
  BY RefundsAssumption
<1>2. IsFiniteSet(1..MaxRefunds)
  BY <1>1, FS_Interval
<1>3. \A S \in SUBSET (1..MaxRefunds) : IsFiniteSet(S)
  BY <1>2, FS_Subset
<1> QED BY <1>2, <1>3 DEF RefundId

LEMMA AmountsTyped == Typed => \A r \in RefundId : Amounts[r] \in Nat /\ Amounts[r] = remote[r].amount
BY RefundsAssumption DEF Typed, GatewayOK, Amounts

LEMMA InitCapacity == Init => CapacityInv
<1> SUFFICES ASSUME Init PROVE CapacityInv
  OBVIOUS
<1>1. Live = {}
  BY DEF Init, Live
<1>2. Total(Amounts, {}) = 0
  BY TotalUnfolds, FS_EmptySet
<1> QED BY <1>1, <1>2, RefundsAssumption DEF CapacityInv

(* A refund is accepted, as a request's or in the dashboard.               *)
LEMMA AcceptedCapacity ==
  ASSUME Typed, NEW amount \in 1..Amount, NEW key \in Nat,
         NEW s \in {"PENDING", "PROCESSED", "FAILED"}, Accepts(amount, key, s), CapacityInv
  PROVE  CapacityInv'
<1> DEFINE n == NextId
<1>1. /\ n \in RefundId /\ n \notin Live
      /\ \A r \in RefundId : remote'[r] = IF r = n
                                            THEN [status |-> s, amount |-> amount, key |-> key]
                                            ELSE remote[r]
  BY AcceptsOK DEF Typed, GatewayOK, Live
<1>2. Total(Amounts, Live) + amount <= Amount
  BY RemoteTotalIs DEF Accepts, Live
<1>3. Live' = Live \/ Live' = Live \cup {n}
  BY <1>1 DEF Live
<1>4. IsFiniteSet(Live) /\ \A r \in Live : Amounts[r] \in Int /\ Amounts'[r] = Amounts[r]
  <2>1. Live \in SUBSET RefundId
    BY DEF Live
  <2>2. \A r \in Live : Amounts'[r] = Amounts[r]
    BY <1>1, <2>1 DEF Amounts
  <2> QED BY <2>1, <2>2, RefundsFinite, AmountsTyped
<1>5. Total(Amounts', Live) = Total(Amounts, Live)
  BY <1>4, TotalSame
<1>6. Amounts'[n] = amount
  BY <1>1 DEF Amounts
<1>7. Total(Amounts', Live \cup {n}) = Total(Amounts', Live) + amount
  <2>1. \A r \in Live : Amounts'[r] \in Int
    BY <1>4
  <2> HIDE DEF n
  <2> QED BY <1>1, <1>4, <1>6, <2>1, TotalAdds
<1>8. Total(Amounts, Live) \in Int
  BY <1>4, TotalRemove
<1> QED BY <1>2, <1>3, <1>5, <1>7, <1>8, RefundsAssumption DEF CapacityInv

LEMMA StaysCapacity == Typed /\ CapacityInv /\ [Next]_vars => CapacityInv'
<1> SUFFICES ASSUME Typed, CapacityInv, [Next]_vars PROVE CapacityInv'
  OBVIOUS
<1>1. CASE UNCHANGED remote
  BY <1>1 DEF CapacityInv, Amounts, Live
<1>2. ASSUME NEW a \in Request, Ask(a)
      PROVE  CapacityInv'
  <2>1. request[a].amount \in 1..Amount /\ request[a].key \in Nat
    <3>1. RequestOK(request[a], DOMAIN refunds)
      BY DEF Typed, RequestsOK
    <3> QED BY <1>2, <3>1, RefundsAssumption DEF RequestOK, RequestRecord, Ask
  <2> QED BY <1>2, <2>1, AcceptedCapacity DEF Ask
<1>3. CASE Dashboard
  BY <1>3, AcceptedCapacity DEF Dashboard
<1>4. ASSUME NEW r \in RefundId, Settle(r)
      PROVE  CapacityInv'
  <2>1. PICK s \in {"PROCESSED", "FAILED"} : remote' = [remote EXCEPT ![r].status = s]
    BY <1>4 DEF Settle
  <2>2. Amounts' = Amounts
    BY <2>1 DEF Amounts, Typed, GatewayOK
  <2>3. Live' \subseteq Live
    BY <1>4, <2>1 DEF Live, Typed, GatewayOK, Settle
  <2>4. Live \in SUBSET RefundId
    BY DEF Live
  <2>5. Total(Amounts, Live') <= Total(Amounts, Live)
    BY <2>3, <2>4, TotalWithin, RefundsFinite, AmountsTyped
  <2>6. Total(Amounts, Live) \in Int /\ Total(Amounts, Live') \in Int
    BY <2>3, <2>4, TotalRemove, RefundsFinite, AmountsTyped
  <2> QED BY <2>2, <2>5, <2>6, RefundsAssumption DEF CapacityInv
<1> QED BY <1>1, <1>2, <1>3, <1>4
    DEF Next, vars, Preview, Claim, ClaimOvertakes, Claims, AskRefused, AnswerLost,
        RecordAnswer, Conclude, RequestDies, RefundEvent, EventLost, ReconcileRead,
        ReconcileEarly, Reads, ReconcileAsk, ReconcileAct, UseCredit

-------------------------------------------------------------------------------
(* Ordinary executions                                                     *)

Asked(r) == remote[r].status # "NONE"

Waiting(a) == request[a].step \in {"CLAIMED", "ANSWERED", "RECORDED"}

(* One refund at a time is open, and an entry that has a refund of the     *)
(* gateway is the one it was asked with.                                   *)
EntriesInv ==
  \A k \in DOMAIN refunds :
    /\ refunds[k].id # 0 => remote[refunds[k].id].key = k
    /\ refunds[k].status = "requested" => refunds[k].id = 0 /\ payment = "REFUND_REQUESTED"
    /\ refunds[k].status = "pending" => refunds[k].id # 0 /\ payment = "REFUND_PENDING"
    /\ refunds[k].status = "processed" => refunds[k].id # 0 /\ IsProcessed(refunds[k].id)
    /\ \A j \in DOMAIN refunds : Open(j) /\ Open(k) => j = k

(* Each claim is asked for once; until the answer is recorded, or found by *)
(* an event, the request that asked is there to record it.                 *)
RemoteInv ==
  \A r \in RefundId :
    Asked(r) =>
      /\ remote[r].key \in DOMAIN refunds
      /\ remote[r].amount = refunds[remote[r].key].amount
      /\ refunds[remote[r].key].status = "failed" => remote[r].status = "FAILED"
      /\ refunds[remote[r].key].id = 0
           => /\ refunds[remote[r].key].status = "requested"
              /\ \E a \in Request : request[a].step = "ANSWERED" /\ request[a].key = remote[r].key
      /\ \A s \in RefundId : remote[s].key = remote[r].key => s = r

RequestInv(a) ==
  Waiting(a) =>
    /\ \A b \in Request : Waiting(b) /\ request[b].key = request[a].key => a = b
    /\ request[a].amount = refunds[request[a].key].amount
    /\ request[a].step = "CLAIMED"
         => /\ refunds[request[a].key].status = "requested"
            /\ \A r \in RefundId : remote[r].key # request[a].key
    /\ request[a].step \in {"ANSWERED", "RECORDED"}
         => /\ remote[request[a].id].key = request[a].key
            /\ request[a].answer \in {"PROCESSED", "FAILED"}
                 => remote[request[a].id].status = request[a].answer
    /\ request[a].step = "RECORDED" => refunds[request[a].key].id = request[a].id

(* The sweep works on the one open refund: on a claim that nobody holds    *)
(* and the gateway has not, or on a refund the gateway has named.          *)
ReconInv ==
  recon.step # "IDLE" =>
    /\ \A j \in DOMAIN refunds : Open(j) => j = recon.key
    /\ recon.id = 0 => /\ \A a \in Request : Waiting(a) => request[a].key # recon.key
                       /\ \A r \in RefundId : remote[r].key # recon.key
    /\ recon.id # 0 => refunds[recon.key].id = recon.id
    /\ recon.step = "READ" /\ recon.id # 0 /\ refunds[recon.key].status # "processed"
         => recon.target = refundedMinor + refunds[recon.key].amount
    /\ recon.step = "RELEASE" => recon.id = 0
    /\ recon.step = "COMPLETE" => IsProcessed(recon.id)

Applied == {refunds[k].id : k \in Processed}

AppliedInv ==
  /\ refundedMinor = Total(Amounts, Applied)
  /\ revoked \subseteq Applied
  /\ status = "REFUNDED" => unused = 0

OrdinaryInv ==
  EntriesInv /\ RemoteInv /\ (\A a \in Request : RequestInv(a)) /\ ReconInv /\ AppliedInv

LEMMA InitOrdinary == Init => OrdinaryInv
<1> SUFFICES ASSUME Init PROVE OrdinaryInv
  OBVIOUS
<1>1. DOMAIN refunds = {} /\ Applied = {}
  BY DEF Init, Applied, Processed
<1>2. Total(Amounts, {}) = 0
  BY TotalUnfolds, FS_EmptySet
<1>3. EntriesInv
  BY <1>1 DEF EntriesInv
<1>4. RemoteInv
  BY DEF Init, RemoteInv, Asked
<1>5. \A a \in Request : RequestInv(a)
  BY DEF Init, RequestInv, Waiting, Quiet
<1>6. ReconInv
  BY DEF Init, ReconInv, NotReconciling
<1>7. AppliedInv
  BY <1>1, <1>2 DEF Init, AppliedInv
<1> QED BY <1>3, <1>4, <1>5, <1>6, <1>7 DEF OrdinaryInv

(* The types that the steps below need.                                    *)
LEMMA Facts ==
  ASSUME Typed
  PROVE  /\ Len(refunds) \in Nat
         /\ DOMAIN refunds = 1..Len(refunds)
         /\ \A k \in DOMAIN refunds : refunds[k].amount \in Nat /\ refunds[k].amount > 0
                                        /\ refunds[k].id \in 0..MaxRefunds
         /\ \A k \in DOMAIN refunds : refunds[k].id # 0 => refunds[k].id \in RefundId
         /\ 0 \notin DOMAIN refunds /\ 0 \notin RefundId
         /\ refundedMinor \in Nat
         /\ \A r \in RefundId : ~Asked(r) => remote[r].key = 0
         /\ \A a \in Request : /\ Waiting(a) => request[a].key \in DOMAIN refunds
                               /\ ~Waiting(a) => request[a].key = 0
                               /\ request[a].step \in {"ANSWERED", "RECORDED"}
                                    => request[a].id \in RefundId
         /\ recon.step # "IDLE" => recon.key \in DOMAIN refunds
         /\ recon.id # 0 => recon.id \in RefundId
<1>1. TypeOK
  BY TypedIs
<1>2. \A k \in DOMAIN refunds : refunds[k].amount \in Nat /\ refunds[k].amount > 0
                                        /\ refunds[k].id \in 0..MaxRefunds
  BY <1>1, Sizes, RefundsAssumption DEF Entry
<1>3. ASSUME NEW a \in Request
      PROVE  /\ Waiting(a) => request[a].key \in DOMAIN refunds
             /\ ~Waiting(a) => request[a].key = 0
             /\ request[a].step \in {"ANSWERED", "RECORDED"} => request[a].id \in RefundId
  <2>1. RequestOK(request[a], DOMAIN refunds)
    BY DEF Typed, RequestsOK
  <2> QED BY <2>1, RefundsAssumption DEF RequestOK, RequestRecord, Waiting, Step, Quiet, RefundId
<1>4. \A r \in RefundId : ~Asked(r) => remote[r].key = 0
  BY DEF Typed, GatewayOK, Asked
<1>5. /\ recon.step # "IDLE" => recon.key \in DOMAIN refunds
      /\ recon.id # 0 => recon.id \in RefundId
  BY RefundsAssumption DEF Typed, ReconOK, RefundId
<1>6. 0 \notin RefundId
  BY DEF RefundId
<1>7. Len(refunds) \in Nat /\ DOMAIN refunds = 1..Len(refunds) /\ refundedMinor \in Nat
  BY <1>1, Sizes DEF TypeOK
<1>8. \A k \in DOMAIN refunds : refunds[k].id # 0 => refunds[k].id \in RefundId
  BY <1>2, RefundsAssumption DEF RefundId
<1> QED BY <1>2, <1>3, <1>4, <1>5, <1>6, <1>7, <1>8

-------------------------------------------------------------------------------
(* What an ordinary step keeps.                                            *)

LEMMA OrdinaryStep ==
  ASSUME [Next]_vars, Ordinary'
  PROVE  /\ Ordinary
         /\ ~Fault("ANSWER_LOST") /\ ~Fault("OVERTAKEN") /\ ~Fault("SLOW") /\ ~Fault("DASHBOARD")
<1>1. \A kind : Fault(kind) => kind \in faults'
  BY DEF Fault
<1>2. ~Fault("ANSWER_LOST") /\ ~Fault("OVERTAKEN") /\ ~Fault("SLOW") /\ ~Fault("DASHBOARD")
  BY <1>1 DEF Ordinary
<1>3. faults \subseteq faults'
  BY DEF Next, vars, Fault, Preview, Claim, ClaimOvertakes, Claims, Ask, AskRefused, AnswerLost,
         RecordAnswer, Conclude, RequestDies, Settle, RefundEvent, EventLost, Dashboard,
         ReconcileRead, ReconcileEarly, Reads, ReconcileAsk, ReconcileAct, UseCredit
<1> QED BY <1>2, <1>3 DEF Ordinary

LEMMA FirstOfOne == \A k : First({k}) = k
<1> SUFFICES ASSUME NEW k PROVE (CHOOSE j \in {k} : \A i \in {k} : j <= i) = k
  BY DEF First
<1> QED OBVIOUS

(* A refund of the gateway is matched with the entry it was asked for.     *)
LEMMA MatchesItsOwn ==
  ASSUME Typed, OrdinaryInv, NEW r \in RefundId, Asked(r)
  PROVE  /\ WithId(r) # 0 => WithId(r) = remote[r].key
         /\ WithId(r) = 0 => First(Unanswered) = remote[r].key
         /\ \A amount \in {0, remote[r].amount} : MatchingEntry(r, amount) = remote[r].key
<1> DEFINE k == remote[r].key
<1>1. k \in DOMAIN refunds /\ remote[r].amount = refunds[k].amount
  BY DEF OrdinaryInv, RemoteInv
<1>2. WithId(r) # 0 => WithId(r) = k
  <2>1. WithId(r) # 0 => WithId(r) \in DOMAIN refunds /\ refunds[WithId(r)].id = r
    BY Found, TypedIs
  <2> QED BY <2>1, Facts DEF OrdinaryInv, EntriesInv
<1>3. WithId(r) = 0 => Unanswered = {k}
  <2> SUFFICES ASSUME WithId(r) = 0 PROVE Unanswered = {k}
    OBVIOUS
  <2>1. refunds[k].id # r
    BY <1>1, Found, TypedIs
  <2>2. refunds[k].id = 0
    <3> SUFFICES ASSUME refunds[k].id # 0 PROVE FALSE
      OBVIOUS
    <3>1. refunds[k].id \in RefundId /\ remote[refunds[k].id].key = k
      BY <1>1, Facts DEF OrdinaryInv, EntriesInv
    <3> QED BY <2>1, <3>1 DEF OrdinaryInv, RemoteInv
  <2>3. refunds[k].status = "requested"
    BY <2>2 DEF OrdinaryInv, RemoteInv
  <2>4. \A j \in Unanswered : j = k
    BY <1>1, <2>3 DEF OrdinaryInv, EntriesInv, Unanswered, Open
  <2> QED BY <1>1, <2>2, <2>3, <2>4 DEF Unanswered
<1>4. WithId(r) = 0 => First(Unanswered) = k
  BY <1>3, FirstOfOne
<1>5. ASSUME NEW amount \in {0, remote[r].amount}, WithId(r) = 0
      PROVE  MatchingEntry(r, amount) = k
  <2>1. {j \in Unanswered : amount \in {0, refunds[j].amount}} = {k}
    BY <1>1, <1>3, <1>5
  <2> QED BY <1>5, <2>1, FirstOfOne DEF MatchingEntry
<1> QED BY <1>2, <1>4, <1>5 DEF MatchingEntry

(* The open entry of refund r ends.                                        *)
Closed(r, s) ==
  LET k == remote[r].key IN
  /\ k \in DOMAIN refunds /\ Open(k)
  /\ DOMAIN refunds' = DOMAIN refunds
  /\ \A j \in DOMAIN refunds : j # k => refunds'[j] = refunds[j]
  /\ refunds'[k].id = r /\ refunds'[k].status = s /\ refunds'[k].amount = refunds[k].amount

LEMMA ProcessedCloses ==
  ASSUME Typed, OrdinaryInv, NEW r \in RefundId, IsProcessed(r),
         NEW amount \in {0, remote[r].amount}, markPurchaseRefunded(r, amount)
  PROVE  \/ UNCHANGED records
         \/ /\ Closed(r, "processed")
            /\ refundedMinor' = refundedMinor + remote[r].amount
            /\ revoked' \subseteq revoked \cup {r}
            /\ r \notin revoked => (status' = "REFUNDED" => unused' = 0)
<1> SUFFICES ASSUME Applies(r, amount)
    PROVE  /\ Closed(r, "processed")
           /\ refundedMinor' = refundedMinor + remote[r].amount
           /\ revoked' \subseteq revoked \cup {r}
           /\ r \notin revoked => (status' = "REFUNDED" => unused' = 0)
  BY DEF markPurchaseRefunded
<1>1. Asked(r)
  BY DEF Asked, IsProcessed
<1> DEFINE k == remote[r].key
<1>2. k \in DOMAIN refunds /\ remote[r].amount = refunds[k].amount
      /\ refunds[k].status # "failed"
  BY <1>1 DEF OrdinaryInv, RemoteInv, IsProcessed
<1>3. EntryOf(r, amount) = k
  BY <1>1, <1>2, MatchesItsOwn, Facts DEF EntryOf
<1>4. amount \in 0..Amount /\ TypeOK
  BY TypedIs, RefundsAssumption DEF Typed, GatewayOK
<1>5. PICK entry \in Entry :
           /\ entry = refunds[k] /\ entry.status # "processed"
           /\ DOMAIN refunds' = DOMAIN refunds \cup {k}
           /\ refunds'[k] = [entry EXCEPT !.id = r, !.status = "processed", !.note = notes + 1]
           /\ \A j \in DOMAIN refunds' \ {k} : refunds'[j] = refunds[j]
           /\ refundedMinor' = refundedMinor + entry.amount
           /\ revoked' \in {revoked, revoked \cup {r}}
           /\ r \notin revoked => (status' = "REFUNDED" => unused' = 0)
  <2>1. PICK kk \in 1..(Len(refunds) + 1), entry \in Entry :
           /\ kk = EntryOf(r, amount)
           /\ IF kk \in DOMAIN refunds
                THEN entry = refunds[kk] /\ entry.status # "processed"
                ELSE kk = Len(refunds) + 1
           /\ kk \in DOMAIN refunds' /\ Len(refunds') \in {Len(refunds), Len(refunds) + 1}
           /\ refunds' \in Seq(Entry)
           /\ DOMAIN refunds' = DOMAIN refunds \cup {kk}
           /\ refunds'[kk] = [entry EXCEPT !.id = r, !.status = "processed", !.note = notes + 1]
           /\ \A j \in DOMAIN refunds' \ {kk} : refunds'[j] = refunds[j]
           /\ status = "PAID"
           /\ refundedMinor' = refundedMinor + entry.amount
           /\ notes' = notes + 1
           /\ unused' \in 0..Credits
           /\ revoked' \in {revoked, revoked \cup {r}}
           /\ payment' \in {payment, Reopened(payment), "REFUNDED"}
           /\ IF refundedMinor' >= Amount
                THEN /\ status' = "REFUNDED" /\ coupon' = "RELEASED" /\ payment' = "REFUNDED"
                     /\ r \notin revoked => unused' = 0
                ELSE /\ status' = "PAID" /\ coupon' = coupon
                     /\ payment' = IF \E j \in DOMAIN refunds' :
                                        refunds'[j].status \in {"requested", "pending"}
                                     THEN payment ELSE Reopened(payment)
    BY <1>4, RefundedEffect
  <2>2. kk = k
    BY <1>3, <2>1
  <2> HIDE DEF k
  <2> QED BY <1>2, <2>1, <2>2
<1>6. Open(k)
  BY <1>2, <1>5 DEF Entry, Open
<1>7. refunds'[k].id = r /\ refunds'[k].status = "processed" /\ refunds'[k].amount = refunds[k].amount
  <2> HIDE DEF k
  <2> QED BY <1>5 DEF Entry
<1>8. Closed(r, "processed")
  BY <1>2, <1>5, <1>6, <1>7 DEF Closed
<1> QED BY <1>2, <1>5, <1>8

LEMMA FailedCloses ==
  ASSUME Typed, OrdinaryInv, NEW r \in RefundId, Asked(r), markRefundFailed(r)
  PROVE  \/ UNCHANGED records
         \/ Closed(r, "failed") /\ UNCHANGED <<refundedMinor, revoked, status, unused>>
<1> DEFINE k == IF WithId(r) # 0 THEN WithId(r) ELSE First(Unanswered)
           e == [refunds[k] EXCEPT !.id = r, !.status = "failed"]
<1>1. k = remote[r].key
  BY MatchesItsOwn
<1>2. k \in DOMAIN refunds /\ k # 0 /\ refunds[k] \in Entry
  <2>1. remote[r].key \in DOMAIN refunds
    BY DEF OrdinaryInv, RemoteInv
  <2> HIDE DEF k
  <2> QED BY <1>1, <2>1, Facts, TypedIs, Sizes
<1>3. CASE ~Open(k)
  BY <1>2, <1>3 DEF markRefundFailed
<1>4. CASE Open(k)
  <2>1. refunds' = [refunds EXCEPT ![k] = e]
        /\ UNCHANGED <<refundedMinor, revoked, status, unused>>
    BY <1>2, <1>4 DEF markRefundFailed
  <2> HIDE DEF k
  <2>2. e.id = r /\ e.status = "failed" /\ e.amount = refunds[k].amount
    BY <1>2 DEF Entry
  <2> HIDE DEF e
  <2>3. /\ DOMAIN refunds' = DOMAIN refunds
        /\ \A j \in DOMAIN refunds : refunds'[j] = IF j = k THEN e ELSE refunds[j]
    BY <2>1, TypedIs DEF TypeOK
  <2> QED BY <1>1, <1>2, <1>4, <2>1, <2>2, <2>3 DEF Closed
<1> QED BY <1>3, <1>4

(* The requests after a step: as before, or one of them done.              *)
Rests(a) == request' = [request EXCEPT ![a] = Quiet]

LEMMA RestsIs ==
  ASSUME Typed, NEW a \in Request, Rests(a)
  PROVE  /\ \A b \in Request : request'[b] = IF b = a THEN Quiet ELSE request[b]
         /\ ~(Waiting(a))' /\ request'[a].step = "IDLE"
         /\ \A b \in Request : (Waiting(b))' <=> b # a /\ Waiting(b)
<1>1. \A b \in Request : request'[b] = IF b = a THEN Quiet ELSE request[b]
  BY DEF Rests, Typed, RequestsOK
<1>2. Quiet.step = "IDLE"
  BY DEF Quiet
<1> QED BY <1>1, <1>2 DEF Waiting
(* Ends keep the ordinary invariant.                                       *)
LEMMA ClosedEntries ==
  ASSUME Typed, OrdinaryInv, NEW r \in RefundId, NEW s \in {"processed", "failed"},
         Closed(r, s), s = "processed" => IsProcessed(r), UNCHANGED remote
  PROVE  /\ EntriesInv'
         /\ \A j \in DOMAIN refunds' : ~(Open(j))'
<1> DEFINE k == remote[r].key
<1>1. /\ k \in DOMAIN refunds /\ Open(k) /\ DOMAIN refunds' = DOMAIN refunds
      /\ \A j \in DOMAIN refunds : j # k => refunds'[j] = refunds[j]
      /\ refunds'[k].id = r /\ refunds'[k].status = s
  BY DEF Closed
<1>2. \A j \in DOMAIN refunds : j # k => ~Open(j)
  BY <1>1 DEF OrdinaryInv, EntriesInv
<1>3. \A j \in DOMAIN refunds' : ~(Open(j))'
  BY <1>1, <1>2 DEF Open
<1>4. ASSUME NEW j \in DOMAIN refunds'
      PROVE  /\ refunds'[j].id # 0 => remote'[refunds'[j].id].key = j
             /\ refunds'[j].status = "processed" => refunds'[j].id # 0 /\ (IsProcessed(refunds[j].id))'
  BY <1>1, Facts DEF OrdinaryInv, EntriesInv, IsProcessed
<1> QED BY <1>3, <1>4 DEF EntriesInv, Open

LEMMA ClosedRemote ==
  ASSUME Typed, OrdinaryInv, NEW r \in RefundId, NEW s \in {"processed", "failed"},
         Closed(r, s), s = "failed" => remote[r].status = "FAILED", UNCHANGED remote
  PROVE  RemoteInv'
<1> DEFINE k == remote[r].key
<1>1. /\ k \in DOMAIN refunds /\ Open(k) /\ DOMAIN refunds' = DOMAIN refunds
      /\ \A j \in DOMAIN refunds : j # k => refunds'[j] = refunds[j]
      /\ refunds'[k].id = r /\ refunds'[k].status = s /\ refunds'[k].amount = refunds[k].amount
  BY DEF Closed
<1>2. \A j \in DOMAIN refunds : j # k => refunds[j].status # "requested"
  BY <1>1 DEF OrdinaryInv, EntriesInv, Open
<1> SUFFICES ASSUME NEW q \in RefundId, Asked(q)
    PROVE  /\ remote[q].key \in DOMAIN refunds
           /\ remote[q].amount = refunds'[remote[q].key].amount
           /\ refunds'[remote[q].key].status = "failed" => remote[q].status = "FAILED"
           /\ refunds'[remote[q].key].id # 0
           /\ \A p \in RefundId : remote[p].key = remote[q].key => p = q
  BY <1>1 DEF RemoteInv, Asked
<1>3. /\ remote[q].key \in DOMAIN refunds
      /\ remote[q].amount = refunds[remote[q].key].amount
      /\ refunds[remote[q].key].status = "failed" => remote[q].status = "FAILED"
      /\ refunds[remote[q].key].id = 0 => refunds[remote[q].key].status = "requested"
      /\ \A p \in RefundId : remote[p].key = remote[q].key => p = q
  BY DEF OrdinaryInv, RemoteInv
<1>4. CASE remote[q].key = k
  BY <1>1, <1>3, <1>4, Facts
<1>5. CASE remote[q].key # k
  BY <1>1, <1>2, <1>3, <1>5
<1> QED BY <1>4, <1>5

LEMMA ClosedRequests ==
  ASSUME Typed, OrdinaryInv, NEW r \in RefundId, NEW s \in {"processed", "failed"},
         Closed(r, s), UNCHANGED remote,
         UNCHANGED request \/ \E a \in Request : Rests(a)
  PROVE  \A b \in Request : RequestInv(b)'
<1> DEFINE k == remote[r].key
<1>1. /\ k \in DOMAIN refunds /\ DOMAIN refunds' = DOMAIN refunds
      /\ \A j \in DOMAIN refunds : j # k => refunds'[j] = refunds[j]
      /\ refunds'[k].id = r /\ refunds'[k].amount = refunds[k].amount
  BY DEF Closed
<1>2. \A b \in Request : (Waiting(b))' => Waiting(b) /\ request'[b] = request[b]
  BY RestsIs DEF Waiting
<1> TAKE b \in Request
<1> SUFFICES ASSUME (Waiting(b))'
    PROVE  /\ \A c \in Request : (Waiting(c))' /\ request'[c].key = request'[b].key => b = c
           /\ request'[b].amount = refunds'[request'[b].key].amount
           /\ request'[b].step = "CLAIMED"
                => /\ refunds'[request'[b].key].status = "requested"
                   /\ \A q \in RefundId : remote'[q].key # request'[b].key
           /\ request'[b].step \in {"ANSWERED", "RECORDED"}
                => /\ remote'[request'[b].id].key = request'[b].key
                   /\ request'[b].answer \in {"PROCESSED", "FAILED"}
                        => remote'[request'[b].id].status = request'[b].answer
           /\ request'[b].step = "RECORDED" => refunds'[request'[b].key].id = request'[b].id
  BY DEF RequestInv
<1>3. Waiting(b) /\ request'[b] = request[b] /\ RequestInv(b)
  BY <1>2 DEF OrdinaryInv
<1>4. request[b].key \in DOMAIN refunds
  BY <1>3, Facts
<1>5. request[b].key = k => request[b].step # "CLAIMED"
  BY <1>3 DEF RequestInv
<1>6. request[b].key = k /\ request[b].step = "RECORDED" => request[b].id = r
  <2> SUFFICES ASSUME request[b].key = k, request[b].step = "RECORDED" PROVE request[b].id = r
    OBVIOUS
  <2>1. request[b].id \in RefundId /\ remote[request[b].id].key = k /\ k # 0
    BY <1>1, <1>3, Facts DEF RequestInv
  <2>2. Asked(r)
    BY <1>1, Facts
  <2> QED BY <2>1, <2>2 DEF OrdinaryInv, RemoteInv
<1>7. \A c \in Request : (Waiting(c))' /\ request'[c].key = request'[b].key => b = c
  BY <1>2, <1>3 DEF RequestInv
<1> HIDE DEF k
<1> QED BY <1>1, <1>3, <1>4, <1>5, <1>6, <1>7 DEF RequestInv

LEMMA ClosedRecon ==
  ASSUME Typed, OrdinaryInv, NEW r \in RefundId, NEW s \in {"processed", "failed"},
         Closed(r, s), UNCHANGED remote,
         \A j \in DOMAIN refunds' : ~(Open(j))',
         s = "failed" => UNCHANGED refundedMinor,
         UNCHANGED request \/ \E a \in Request : Rests(a),
         UNCHANGED recon \/ recon' = NotReconciling
  PROVE  ReconInv'
<1> DEFINE k == remote[r].key
<1>1. /\ k \in DOMAIN refunds /\ Open(k) /\ DOMAIN refunds' = DOMAIN refunds
      /\ \A j \in DOMAIN refunds : j # k => refunds'[j] = refunds[j]
      /\ refunds'[k].id = r /\ refunds'[k].status = s /\ refunds'[k].amount = refunds[k].amount
  BY DEF Closed
<1>2. CASE recon' = NotReconciling
  BY <1>2 DEF ReconInv, NotReconciling
<1>3. CASE UNCHANGED recon /\ recon.step # "IDLE"
  <2>1. recon.key = k
    BY <1>1, <1>3 DEF OrdinaryInv, ReconInv
  <2>2. \A b \in Request : (Waiting(b))' => Waiting(b) /\ request'[b] = request[b]
    BY RestsIs DEF Waiting
  <2>3. recon.id # 0 => recon.id = r
    <3> SUFFICES ASSUME recon.id # 0 PROVE recon.id = r
      OBVIOUS
    <3>1. recon.id \in RefundId /\ refunds[k].id = recon.id
      BY <1>3, <2>1, Facts DEF OrdinaryInv, ReconInv
    <3>2. remote[recon.id].key = k /\ k # 0
      BY <1>1, <3>1, Facts DEF OrdinaryInv, EntriesInv
    <3>3. Asked(r)
      BY <3>2, Facts
    <3> QED BY <3>1, <3>2, <3>3 DEF OrdinaryInv, RemoteInv
  <2>4. recon.id = 0 => /\ \A b \in Request : (Waiting(b))' => request'[b].key # recon.key
                        /\ \A q \in RefundId : remote[q].key # recon.key
    BY <1>3, <2>2 DEF OrdinaryInv, ReconInv
  <2>5. recon.step = "READ" /\ recon.id # 0 /\ refunds'[k].status # "processed"
          => recon.target = refundedMinor' + refunds'[k].amount
    BY <1>1, <1>3, <2>1 DEF OrdinaryInv, ReconInv, Open
  <2>6. /\ recon.step = "RELEASE" => recon.id = 0
        /\ recon.step = "COMPLETE" => IsProcessed(recon.id)
    BY <1>3 DEF OrdinaryInv, ReconInv
  <2> HIDE DEF k
  <2> QED BY <1>1, <1>3, <2>1, <2>3, <2>4, <2>5, <2>6 DEF ReconInv, IsProcessed
<1>4. CASE UNCHANGED recon /\ recon.step = "IDLE"
  BY <1>4 DEF ReconInv
<1> QED BY <1>2, <1>3, <1>4

LEMMA AppliedFinite ==
  ASSUME Typed, OrdinaryInv
  PROVE  Applied \in SUBSET RefundId /\ IsFiniteSet(Applied)
<1>1. Applied \in SUBSET RefundId
  BY Facts DEF Applied, Processed, OrdinaryInv, EntriesInv
<1> QED BY <1>1, RefundsFinite

(* No refund is applied.                                                   *)
LEMMA AppliedStays ==
  ASSUME Typed, OrdinaryInv, Applied' = Applied,
         \A r \in RefundId : Asked(r) => remote'[r].amount = remote[r].amount,
         UNCHANGED <<refundedMinor, status, revoked>>,
         status = "REFUNDED" /\ unused = 0 => unused' = 0
  PROVE  AppliedInv'
<1>1. \A r \in Applied : r \in RefundId /\ Asked(r)
  BY Facts DEF Applied, Processed, OrdinaryInv, EntriesInv, Asked, IsProcessed
<1>2. \A r \in Applied : Amounts'[r] = Amounts[r]
  BY <1>1 DEF Amounts
<1>3. Total(Amounts', Applied) = Total(Amounts, Applied)
  BY <1>2, AppliedFinite, TotalSame
<1> QED BY <1>3 DEF OrdinaryInv, AppliedInv

LEMMA ClosedApplied ==
  ASSUME Typed, OrdinaryInv, NEW r \in RefundId, UNCHANGED remote,
         \/ /\ Closed(r, "processed")
            /\ refundedMinor' = refundedMinor + remote[r].amount
            /\ revoked' \subseteq revoked \cup {r}
            /\ r \notin revoked => (status' = "REFUNDED" => unused' = 0)
         \/ Closed(r, "failed") /\ UNCHANGED <<refundedMinor, revoked, status, unused>>
  PROVE  AppliedInv'
<1> DEFINE k == remote[r].key
<1>1. /\ k \in DOMAIN refunds /\ Open(k) /\ DOMAIN refunds' = DOMAIN refunds
      /\ \A j \in DOMAIN refunds : j # k => refunds'[j] = refunds[j]
      /\ refunds'[k].id = r
  BY DEF Closed
<1>2. k \notin Processed
  BY <1>1 DEF Open, Processed
<1>3. CASE refunds'[k].status = "failed"
  <2>1. Processed' = Processed
    BY <1>1, <1>2, <1>3 DEF Processed
  <2>2. Applied' = Applied
    BY <1>1, <1>2, <2>1 DEF Applied, Processed
  <2>3. UNCHANGED <<refundedMinor, revoked, status, unused>>
    BY <1>3 DEF Closed
  <2> QED BY <2>2, <2>3, AppliedStays
<1>4. CASE refunds'[k].status = "processed"
  <2>1. Processed' = Processed \cup {k}
    BY <1>1, <1>2, <1>4 DEF Processed
  <2>2. Applied' = Applied \cup {r}
    BY <1>1, <1>2, <2>1 DEF Applied, Processed
  <2>3. r \notin Applied
    BY <1>1, <1>2, Facts DEF Applied, Processed, OrdinaryInv, EntriesInv
  <2>4. /\ refundedMinor' = refundedMinor + remote[r].amount
        /\ revoked' \subseteq revoked \cup {r}
        /\ r \notin revoked => (status' = "REFUNDED" => unused' = 0)
    BY <1>4 DEF Closed
  <2>5. Total(Amounts, Applied \cup {r}) = Total(Amounts, Applied) + Amounts[r]
    BY <2>3, AppliedFinite, AmountsTyped, TotalAdds
  <2>6. Amounts' = Amounts /\ Amounts[r] = remote[r].amount
    BY DEF Amounts
  <2> QED BY <2>2, <2>3, <2>4, <2>5, <2>6 DEF OrdinaryInv, AppliedInv
<1> QED BY <1>3, <1>4 DEF Closed

LEMMA ClosedKeeps ==
  ASSUME Typed, OrdinaryInv, NEW r \in RefundId, UNCHANGED remote,
         \/ /\ Closed(r, "processed") /\ IsProcessed(r)
            /\ refundedMinor' = refundedMinor + remote[r].amount
            /\ revoked' \subseteq revoked \cup {r}
            /\ r \notin revoked => (status' = "REFUNDED" => unused' = 0)
         \/ /\ Closed(r, "failed") /\ remote[r].status = "FAILED"
            /\ UNCHANGED <<refundedMinor, revoked, status, unused>>,
         UNCHANGED request \/ \E a \in Request : Rests(a),
         UNCHANGED recon \/ recon' = NotReconciling
  PROVE  OrdinaryInv'
<1>1. PICK s \in {"processed", "failed"} :
        /\ Closed(r, s)
        /\ s = "processed" => IsProcessed(r)
        /\ s = "failed" => remote[r].status = "FAILED" /\ UNCHANGED refundedMinor
  OBVIOUS
<1>2. EntriesInv' /\ \A j \in DOMAIN refunds' : ~(Open(j))'
  BY <1>1, ClosedEntries
<1>3. RemoteInv'
  BY <1>1, ClosedRemote
<1>4. \A b \in Request : RequestInv(b)'
  BY <1>1, ClosedRequests
<1>5. ReconInv'
  BY <1>1, <1>2, ClosedRecon
<1>6. AppliedInv'
  BY ClosedApplied
<1> QED BY <1>2, <1>3, <1>4, <1>5, <1>6 DEF OrdinaryInv

-------------------------------------------------------------------------------
(* The steps.                                                              *)

(* Steps that change only what a request is doing, and end none of those   *)
(* that wait for an answer.                                                *)
LEMMA RequestOnlyKeeps ==
  ASSUME Typed, OrdinaryInv, NEW a \in Request, UNCHANGED <<records, remote, recon>>,
         \A b \in Request : b # a => request'[b] = request[b],
         ~(Waiting(a))', request[a].step # "ANSWERED"
  PROVE  OrdinaryInv'
<1>1. \A b \in Request : (Waiting(b))' => b # a /\ Waiting(b) /\ request'[b] = request[b]
  BY DEF Waiting
<1>2. UNCHANGED <<refunds, payment, refundedMinor, status, unused, revoked, remote, recon>>
  BY DEF records, document
<1>3. EntriesInv'
  BY <1>2 DEF OrdinaryInv, EntriesInv, Open, IsProcessed
<1>4. RemoteInv'
  <2>1. \A b \in Request : request[b].step = "ANSWERED" => request'[b] = request[b]
    OBVIOUS
  <2> QED BY <1>2, <2>1 DEF OrdinaryInv, RemoteInv, Asked
<1>5. \A b \in Request : RequestInv(b)'
  BY <1>1, <1>2 DEF OrdinaryInv, RequestInv
<1>6. ReconInv'
  BY <1>1, <1>2 DEF OrdinaryInv, ReconInv, Open, IsProcessed
<1>7. AppliedInv'
  <2>1. Applied' = Applied
    BY <1>2 DEF Applied, Processed
  <2> QED BY <1>2, <2>1, AppliedStays
<1> QED BY <1>3, <1>4, <1>5, <1>6, <1>7 DEF OrdinaryInv

LEMMA PreviewKeeps ==
  ASSUME Typed, OrdinaryInv, NEW a \in Request, Preview(a)
  PROVE  OrdinaryInv'
<1>1. request \in [Request -> RequestRecord]
  BY DEF Typed, RequestsOK
<1>2. request'[a].step = "PREVIEWED" /\ \A b \in Request : b # a => request'[b] = request[b]
  BY <1>1 DEF Preview, RequestRecord
<1>3. UNCHANGED <<records, remote, recon>> /\ request[a].step = "IDLE"
  BY DEF Preview
<1> QED BY <1>2, <1>3, RequestOnlyKeeps DEF Waiting

LEMMA RequestDiesKeeps ==
  ASSUME Typed, OrdinaryInv, NEW a \in Request, RequestDies(a), ~Fault("ANSWER_LOST")
  PROVE  OrdinaryInv'
<1>1. Rests(a) /\ request[a].step # "ANSWERED" /\ UNCHANGED <<records, remote, recon>>
  BY DEF RequestDies, Rests
<1> QED BY <1>1, RestsIs, RequestOnlyKeeps

LEMMA ClaimKeeps ==
  ASSUME Typed, OrdinaryInv, NEW a \in Request, Claim(a)
  PROVE  OrdinaryInv'
<1>1. CASE ~Claimable(request[a].amount)
  <2>1. Rests(a) /\ request[a].step = "PREVIEWED" /\ UNCHANGED <<records, remote, recon>>
    BY <1>1 DEF Claim, Claims, Rests
  <2> QED BY <2>1, RestsIs, RequestOnlyKeeps
<1>2. CASE Claimable(request[a].amount)
  <2> DEFINE n == Len(refunds) + 1
             q == request[a]
             e == [id |-> 0, amount |-> q.amount, withdraw |-> q.withdraw, note |-> 0,
                   status |-> "requested"]
  <2>1. /\ q \in RequestRecord /\ q.amount > 0 /\ q.step = "PREVIEWED"
        /\ request \in [Request -> RequestRecord]
    BY DEF Claim, Claims, Typed, RequestsOK, RequestOK
  <2>2. /\ request'[a].step = "CLAIMED" /\ request'[a].key = n /\ request'[a].amount = q.amount
        /\ \A b \in Request : b # a => request'[b] = request[b]
    BY <1>2, <2>1 DEF Claim, Claims, RequestRecord
  <2>3. e \in Entry /\ e.id = 0 /\ e.status = "requested" /\ e.amount = q.amount
    BY <2>1, RefundsAssumption DEF Entry, RequestRecord
  <2>4. /\ refunds' = Append(refunds, e) /\ payment = "CAPTURED" /\ payment' = "REFUND_REQUESTED"
        /\ UNCHANGED <<status, refundedMinor, unused, revoked, remote, recon>>
        /\ recon.step = "IDLE"
    BY <1>2 DEF Claim, Claims, claimRefund, Claimable
  <2>5. /\ DOMAIN refunds' = DOMAIN refunds \cup {n} /\ n \notin DOMAIN refunds /\ n # 0
        /\ \A k \in DOMAIN refunds : refunds'[k] = refunds[k]
        /\ refunds'[n] = e
    <3>1. refunds \in Seq(Entry) /\ Len(refunds) \in Nat /\ DOMAIN refunds = 1..Len(refunds)
      BY TypedIs, Facts DEF TypeOK
    <3>2. DOMAIN refunds' = 1..(Len(refunds) + 1)
          /\ \A k \in 1..Len(refunds) : refunds'[k] = refunds[k]
      <4> HIDE DEF e
      <4> QED BY <2>3, <2>4, <3>1, AppendProperties
    <3>3. refunds'[n] = e
      <4> HIDE DEF e
      <4> QED BY <2>3, <2>4, <3>1, AppendProperties
    <3> QED BY <3>1, <3>2, <3>3
  <2>6. \A k \in DOMAIN refunds : ~Open(k)
    BY <2>4 DEF OrdinaryInv, EntriesInv, Open
  <2>7. /\ \A r \in RefundId : remote[r].key # n
        /\ \A b \in Request : Waiting(b) => request[b].key \in DOMAIN refunds
        /\ ~Waiting(a)
    BY <2>1, <2>5, Facts DEF OrdinaryInv, RemoteInv, Waiting
  <2> HIDE DEF n, q, e
  <2>8. EntriesInv'
    BY <2>3, <2>4, <2>5, <2>6 DEF OrdinaryInv, EntriesInv, Open, IsProcessed
  <2>9. RemoteInv'
    <3>1. \A b \in Request : request[b].step = "ANSWERED" => request'[b] = request[b]
      BY <2>1, <2>2 DEF q
    <3> QED BY <2>4, <2>5, <3>1 DEF OrdinaryInv, RemoteInv, Asked
  <2>10. ASSUME NEW b \in Request PROVE RequestInv(b)'
    <3>1. CASE b = a
      BY <2>2, <2>3, <2>4, <2>5, <2>7, <3>1 DEF RequestInv, Waiting
    <3>2. CASE b # a
      BY <2>2, <2>4, <2>5, <2>7, <3>2 DEF OrdinaryInv, RequestInv, Waiting
    <3> QED BY <3>1, <3>2
  <2>11. ReconInv'
    BY <2>4 DEF ReconInv
  <2>12. AppliedInv'
    <3>1. Processed' = Processed
      BY <2>3, <2>5 DEF Processed
    <3>2. Applied' = Applied
      BY <2>5, <3>1 DEF Applied, Processed
    <3> QED BY <2>4, <3>2, AppliedStays
  <2> QED BY <2>8, <2>9, <2>10, <2>11, <2>12 DEF OrdinaryInv
<1> QED BY <1>1, <1>2

LEMMA AskKeeps ==
  ASSUME Typed, OrdinaryInv, NEW a \in Request, Ask(a)
  PROVE  OrdinaryInv'
<1> DEFINE n == NextId
           k == request[a].key
<1>1. /\ request \in [Request -> RequestRecord] /\ request[a].step = "CLAIMED" /\ Waiting(a)
      /\ request[a].amount \in 1..Amount /\ k \in Nat /\ k \in DOMAIN refunds
  <2>1. RequestOK(request[a], DOMAIN refunds) /\ request \in [Request -> RequestRecord]
    BY DEF Typed, RequestsOK
  <2> QED BY <2>1, RefundsAssumption DEF Ask, Waiting, RequestOK, RequestRecord
<1>2. PICK s \in {"PENDING", "PROCESSED", "FAILED"} :
        /\ Accepts(request[a].amount, k, s)
        /\ request' = [request EXCEPT ![a].step = "ANSWERED", ![a].id = n, ![a].answer = s]
  BY DEF Ask
<1>3. /\ request'[a].step = "ANSWERED" /\ request'[a].id = n /\ request'[a].answer = s
      /\ request'[a].key = k /\ request'[a].amount = request[a].amount
      /\ \A b \in Request : b # a => request'[b] = request[b]
  BY <1>1, <1>2 DEF RequestRecord
<1>4. /\ n \in RefundId /\ ~Asked(n)
      /\ remote'[n].status = s /\ remote'[n].amount = request[a].amount /\ remote'[n].key = k
      /\ \A r \in RefundId : r # n => remote'[r] = remote[r]
  <2>1. /\ n \in RefundId /\ remote[n].status = "NONE"
        /\ remote' = [remote EXCEPT ![n] = [status |-> s, amount |-> request[a].amount, key |-> k]]
    BY <1>1, <1>2, AcceptsOK DEF Typed
  <2> HIDE DEF n, k
  <2> QED BY <2>1 DEF Typed, GatewayOK, Asked
<1>5. UNCHANGED <<refunds, payment, refundedMinor, status, unused, revoked, recon>>
  BY DEF Ask, records, document
<1>6. /\ refunds[k].status = "requested" /\ refunds[k].amount = request[a].amount
      /\ \A r \in RefundId : remote[r].key # k
      /\ \A b \in Request : Waiting(b) /\ request[b].key = k => b = a
  BY <1>1 DEF OrdinaryInv, RequestInv
<1>7. remote[n].key = 0 /\ k # 0
  BY <1>1, <1>4, Facts
<1>8. \A b \in Request : (Waiting(b))' <=> Waiting(b)
  BY <1>1, <1>3 DEF Waiting
<1> HIDE DEF n, k
<1>9. EntriesInv'
  <2> SUFFICES ASSUME NEW j \in DOMAIN refunds
      PROVE  /\ refunds[j].id # 0 => remote'[refunds[j].id].key = j
             /\ refunds[j].status = "processed"
                  => refunds[j].id # 0 /\ remote'[refunds[j].id].status = "PROCESSED"
    BY <1>5 DEF OrdinaryInv, EntriesInv, Open, IsProcessed
  <2>1. refunds[j].id # 0 => refunds[j].id \in RefundId /\ refunds[j].id # n
    BY <1>7, Facts DEF OrdinaryInv, EntriesInv
  <2> QED BY <1>4, <2>1 DEF OrdinaryInv, EntriesInv, IsProcessed
<1>10. RemoteInv'
  <2> SUFFICES ASSUME NEW r \in RefundId, (Asked(r))'
      PROVE  /\ remote'[r].key \in DOMAIN refunds
             /\ remote'[r].amount = refunds[remote'[r].key].amount
             /\ refunds[remote'[r].key].status = "failed" => remote'[r].status = "FAILED"
             /\ refunds[remote'[r].key].id = 0
                  => /\ refunds[remote'[r].key].status = "requested"
                     /\ \E b \in Request : request'[b].step = "ANSWERED"
                                            /\ request'[b].key = remote'[r].key
             /\ \A q \in RefundId : remote'[q].key = remote'[r].key => q = r
    BY <1>5 DEF RemoteInv
  <2>1. CASE r = n
    BY <1>1, <1>3, <1>4, <1>6, <2>1 DEF k
  <2>2. CASE r # n
    <3>1. remote'[r] = remote[r] /\ Asked(r)
      BY <1>4, <2>2 DEF Asked
    <3>2. \A b \in Request : request[b].step = "ANSWERED" => request'[b] = request[b]
      BY <1>1, <1>3
    <3>3. \A q \in RefundId : remote'[q].key = remote[r].key => q = r
      BY <1>4, <1>6, <3>1 DEF OrdinaryInv, RemoteInv
    <3>4. refunds[remote[r].key].id = 0
            => \E b \in Request : request'[b].step = "ANSWERED" /\ request'[b].key = remote[r].key
      BY <3>1, <3>2 DEF OrdinaryInv, RemoteInv
    <3> QED BY <3>1, <3>3, <3>4 DEF OrdinaryInv, RemoteInv
  <2> QED BY <2>1, <2>2
<1>11. ASSUME NEW b \in Request PROVE RequestInv(b)'
  <2>1. CASE b = a
    BY <1>1, <1>3, <1>4, <1>5, <1>6, <1>8, <2>1 DEF RequestInv, k
  <2>2. CASE b # a
    <3> SUFFICES ASSUME Waiting(b)
        PROVE  /\ \A c \in Request : Waiting(c) /\ request'[c].key = request[b].key => b = c
               /\ request[b].amount = refunds[request[b].key].amount
               /\ request[b].step = "CLAIMED"
                    => /\ refunds[request[b].key].status = "requested"
                       /\ \A r \in RefundId : remote'[r].key # request[b].key
               /\ request[b].step \in {"ANSWERED", "RECORDED"}
                    => /\ remote'[request[b].id].key = request[b].key
                       /\ request[b].answer \in {"PROCESSED", "FAILED"}
                            => remote'[request[b].id].status = request[b].answer
               /\ request[b].step = "RECORDED" => refunds[request[b].key].id = request[b].id
      BY <1>3, <1>5, <1>8, <2>2 DEF RequestInv
    <3>1. RequestInv(b) /\ request[b].key # k
      BY <1>6, <2>2 DEF OrdinaryInv
    <3>2. request[b].step \in {"ANSWERED", "RECORDED"} => request[b].id \in RefundId /\ request[b].id # n
      BY <1>7, <3>1, Facts DEF RequestInv
    <3>3. \A c \in Request : request'[c].key = request[c].key
      BY <1>3 DEF k
    <3> QED BY <1>4, <3>1, <3>2, <3>3 DEF RequestInv
  <2> QED BY <2>1, <2>2
<1>12. ReconInv'
  <2>1. recon.id # 0 => recon.id \in RefundId
    BY Facts
  <2>2. \A c \in Request : request'[c].key = request[c].key
    BY <1>3 DEF k
  <2>3. recon.step # "IDLE" /\ recon.id = 0 => recon.key # k
    BY <1>1 DEF OrdinaryInv, ReconInv, k
  <2>4. recon.step = "COMPLETE" => recon.id # n /\ recon.id # 0
    BY <1>4 DEF OrdinaryInv, ReconInv, IsProcessed, Asked, Typed, ReconOK
  <2> QED BY <1>4, <1>5, <1>8, <2>1, <2>2, <2>3, <2>4 DEF OrdinaryInv, ReconInv, Open, IsProcessed
<1>13. AppliedInv'
  <2>1. Applied' = Applied
    BY <1>5 DEF Applied, Processed
  <2>2. \A r \in RefundId : Asked(r) => remote'[r].amount = remote[r].amount
    BY <1>4
  <2> QED BY <1>5, <2>1, <2>2, AppliedStays
<1> QED BY <1>9, <1>10, <1>11, <1>12, <1>13 DEF OrdinaryInv

(* A claim is released that the gateway has not.                           *)
LEMMA ReleasedKeeps ==
  ASSUME Typed, OrdinaryInv, NEW k \in DOMAIN refunds, IsClaim(k), releaseRefundClaim(k),
         UNCHANGED remote, \A r \in RefundId : remote[r].key # k,
         UNCHANGED request \/ \E a \in Request : Rests(a) /\ request[a].step = "CLAIMED",
         \A b \in Request : (Waiting(b))' => request[b].key # k,
         recon'.step = "IDLE"
  PROVE  OrdinaryInv'
<1> DEFINE e == [refunds[k] EXCEPT !.status = "failed"]
<1>1. /\ refunds' = [refunds EXCEPT ![k] = e] /\ payment' = "CAPTURED"
      /\ UNCHANGED <<status, refundedMinor, unused, revoked>>
      /\ refunds[k].status = "requested"
  BY DEF releaseRefundClaim, IsClaim
<1>2. e.status = "failed" /\ e.id = refunds[k].id /\ e.amount = refunds[k].amount
  BY TypedIs, Sizes DEF Entry
<1> HIDE DEF e
<1>3. /\ DOMAIN refunds' = DOMAIN refunds /\ refunds'[k] = e
      /\ \A j \in DOMAIN refunds : j # k => refunds'[j] = refunds[j]
  BY <1>1, TypedIs DEF TypeOK
<1>4. \A b \in Request : (Waiting(b))' => Waiting(b) /\ request'[b] = request[b]
  BY RestsIs DEF Waiting
<1>5. refunds[k].id = 0 /\ \A j \in DOMAIN refunds : j # k => ~Open(j)
  BY <1>1 DEF OrdinaryInv, EntriesInv, Open
<1>6. EntriesInv'
  BY <1>2, <1>3, <1>5 DEF OrdinaryInv, EntriesInv, Open, IsProcessed
<1>7. RemoteInv'
  <2>1. \A b \in Request : request[b].step = "ANSWERED" => request'[b] = request[b]
    BY RestsIs
  <2> QED BY <1>3, <2>1 DEF OrdinaryInv, RemoteInv, Asked
<1>8. \A b \in Request : RequestInv(b)'
  <2> TAKE b \in Request
  <2>1. (Waiting(b))' => RequestInv(b) /\ request[b].key \in DOMAIN refunds
    BY <1>4, Facts DEF OrdinaryInv
  <2> QED BY <1>3, <1>4, <2>1 DEF RequestInv
<1>9. ReconInv'
  BY DEF ReconInv
<1>10. AppliedInv'
  <2>1. Processed' = Processed
    BY <1>1, <1>2, <1>3 DEF Processed
  <2>2. Applied' = Applied
    BY <1>1, <1>3, <2>1 DEF Applied, Processed
  <2> QED BY <1>1, <2>2, AppliedStays
<1> QED BY <1>6, <1>7, <1>8, <1>9, <1>10 DEF OrdinaryInv

LEMMA AskRefusedKeeps ==
  ASSUME Typed, OrdinaryInv, NEW a \in Request, AskRefused(a)
  PROVE  OrdinaryInv'
<1> DEFINE k == request[a].key
<1>1. Rests(a) /\ Waiting(a) /\ request[a].step = "CLAIMED" /\ releaseRefundClaim(k)
      /\ UNCHANGED <<remote, recon>>
  BY DEF AskRefused, Rests, Waiting
<1>2. k \in DOMAIN refunds
  BY <1>1, Facts
<1>3. /\ refunds[k].status = "requested" /\ \A r \in RefundId : remote[r].key # k
      /\ \A b \in Request : Waiting(b) /\ request[b].key = k => b = a
  BY <1>1 DEF OrdinaryInv, RequestInv
<1>4. IsClaim(k) /\ refunds[k].id = 0 /\ Open(k)
  BY <1>2, <1>3 DEF OrdinaryInv, EntriesInv, IsClaim, Open
<1>5. recon.step = "IDLE"
  <2> SUFFICES ASSUME recon.step # "IDLE" PROVE FALSE
    OBVIOUS
  <2>1. recon.key = k
    BY <1>2, <1>4 DEF OrdinaryInv, ReconInv
  <2> QED BY <1>1, <1>4, <2>1 DEF OrdinaryInv, ReconInv
<1>6. \A b \in Request : (Waiting(b))' => request[b].key # k
  BY <1>1, <1>3, RestsIs
<1> HIDE DEF k
<1> QED BY <1>1, <1>2, <1>3, <1>4, <1>5, <1>6, ReleasedKeeps

LEMMA RecordAnswerKeeps ==
  ASSUME Typed, OrdinaryInv, NEW a \in Request, RecordAnswer(a)
  PROVE  OrdinaryInv'
<1> DEFINE k == request[a].key
           r == request[a].id
           e == [refunds[k] EXCEPT !.id = r, !.status = "pending"]
<1>1. /\ Waiting(a) /\ request[a].step = "ANSWERED"
      /\ markRefundPending(k, r) /\ UNCHANGED <<remote, recon>>
  BY DEF RecordAnswer, Waiting
<1>2. k \in DOMAIN refunds /\ k # 0 /\ r \in RefundId /\ r # 0
  BY <1>1, Facts
<1>3. /\ remote[r].key = k /\ \A b \in Request : Waiting(b) /\ request[b].key = k => b = a
      /\ Asked(r)
  BY <1>1, <1>2, Facts DEF OrdinaryInv, RequestInv
<1>4. \A q \in RefundId : remote[q].key = k => q = r
  BY <1>2, <1>3 DEF OrdinaryInv, RemoteInv
<1>5. /\ request'[a].step = "RECORDED" /\ request'[a].key = k /\ request'[a].id = r
      /\ request'[a].answer = request[a].answer /\ request'[a].amount = request[a].amount
      /\ \A b \in Request : b # a => request'[b] = request[b]
  <2>1. request \in [Request -> RequestRecord]
    BY DEF Typed, RequestsOK
  <2> QED BY <2>1 DEF RecordAnswer, RequestRecord
<1>6. \A b \in Request : (Waiting(b))' <=> Waiting(b)
  BY <1>1, <1>5 DEF Waiting
(* The entry is the claim, or an event has found it.                       *)
<1>7. \/ /\ refunds[k].status = "requested" /\ refunds[k].id = 0
         /\ DOMAIN refunds' = DOMAIN refunds
         /\ \A j \in DOMAIN refunds : j # k => refunds'[j] = refunds[j]
         /\ refunds'[k].status = "pending" /\ refunds'[k].id = r
         /\ refunds'[k].amount = refunds[k].amount
         /\ payment' = "REFUND_PENDING" /\ recon.step = "IDLE"
      \/ refunds' = refunds /\ refunds[k].id = r /\ payment' = payment
  <2>1. CASE IsClaim(k)
    <3>1. refunds' = [refunds EXCEPT ![k] = e] /\ payment' = "REFUND_PENDING"
          /\ refunds[k].status = "requested"
      BY <1>1, <2>1 DEF markRefundPending, IsClaim
    <3>2. e.status = "pending" /\ e.id = r /\ e.amount = refunds[k].amount
      <4>1. refunds[k] \in Entry
        BY <1>2, TypedIs, Sizes
      <4> HIDE DEF k, r
      <4> QED BY <4>1 DEF Entry
    <3>3. refunds[k].id = 0 /\ Open(k)
      BY <1>2, <3>1 DEF OrdinaryInv, EntriesInv, Open
    <3>4. recon.step = "IDLE"
      <4> SUFFICES ASSUME recon.step # "IDLE" PROVE FALSE
        OBVIOUS
      <4>1. recon.key = k
        BY <1>2, <3>3 DEF OrdinaryInv, ReconInv
      <4> QED BY <1>1, <3>3, <4>1 DEF OrdinaryInv, ReconInv
    <3> HIDE DEF e, k, r
    <3>5. /\ DOMAIN refunds' = DOMAIN refunds /\ refunds'[k] = e
          /\ \A j \in DOMAIN refunds : j # k => refunds'[j] = refunds[j]
      BY <1>2, <3>1, TypedIs DEF TypeOK
    <3> QED BY <3>1, <3>2, <3>3, <3>4, <3>5
  <2>2. CASE ~IsClaim(k)
    <3>1. refunds[k].status # "requested"
      BY <1>2, <2>2 DEF OrdinaryInv, EntriesInv, IsClaim
    <3>2. refunds[k].id # 0
      BY <1>2, <1>3, <3>1 DEF OrdinaryInv, RemoteInv
    <3>3. refunds[k].id = r
      BY <1>2, <1>4, <3>2, Facts DEF OrdinaryInv, EntriesInv
    <3>4. refunds' = [refunds EXCEPT ![k].id = r] /\ payment' = payment
      BY <1>1, <2>2 DEF markRefundPending
    <3>5. refunds' = refunds
      <4>1. refunds[k] \in Entry /\ refunds \in Seq(Entry)
        BY <1>2, TypedIs, Sizes DEF TypeOK
      <4> HIDE DEF k, r
      <4>2. [refunds[k] EXCEPT !.id = r] = refunds[k]
        BY <3>3, <4>1 DEF Entry
      <4>3. refunds' = [refunds EXCEPT ![k] = refunds[k]]
        BY <3>4, <4>2
      <4> QED BY <1>2, <4>1, <4>3
    <3> QED BY <3>3, <3>4, <3>5
  <2> QED BY <2>1, <2>2
<1>8. UNCHANGED <<status, refundedMinor, unused, revoked, remote, recon>>
  BY <1>1 DEF markRefundPending
<1> HIDE DEF k, r, e
<1>9. /\ DOMAIN refunds' = DOMAIN refunds /\ refunds'[k].id = r
      /\ refunds'[k].amount = refunds[k].amount
      /\ \A j \in DOMAIN refunds : j # k => refunds'[j] = refunds[j]
  BY <1>7
<1>10. refunds[k].status = "requested" => \A j \in DOMAIN refunds : j # k => ~Open(j)
  BY <1>2 DEF OrdinaryInv, EntriesInv, Open
<1>11. EntriesInv'
  <2>1. CASE refunds' = refunds
    BY <1>7, <1>8, <2>1 DEF OrdinaryInv, EntriesInv, Open, IsProcessed
  <2>2. CASE refunds' # refunds
    BY <1>2, <1>3, <1>7, <1>8, <1>10, <2>2 DEF OrdinaryInv, EntriesInv, Open, IsProcessed
  <2> QED BY <2>1, <2>2
<1>12. RemoteInv'
  <2> SUFFICES ASSUME NEW q \in RefundId, Asked(q)
      PROVE  /\ remote[q].key \in DOMAIN refunds
             /\ remote[q].amount = refunds'[remote[q].key].amount
             /\ refunds'[remote[q].key].status = "failed" => remote[q].status = "FAILED"
             /\ refunds'[remote[q].key].id = 0
                  => /\ refunds'[remote[q].key].status = "requested"
                     /\ \E b \in Request : request'[b].step = "ANSWERED"
                                            /\ request'[b].key = remote[q].key
             /\ \A p \in RefundId : remote[p].key = remote[q].key => p = q
    BY <1>8, <1>9 DEF RemoteInv, Asked
  <2>1. CASE remote[q].key = k
    <3>1. refunds'[k].status = "failed" => refunds[k].status = "failed"
      BY <1>7
    <3>2. /\ remote[q].amount = refunds[k].amount /\ k \in DOMAIN refunds
          /\ refunds[k].status = "failed" => remote[q].status = "FAILED"
          /\ \A p \in RefundId : remote[p].key = remote[q].key => p = q
      BY <2>1 DEF OrdinaryInv, RemoteInv
    <3> QED BY <1>2, <1>9, <2>1, <3>1, <3>2
  <2>2. CASE remote[q].key # k
    <3>1. \A b \in Request : request[b].step = "ANSWERED" /\ request[b].key = remote[q].key
            => request'[b] = request[b]
      BY <1>5, <2>2 DEF k
    <3> QED BY <1>9, <2>2, <3>1 DEF OrdinaryInv, RemoteInv
  <2> QED BY <2>1, <2>2
<1>13. ASSUME NEW b \in Request PROVE RequestInv(b)'
  <2>1. \A c \in Request : request'[c].key = request[c].key
    BY <1>5 DEF k
  <2>2. CASE b = a
    <3>1. RequestInv(a)
      BY DEF OrdinaryInv
    <3> QED BY <1>1, <1>5, <1>6, <1>8, <1>9, <2>1, <2>2, <3>1 DEF RequestInv, k, r
  <2>3. CASE b # a
    <3>1. Waiting(b) => request[b].key # k /\ request[b].key \in DOMAIN refunds
      BY <1>3, <2>3, Facts
    <3>2. RequestInv(b)
      BY DEF OrdinaryInv
    <3> QED BY <1>5, <1>6, <1>8, <1>9, <2>1, <2>3, <3>1, <3>2 DEF RequestInv
  <2> QED BY <2>2, <2>3
<1>14. ReconInv'
  <2>1. CASE recon.step = "IDLE"
    BY <1>8, <2>1 DEF ReconInv
  <2>2. CASE recon.step # "IDLE"
    <3>1. refunds' = refunds
      BY <1>7, <2>2
    <3>2. \A c \in Request : request'[c].key = request[c].key
      BY <1>5 DEF k
    <3> QED BY <1>6, <1>8, <2>2, <3>1, <3>2 DEF OrdinaryInv, ReconInv, Open, IsProcessed
  <2> QED BY <2>1, <2>2
<1>15. AppliedInv'
  <2>1. Processed' = Processed
    BY <1>7 DEF Processed
  <2>2. \A j \in Processed : refunds'[j].id = refunds[j].id
    BY <1>7 DEF Processed
  <2>3. Applied' = Applied
    BY <2>1, <2>2 DEF Applied
  <2> QED BY <1>8, <2>3, AppliedStays
<1> QED BY <1>11, <1>12, <1>13, <1>14, <1>15 DEF OrdinaryInv

LEMMA ConcludeKeeps ==
  ASSUME Typed, OrdinaryInv, NEW a \in Request, Conclude(a)
  PROVE  OrdinaryInv'
<1> DEFINE r == request[a].id
<1>1. Rests(a) /\ Waiting(a) /\ request[a].step = "RECORDED" /\ UNCHANGED <<remote, recon>>
  BY DEF Conclude, Rests, Waiting
<1>2. /\ r \in RefundId
      /\ request[a].answer \in {"PROCESSED", "FAILED"} => remote[r].status = request[a].answer
  BY <1>1, Facts DEF OrdinaryInv, RequestInv
<1>3. CASE UNCHANGED records
  BY <1>1, <1>3, RestsIs, RequestOnlyKeeps
<1>4. CASE request[a].answer = "PROCESSED"
  <2>1. IsProcessed(r) /\ markPurchaseRefunded(r, 0)
    BY <1>2, <1>4 DEF Conclude, IsProcessed
  <2> HIDE DEF r
  <2> QED BY <1>1, <1>2, <1>3, <2>1, ProcessedCloses, ClosedKeeps
<1>5. CASE request[a].answer = "FAILED"
  <2>1. remote[r].status = "FAILED" /\ Asked(r) /\ markRefundFailed(r)
    BY <1>2, <1>5 DEF Conclude, Asked
  <2> HIDE DEF r
  <2> QED BY <1>1, <1>2, <1>3, <2>1, FailedCloses, ClosedKeeps
<1> QED BY <1>3, <1>4, <1>5 DEF Conclude

LEMMA SettleKeeps ==
  ASSUME Typed, OrdinaryInv, NEW r \in RefundId, Settle(r)
  PROVE  OrdinaryInv'
<1>1. PICK s \in {"PROCESSED", "FAILED"} : remote' = [remote EXCEPT ![r].status = s]
  BY DEF Settle
<1>2. /\ remote[r].status = "PENDING" /\ remote'[r].status = s
      /\ \A q \in RefundId : /\ remote'[q].key = remote[q].key /\ remote'[q].amount = remote[q].amount
                             /\ q # r => remote'[q].status = remote[q].status
                             /\ (Asked(q))' <=> Asked(q)
  BY <1>1 DEF Settle, Typed, GatewayOK, Asked
<1>3. UNCHANGED <<refunds, payment, refundedMinor, status, unused, revoked, request, recon>>
  BY DEF Settle, records, document
<1>4. EntriesInv'
  <2> SUFFICES ASSUME NEW j \in DOMAIN refunds
      PROVE  /\ refunds[j].id # 0 => remote'[refunds[j].id].key = j
             /\ refunds[j].status = "processed"
                  => refunds[j].id # 0 /\ remote'[refunds[j].id].status = "PROCESSED"
    BY <1>3 DEF OrdinaryInv, EntriesInv, Open, IsProcessed
  <2>1. refunds[j].id # 0 => refunds[j].id \in RefundId
    BY Facts
  <2> QED BY <1>2, <2>1 DEF OrdinaryInv, EntriesInv, IsProcessed
<1>5. RemoteInv'
  <2> SUFFICES ASSUME NEW q \in RefundId, Asked(q)
      PROVE  /\ remote[q].key \in DOMAIN refunds
             /\ remote[q].amount = refunds[remote[q].key].amount
             /\ refunds[remote[q].key].status = "failed" => remote'[q].status = "FAILED"
             /\ refunds[remote[q].key].id = 0
                  => /\ refunds[remote[q].key].status = "requested"
                     /\ \E b \in Request : request[b].step = "ANSWERED"
                                            /\ request[b].key = remote[q].key
             /\ \A p \in RefundId : remote[p].key = remote[q].key => p = q
    BY <1>2, <1>3 DEF RemoteInv
  <2>1. /\ remote[q].key \in DOMAIN refunds
        /\ remote[q].amount = refunds[remote[q].key].amount
        /\ refunds[remote[q].key].id = 0
             => /\ refunds[remote[q].key].status = "requested"
                /\ \E b \in Request : request[b].step = "ANSWERED"
                                       /\ request[b].key = remote[q].key
        /\ \A p \in RefundId : remote[p].key = remote[q].key => p = q
        /\ refunds[remote[q].key].status = "failed" => remote[q].status = "FAILED"
    BY DEF OrdinaryInv, RemoteInv
  <2> QED BY <1>2, <2>1
<1>6. ASSUME NEW b \in Request PROVE RequestInv(b)'
  <2>1. request[b].step \in {"ANSWERED", "RECORDED"} => request[b].id \in RefundId
    BY Facts
  <2>2. RequestInv(b)
    BY DEF OrdinaryInv
  <2> QED BY <1>2, <1>3, <2>1, <2>2 DEF RequestInv, Waiting
<1>7. ReconInv'
  <2>1. recon.id # 0 => recon.id \in RefundId
    BY Facts
  <2>2. recon.step = "COMPLETE" => recon.id # 0
    BY DEF Typed, ReconOK
  <2> QED BY <1>2, <1>3, <2>1, <2>2 DEF OrdinaryInv, ReconInv, Open, IsProcessed, Waiting
<1>8. AppliedInv'
  <2>1. Applied' = Applied
    BY <1>3 DEF Applied, Processed
  <2> QED BY <1>2, <1>3, <2>1, AppliedStays
<1> QED BY <1>4, <1>5, <1>6, <1>7, <1>8 DEF OrdinaryInv

(* Steps that change at most the sweep and the unused credits.             *)
LEMMA SweepOnlyKeeps ==
  ASSUME Typed, OrdinaryInv, UNCHANGED <<refunds, payment, refundedMinor, status, revoked>>,
         UNCHANGED <<remote, request>>, ReconInv',
         status = "REFUNDED" /\ unused = 0 => unused' = 0
  PROVE  OrdinaryInv'
<1>1. EntriesInv'
  BY DEF OrdinaryInv, EntriesInv, Open, IsProcessed
<1>2. RemoteInv'
  BY DEF OrdinaryInv, RemoteInv, Asked
<1>3. \A b \in Request : RequestInv(b)'
  BY DEF OrdinaryInv, RequestInv, Waiting
<1>4. AppliedInv'
  <2>1. Applied' = Applied
    BY DEF Applied, Processed
  <2> QED BY <2>1, AppliedStays
<1> QED BY <1>1, <1>2, <1>3, <1>4 DEF OrdinaryInv

LEMMA ReconStill ==
  ASSUME OrdinaryInv, UNCHANGED <<refunds, refundedMinor, remote, request, recon>>
  PROVE  ReconInv'
BY DEF OrdinaryInv, ReconInv, Open, IsProcessed, Waiting

LEMMA StillKeeps ==
  ASSUME Typed, OrdinaryInv, UNCHANGED <<records, remote, request, recon>>
  PROVE  OrdinaryInv'
BY ReconStill, SweepOnlyKeeps DEF records, document

LEMMA UseCreditKeeps ==
  ASSUME Typed, OrdinaryInv, UseCredit
  PROVE  OrdinaryInv'
<1>1. unused > 0 /\ UNCHANGED <<refunds, payment, refundedMinor, status, revoked, remote, request, recon>>
  BY DEF UseCredit, document
<1> QED BY <1>1, ReconStill, SweepOnlyKeeps

LEMMA EventKeeps ==
  ASSUME Typed, OrdinaryInv, NEW e \in RefundId \X {"PROCESSED", "FAILED"},
         RefundEvent(e) \/ EventLost(e)
  PROVE  OrdinaryInv'
<1> DEFINE r == e[1]
<1>1. CASE UNCHANGED records
  BY <1>1, StillKeeps DEF RefundEvent, EventLost
<1>2. CASE RefundEvent(e)
  <2>1. r \in RefundId /\ e[2] \in {"PROCESSED", "FAILED"} /\ remote[r].status = e[2]
        /\ UNCHANGED <<request, remote, recon>>
    BY <1>2 DEF RefundEvent, Typed, GatewayOK
  <2>2. CASE e[2] = "PROCESSED"
    <3>1. IsProcessed(r) /\ markPurchaseRefunded(r, remote[r].amount)
      BY <1>2, <2>1, <2>2 DEF RefundEvent, IsProcessed
    <3> HIDE DEF r
    <3> QED BY <1>1, <2>1, <3>1, ProcessedCloses, ClosedKeeps
  <2>3. CASE e[2] = "FAILED"
    <3>1. remote[r].status = "FAILED" /\ Asked(r) /\ markRefundFailed(r)
      BY <1>2, <2>1, <2>3 DEF RefundEvent, Asked
    <3> HIDE DEF r
    <3> QED BY <1>1, <2>1, <3>1, FailedCloses, ClosedKeeps
  <2> QED BY <2>1, <2>2, <2>3
<1> QED BY <1>1, <1>2 DEF EventLost

LEMMA ReconcileReadKeeps ==
  ASSUME Typed, OrdinaryInv, ReconcileRead
  PROVE  OrdinaryInv'
<1> DEFINE k == FirstOpen
<1>1. k \in DOMAIN refunds /\ Open(k) /\ k # 0
  BY Found, TypedIs DEF ReconcileRead, Reads
<1>2. /\ recon'.step = "READ" /\ recon'.key = k /\ recon'.id = refunds[k].id
      /\ recon'.target = refundedMinor + refunds[k].amount
      /\ UNCHANGED <<records, request, remote>>
  BY DEF ReconcileRead, Reads
<1>3. refunds[k].status = "requested" => Stale(k)
  BY DEF ReconcileRead
<1> HIDE DEF k
<1>4. \A j \in DOMAIN refunds : Open(j) => j = k
  BY <1>1 DEF OrdinaryInv, EntriesInv
<1>5. refunds[k].id = 0 => refunds[k].status = "requested"
  BY <1>1 DEF OrdinaryInv, EntriesInv, Open
<1>6. refunds[k].id = 0 => /\ \A a \in Request : Waiting(a) => request[a].key # k
                           /\ \A r \in RefundId : remote[r].key # k
  <2> SUFFICES ASSUME refunds[k].id = 0
      PROVE  /\ \A a \in Request : Waiting(a) => request[a].key # k
             /\ \A r \in RefundId : remote[r].key # k
    OBVIOUS
  <2>1. \A a \in Request : Waiting(a) => request[a].key # k
    BY <1>3, <1>5 DEF Stale, Waiting
  <2>2. \A r \in RefundId : remote[r].key # k
    BY <1>1, <2>1, Facts DEF OrdinaryInv, RemoteInv, Waiting
  <2> QED BY <2>1, <2>2
<1>7. ReconInv'
  BY <1>1, <1>2, <1>4, <1>6 DEF ReconInv, records, document, Open, Waiting
<1> QED BY <1>2, <1>7, SweepOnlyKeeps DEF records, document

(* The sweep finds enough refunded only if its own refund is processed:    *)
(* all others that are have been applied.                                  *)
LEMMA DoneIsProcessed ==
  ASSUME Typed, OrdinaryInv, recon.step = "READ", recon.id # 0,
         RemoteTotal({"PROCESSED"}) >= recon.target
  PROVE  IsProcessed(recon.id)
<1> SUFFICES ASSUME ~IsProcessed(recon.id) PROVE FALSE
  OBVIOUS
<1> DEFINE P == {r \in RefundId : remote[r].status = "PROCESSED"}
           k == recon.key
<1>1. k \in DOMAIN refunds /\ refunds[k].id = recon.id /\ recon.id \in RefundId
  BY Facts DEF OrdinaryInv, ReconInv
<1>2. refunds[k].status # "processed"
  BY <1>1 DEF OrdinaryInv, EntriesInv
<1>3. recon.target = refundedMinor + refunds[k].amount
  BY <1>2 DEF OrdinaryInv, ReconInv
<1>4. P \subseteq Applied
  <2> SUFFICES ASSUME NEW r \in P PROVE r \in Applied
    OBVIOUS
  <2> DEFINE j == remote[r].key
  <2>1. Asked(r) /\ r \in RefundId /\ r # recon.id
    BY DEF Asked, IsProcessed
  <2>2. /\ j \in DOMAIN refunds /\ refunds[j].status # "failed"
        /\ \A s \in RefundId : remote[s].key = j => s = r
    BY <2>1 DEF OrdinaryInv, RemoteInv
  <2>3. j # k
    BY <1>1, <2>1, <2>2 DEF OrdinaryInv, EntriesInv
  <2>4. refunds[j].status = "processed"
    <3>1. ~Open(j)
      BY <2>2, <2>3 DEF OrdinaryInv, ReconInv
    <3>2. refunds[j] \in Entry
      BY <2>2, TypedIs, Sizes
    <3> HIDE DEF j
    <3> QED BY <2>2, <3>1, <3>2 DEF Open, Entry
  <2>5. refunds[j].id = r
    BY <2>2, <2>4, Facts DEF OrdinaryInv, EntriesInv
  <2> QED BY <2>2, <2>4, <2>5 DEF Applied, Processed
<1>5. RemoteTotal({"PROCESSED"}) = Total(Amounts, P)
  <2>1. RemoteTotal({"PROCESSED"}) = Total(Amounts, {r \in RefundId : remote[r].status \in {"PROCESSED"}})
    BY RemoteTotalIs
  <2>2. {r \in RefundId : remote[r].status \in {"PROCESSED"}} = P
    OBVIOUS
  <2> QED BY <2>1, <2>2
<1>6. Total(Amounts, P) <= Total(Amounts, Applied)
  <2> HIDE DEF P
  <2> QED BY <1>4, AppliedFinite, AmountsTyped, TotalWithin
<1>7. Total(Amounts, P) \in Int
  <2>1. P \in SUBSET RefundId
    OBVIOUS
  <2> HIDE DEF P
  <2> QED BY <2>1, RefundsFinite, AmountsTyped, TotalRemove
<1>8. refundedMinor = Total(Amounts, Applied) /\ refundedMinor \in Nat
      /\ refunds[k].amount \in Nat /\ refunds[k].amount > 0
  BY <1>1, Facts DEF OrdinaryInv, AppliedInv
<1> HIDE DEF P, k
<1> QED BY <1>3, <1>5, <1>6, <1>7, <1>8

LEMMA ReconcileAskKeeps ==
  ASSUME Typed, OrdinaryInv, ReconcileAsk
  PROVE  OrdinaryInv'
<1>1. recon.step = "READ" /\ UNCHANGED <<records, request, remote>>
  BY DEF ReconcileAsk
<1>2. recon \in [step : {"IDLE", "READ", "RELEASE", "COMPLETE"}, key : Nat, target : Nat,
                 id : 0..MaxRefunds]
  BY DEF Typed, ReconOK
<1>3. \/ recon' = NotReconciling
      \/ recon' = [recon EXCEPT !.step = "RELEASE"] /\ recon.id = 0
      \/ recon' = [recon EXCEPT !.step = "COMPLETE"] /\ recon.id # 0 /\ IsProcessed(recon.id)
  BY <1>1, DoneIsProcessed DEF ReconcileAsk
<1>4. ReconInv'
  <2>1. CASE recon' = NotReconciling
    BY <2>1 DEF ReconInv, NotReconciling
  <2>2. CASE recon' # NotReconciling
    <3>1. /\ recon'.key = recon.key /\ recon'.id = recon.id
          /\ recon'.step \in {"RELEASE", "COMPLETE"}
          /\ recon'.step = "RELEASE" => recon.id = 0
          /\ recon'.step = "COMPLETE" => IsProcessed(recon.id)
      BY <1>2, <1>3, <2>2
    <3> QED BY <1>1, <3>1 DEF OrdinaryInv, ReconInv, records, document, Open, Waiting, IsProcessed
  <2> QED BY <2>1, <2>2
<1> QED BY <1>1, <1>4, SweepOnlyKeeps DEF records, document

LEMMA ReconcileActKeeps ==
  ASSUME Typed, OrdinaryInv, ReconcileAct
  PROVE  OrdinaryInv'
<1>1. recon' = NotReconciling /\ recon'.step = "IDLE" /\ UNCHANGED <<request, remote>>
      /\ recon.key \in DOMAIN refunds
  BY Facts DEF ReconcileAct, NotReconciling
<1>2. CASE UNCHANGED records
  <2>1. ReconInv'
    BY <1>1 DEF ReconInv
  <2> QED BY <1>1, <1>2, <2>1, SweepOnlyKeeps DEF records, document
<1>3. CASE recon.step = "RELEASE" /\ IsClaim(recon.key)
  <2>1. releaseRefundClaim(recon.key)
    BY <1>3 DEF ReconcileAct
  <2>2. /\ \A a \in Request : Waiting(a) => request[a].key # recon.key
        /\ \A r \in RefundId : remote[r].key # recon.key
    BY <1>3 DEF OrdinaryInv, ReconInv
  <2>3. \A a \in Request : (Waiting(a))' => request[a].key # recon.key
    BY <1>1, <2>2 DEF Waiting
  <2> QED BY <1>1, <1>3, <2>1, <2>2, <2>3, ReleasedKeeps
<1>4. CASE recon.step = "COMPLETE"
  <2>1. recon.id \in RefundId /\ IsProcessed(recon.id) /\ markPurchaseRefunded(recon.id, 0)
    BY <1>4, Facts DEF OrdinaryInv, ReconInv, ReconcileAct, Typed, ReconOK
  <2> QED BY <1>1, <1>2, <2>1, ProcessedCloses, ClosedKeeps
<1> QED BY <1>2, <1>3, <1>4 DEF ReconcileAct, releaseRefundClaim

LEMMA StaysOrdinary == Typed /\ OrdinaryInv /\ [Next]_vars /\ Ordinary' => OrdinaryInv'
<1> SUFFICES ASSUME Typed, OrdinaryInv, [Next]_vars, Ordinary' PROVE OrdinaryInv'
  OBVIOUS
<1>1. ~Fault("ANSWER_LOST") /\ ~Fault("OVERTAKEN") /\ ~Fault("SLOW") /\ ~Fault("DASHBOARD")
  BY OrdinaryStep
<1>2. ASSUME NEW a \in Request,
             \/ Preview(a) \/ Claim(a) \/ ClaimOvertakes(a) \/ Ask(a) \/ AskRefused(a)
             \/ AnswerLost(a) \/ RecordAnswer(a) \/ Conclude(a) \/ RequestDies(a)
      PROVE  OrdinaryInv'
  BY <1>1, <1>2, PreviewKeeps, ClaimKeeps, AskKeeps, AskRefusedKeeps, RecordAnswerKeeps,
     ConcludeKeeps, RequestDiesKeeps DEF ClaimOvertakes, AnswerLost
<1>3. CASE \E r \in RefundId : Settle(r)
  BY <1>3, SettleKeeps
<1>4. CASE \E e \in RefundId \X {"PROCESSED", "FAILED"} : RefundEvent(e) \/ EventLost(e)
  BY <1>4, EventKeeps
<1>5. CASE Dashboard \/ ReconcileRead \/ ReconcileEarly \/ ReconcileAsk \/ ReconcileAct
  BY <1>1, <1>5, ReconcileReadKeeps, ReconcileAskKeeps, ReconcileActKeeps DEF Dashboard, ReconcileEarly
<1>6. CASE UseCredit
  BY <1>6, UseCreditKeeps
<1>7. CASE UNCHANGED vars
  BY <1>7, StillKeeps DEF vars
<1> QED BY <1>2, <1>3, <1>4, <1>5, <1>6, <1>7 DEF Next

-------------------------------------------------------------------------------
(* Theorems                                                                *)

(* Inductive.                                                              *)
RefundsInv == Typed /\ BooksInv /\ CapacityInv /\ (Ordinary => OrdinaryInv)

LEMMA AlwaysRefundsInv == Spec => []RefundsInv
<1>1. Init => RefundsInv
  BY InitTyped, InitBooks, InitCapacity, InitOrdinary DEF RefundsInv
<1>2. RefundsInv /\ [Next]_vars => RefundsInv'
  BY StaysTyped, StaysBooks, StaysCapacity, StaysOrdinary, OrdinaryStep DEF RefundsInv
<1> QED BY <1>1, <1>2, PTL DEF Spec

(* What is recorded as refunded is the sum of the processed entries, each  *)
(* with a credit note of its own and no number left out, and the purchase  *)
(* is closed exactly when that is everything.                              *)
THEOREM BooksAlwaysBalance == Spec => []BooksBalance
<1>1. RefundsInv => BooksBalance
  BY DEF RefundsInv, BooksInv, EntryAmounts, OrdinaryInv, AppliedInv, BooksBalance
<1> QED BY <1>1, AlwaysRefundsInv, PTL

(* In an ordinary execution each processed entry is another refund of the  *)
(* gateway, which has processed it for that amount, and the payment is not *)
(* exceeded.                                                               *)
THEOREM AppliedOnlyOnce == Spec => []AppliedOnce
<1>1. RefundsInv => AppliedOnce
  <2> SUFFICES ASSUME RefundsInv, Ordinary
      PROVE  /\ \A j, k \in Processed : refunds[j].id = refunds[k].id => j = k
             /\ \A k \in Processed :
                  /\ refunds[k].id # 0 /\ IsProcessed(refunds[k].id)
                  /\ remote[refunds[k].id].amount = refunds[k].amount
             /\ refundedMinor <= Amount
    BY DEF AppliedOnce
  <2>1. Typed /\ OrdinaryInv /\ CapacityInv
    BY DEF RefundsInv
  <2>2. ASSUME NEW k \in Processed
        PROVE  /\ refunds[k].id # 0 /\ IsProcessed(refunds[k].id)
               /\ remote[refunds[k].id].key = k
               /\ remote[refunds[k].id].amount = refunds[k].amount
    <3>1. refunds[k].id # 0 /\ IsProcessed(refunds[k].id) /\ remote[refunds[k].id].key = k
          /\ refunds[k].id \in RefundId
      BY <2>1, Facts DEF Processed, OrdinaryInv, EntriesInv
    <3> QED BY <2>1, <3>1 DEF OrdinaryInv, RemoteInv, Asked, IsProcessed
  <2>3. \A j, k \in Processed : refunds[j].id = refunds[k].id => j = k
    <3> SUFFICES ASSUME NEW j \in Processed, NEW k \in Processed, refunds[j].id = refunds[k].id
        PROVE  j = k
      OBVIOUS
    <3>1. remote[refunds[j].id].key = j /\ remote[refunds[k].id].key = k
      BY <2>2
    <3> QED BY <3>1
  <2>4. refundedMinor <= Amount
    <3>1. Applied \subseteq Live
      BY <2>1, <2>2, AppliedFinite DEF Applied, Live, IsProcessed
    <3>2. Live \in SUBSET RefundId
      BY DEF Live
    <3>3. Total(Amounts, Applied) <= Total(Amounts, Live)
      BY <2>1, <3>1, <3>2, RefundsFinite, AmountsTyped, TotalWithin
    <3>4. Total(Amounts, Live) \in Int
      BY <2>1, <3>2, RefundsFinite, AmountsTyped, TotalRemove
    <3>5. refundedMinor = Total(Amounts, Applied) /\ refundedMinor \in Nat
      BY <2>1, Facts DEF OrdinaryInv, AppliedInv
    <3> QED BY <2>1, <3>3, <3>4, <3>5, RefundsAssumption DEF CapacityInv
  <2> QED BY <2>2, <2>3, <2>4
<1> QED BY <1>1, AlwaysRefundsInv, PTL

(* In an ordinary execution a claim is released only if the gateway does   *)
(* not have the request, or refused it.                                    *)
THEOREM ReleasedOnlyUnasked == Spec => []ReleasedWasNeverAsked
<1>1. RefundsInv => ReleasedWasNeverAsked
  <2> SUFFICES ASSUME RefundsInv, Ordinary, NEW k \in DOMAIN refunds, refunds[k].status = "failed",
                      NEW r \in RefundId, remote[r].key = k
      PROVE  remote[r].status = "FAILED"
    BY DEF ReleasedWasNeverAsked
  <2>1. Typed /\ OrdinaryInv
    BY DEF RefundsInv
  <2>2. Asked(r)
    BY <2>1, Facts
  <2> QED BY <2>1, <2>2 DEF OrdinaryInv, RemoteInv
<1> QED BY <1>1, AlwaysRefundsInv, PTL
=============================================================================
