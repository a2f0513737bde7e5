---------------------------- MODULE MCCreditLedger ----------------------------
(* A small instance of CreditLedger: a welcome credit without expiry, a    *)
(* purchase of one credit that expires, two interviews, a refund that     *)
(* withdraws the purchase, and an admin deduction.                         *)
EXTENDS CreditLedger, TLC

CONSTANTS s1, s2, free, bought, w1, w2, p1, p2

MCSession == {s1, s2}
MCLot == {free, bought}
MCWithdrawal == {w1, w2}
MCProcess == {p1, p2}
MCNever == 9
MCGranted == free :> 1 @@ bought :> 1
MCExpires == free :> MCNever @@ bought :> 1

Ask(op, s, l, k, outcome, n) ==
  [op |-> op, session |-> s, lot |-> l, key |-> k, outcome |-> outcome, n |-> n]

MCRequest ==
  {Ask("GRANT", s1, l, w1, "CONSUME", 0) : l \in MCLot}
    \cup {Ask("RESERVE", s, free, w1, "CONSUME", 0) : s \in MCSession}
    \cup {Ask("SETTLE", s1, free, w1, "CONSUME", 0),
          Ask("SETTLE", s1, free, w1, "REFUND", 0),
          Ask("SETTLE", s2, free, w1, "REFUND", 0),
          Ask("REVOKE", s1, bought, w1, "CONSUME", 1),
          Ask("DEDUCT", s1, free, w2, "CONSUME", 2)}

Symmetry == Permutations(MCProcess)
===============================================================================
