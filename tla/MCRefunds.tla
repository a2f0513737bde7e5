------------------------------ MODULE MCRefunds ------------------------------
(* Small instances of Refunds: an amount of two units, refunded whole or   *)
(* in parts by one or two admins, and one credit left.                     *)
EXTENDS Refunds, TLC

CONSTANTS a1, a2

OneRequest == {a1}
TwoRequests == {a1, a2}

Anything == FaultKind
AnyLoss == FaultKind \ {"OVERTAKEN", "SLOW"}
Symmetry == Permutations(TwoRequests)
==============================================================================
