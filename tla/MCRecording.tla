----------------------------- MODULE MCRecording -----------------------------
(* A small instance of Recording: two segments of one recorder, of which   *)
(* the first carries the header, two requests and one builder.             *)
EXTENDS Recording, TLC

CONSTANTS r1, r2, w1

MCRequest == {r1, r2}
MCWorker == {w1}
OnePart == [i \in 0..1 |-> 0]
Symmetry == Permutations(MCRequest)
==============================================================================
