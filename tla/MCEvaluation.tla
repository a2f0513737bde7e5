---------------------------- MODULE MCEvaluation ----------------------------
(* Small instances of Evaluation: two workers and two dispatchers.         *)
EXTENDS Evaluation

CONSTANTS w1, w2, d1, d2

MCWorker == {w1, w2}
MCDispatcher == {d1, d2}
==============================================================================
