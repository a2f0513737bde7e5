----------------------------- MODULE MCAiRouter -----------------------------
(* A small instance of AiRouter: two callers.                              *)
EXTENDS AiRouter

CONSTANTS c1, c2

MCCaller == {c1, c2}
=============================================================================
