--------------------------- MODULE InterviewPromise ---------------------------
(***************************************************************************)
(* What the platform promises about an interview and its credit, whatever  *)
(* replicas, sweeps and reconnects do (docs/architecture/live-interview.md *)
(* "Session states" and "Credits"): an interview is prepared, takes place  *)
(* once, is over, and is reported on; its credit is reserved as it starts, *)
(* and settled as it ends, in the same step; an interview that is over     *)
(* never goes back, and one that never started never touches a credit.     *)
(***************************************************************************)
CONSTANT Interview

VARIABLES
  phase,   \* phase[i]: how far interview i has come
  hold     \* hold[i]: what has become of the candidate's credit for it

Phase == {"PREPARING", "CANCELLED", "RUNNING", "OVER", "REPORTED"}

Hold == {"NONE", "RESERVED", "CONSUMED", "REFUNDED"}

promiseVars == <<phase, hold>>

PInit ==
  /\ phase = [i \in Interview |-> "PREPARING"]
  /\ hold = [i \in Interview |-> "NONE"]

Moves(i, from, to) ==
  /\ phase[i] = from
  /\ phase' = [phase EXCEPT ![i] = to]

PCancel(i) == Moves(i, "PREPARING", "CANCELLED") /\ UNCHANGED hold

(* Some interviews are paid for by a campaign, or are free.                *)
PStart(i) ==
  /\ Moves(i, "PREPARING", "RUNNING")
  /\ hold[i] = "NONE"
  /\ \E h \in {"NONE", "RESERVED"} : hold' = [hold EXCEPT ![i] = h]

PEnd(i) ==
  /\ Moves(i, "RUNNING", "OVER")
  /\ \/ hold[i] = "NONE" /\ UNCHANGED hold
     \/ /\ hold[i] = "RESERVED"
        /\ \E h \in {"CONSUMED", "REFUNDED"} : hold' = [hold EXCEPT ![i] = h]

PReport(i) == Moves(i, "OVER", "REPORTED") /\ UNCHANGED hold

PNext == \E i \in Interview : PCancel(i) \/ PStart(i) \/ PEnd(i) \/ PReport(i)

PSpec == PInit /\ [][PNext]_promiseVars
===============================================================================
