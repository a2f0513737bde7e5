------------------------------ MODULE AiRouter ------------------------------
(***************************************************************************)
(* The AI router at one model of a chain.  Callers of all replicas share   *)
(* in Redis, per model, a semaphore of leased slots, a circuit breaker and *)
(* a probe lock.  Nothing is shared between models, so one is enough: a    *)
(* run comes to it when the models before it have failed, and leaves it    *)
(* with an answer, for the next model, or because it is given up.          *)
(*                                                                         *)
(* Time is counted in ticks.  A timer is what is left of a wait, a lease   *)
(* or a lock; a snapshot of the breaker carries ages.  What takes no time  *)
(* worth counting happens between two ticks.  The providers, and whether   *)
(* a caller gives up, are choices.                                         *)
(***************************************************************************)
EXTENDS Integers, FiniteSets

CONSTANTS
  Caller,       \* processes of the API and the worker that make AI calls
  Tokens,       \* bound: how many lease tokens are in use at a time
  Concurrency,  \* params.concurrency of the model
  Retries,      \* params.retries
  Timeout,      \* params.timeoutMs, in ticks
  MaxBackoff,   \* the longest wait before a retry
  Slack,        \* what a lease has beyond the calls it covers
  SlotWait,     \* slotWaitMs
  ProbeFor,     \* time to live of a probe lock
  Threshold,    \* failureThreshold
  Window,       \* windowMs
  OpenFor,      \* openMs
  MaxFaults,    \* bound: how many things go wrong
  Faults        \* what may go wrong

FaultKind == {
  "CRASH",      \* a process dies
  "REDIS"}      \* a coordination call fails

ASSUME RouterAssumption ==
  /\ {Concurrency, Timeout, Threshold, Window, OpenFor, ProbeFor, Tokens} \subseteq Nat \ {0}
  /\ {Retries, MaxBackoff, SlotWait, Slack, MaxFaults} \subseteq Nat
  /\ Slack > Retries * MaxBackoff
  /\ Faults \subseteq FaultKind
  /\ IsFiniteSet(Caller)

None == "NONE"
Token == 1..Tokens
NoToken == 0

Snapshot == [state : {"CLOSED", "OPEN"}, failures : 0..Threshold,
             window : 0..Window, open : 0..OpenFor]

VARIABLES
  breaker,      \* the snapshot in Redis
  probe,        \* what is left of the probe lock, 0: free
  leases,       \* leases[k]: what is left of the lease of token k, 0: none
  task,         \* what each caller is doing
  faults        \* how many things have gone wrong

vars == <<breaker, probe, leases, task, faults>>

-----------------------------------------------------------------------------
(* The circuit breaker, a pure state machine.                              *)

closedBreaker == [state |-> "CLOSED", failures |-> 0, window |-> 0, open |-> 0]
Missing == [closedBreaker EXCEPT !.window = Window]  \* as good as none: its window is over
Reopened == [state |-> "OPEN", failures |-> Threshold, window |-> 0, open |-> 0]

effectiveState(snap) ==
  IF snap.state = "OPEN" /\ snap.open >= OpenFor THEN "HALF_OPEN" ELSE snap.state

countFailure(snap) ==
  LET counted == IF snap.window < Window
                 THEN [snap EXCEPT !.failures = @ + 1]
                 ELSE [snap EXCEPT !.failures = 1, !.window = 0]
  IN  IF counted.failures >= Threshold THEN [counted EXCEPT !.state = "OPEN"] ELSE counted

recordBreakerEvent(snap, event) ==
  CASE event = "success" /\ effectiveState(snap) = "CLOSED" -> snap
    [] event = "success" /\ effectiveState(snap) # "CLOSED" -> closedBreaker
    [] event = "failure" /\ effectiveState(snap) # "CLOSED" -> Reopened
    [] event = "failure" /\ effectiveState(snap) = "CLOSED" -> countFailure(snap)

(* What a provider may do with a call, and what the router makes of it:    *)
(* the breaker event, and how the run goes on.                             *)
Outcome == {
  "SUCCESS", "INVALID_OUTPUT", "REFUSED",
  "TRANSIENT",    \* TIMEOUT, RATE_LIMITED, PROVIDER_ERROR, NETWORK_ERROR
  "AUTH_ERROR", "BAD_REQUEST",
  "INTERRUPTED"}  \* a transient error after text was emitted

eventOf(o) ==
  CASE o \in {"SUCCESS", "INVALID_OUTPUT", "REFUSED"}    -> "success"
    [] o \in {"TRANSIENT", "AUTH_ERROR", "INTERRUPTED"}  -> "failure"
    [] o = "BAD_REQUEST"                                 -> None

maxAttempts == 1 + Retries

After(t, o) ==
  CASE o = "INVALID_OUTPUT" /\ ~t.repaired             -> "REPAIR"
    [] o = "TRANSIENT" /\ t.failures + 1 < maxAttempts -> "RETRY"
    [] OTHER                                           -> "LEAVE"

-----------------------------------------------------------------------------
(* One run at the model, or a call of just this model.                     *)

Step == {"IDLE", "LOOK", "PROBE", "SLOT", "CALL", "READ", "WRITE", "BACKOFF", "RELEASE"}
Urgent == {"LOOK", "PROBE", "READ", "WRITE", "RELEASE"}

Idle == [step |-> "IDLE", token |-> NoToken, failures |-> 0, repaired |-> FALSE, left |-> 0,
         event |-> None, snap |-> closedBreaker, then |-> None]

TaskType ==
  [step : Step, token : Token \cup {NoToken}, failures : 0..maxAttempts, repaired : BOOLEAN,
   left : Nat, event : {"success", "failure", None}, snap : Snapshot,
   then : {"REPAIR", "RETRY", "LEAVE", None}]

TypeOK ==
  /\ breaker \in Snapshot
  /\ probe \in 0..ProbeFor
  /\ leases \in [Token -> Nat]
  /\ task \in [Caller -> TaskType]
  /\ faults \in 0..MaxFaults

Init ==
  /\ breaker = Missing
  /\ probe = 0
  /\ leases = [k \in Token |-> 0]
  /\ task = [c \in Caller |-> Idle]
  /\ faults = 0

Becomes(c, t) == task' = [task EXCEPT ![c] = t]

Waits(c) == Becomes(c, [task[c] EXCEPT !.step = "SLOT", !.left = SlotWait])

run(c) ==
  /\ task[c].step = "IDLE"
  /\ Becomes(c, [Idle EXCEPT !.step = "LOOK"])
  /\ UNCHANGED <<breaker, probe, leases, faults>>

(* An admin's test calls the model whatever its circuit says.              *)
runOnModel(c) ==
  /\ task[c].step = "IDLE"
  /\ Waits(c)
  /\ UNCHANGED <<breaker, probe, leases, faults>>

Look(c) ==
  /\ task[c].step = "LOOK"
  /\ LET state == effectiveState(breaker) IN
       \/ state = "CLOSED" /\ Waits(c)
       \/ state = "HALF_OPEN" /\ Becomes(c, [task[c] EXCEPT !.step = "PROBE"])
       \/ state = "OPEN" /\ Becomes(c, Idle)
  /\ UNCHANGED <<breaker, probe, leases, faults>>

tryLock(c) ==
  /\ task[c].step = "PROBE"
  /\ \/ probe = 0 /\ probe' = ProbeFor /\ Waits(c)
     \/ probe > 0 /\ Becomes(c, Idle) /\ UNCHANGED probe
  /\ UNCHANGED <<breaker, leases, faults>>

Held == {k \in Token : leases[k] > 0}
Fresh == {k \in Token : leases[k] = 0 /\ \A c \in Caller : task[c].token # k}

(* Mutant: the lease covers the retries, but not the repair.               *)
leaseMs_NoRepair == Timeout * (Retries + 1) + Slack

leaseMs == Timeout * (Retries + 2) + Slack

Calling(t) == [t EXCEPT !.step = "CALL", !.left = Timeout, !.event = None, !.then = None,
                        !.snap = closedBreaker]

acquireSlot(c) ==
  /\ task[c].step = "SLOT"
  /\ Cardinality(Held) < Concurrency
  /\ Fresh # {}
  /\ LET k == CHOOSE f \in Fresh : TRUE IN
       /\ leases' = [leases EXCEPT ![k] = leaseMs]
       /\ Becomes(c, Calling([task[c] EXCEPT !.token = k]))
  /\ UNCHANGED <<breaker, probe, faults>>

Saturated(c) ==
  /\ task[c].step = "SLOT" /\ task[c].left = 0
  /\ Cardinality(Held) >= Concurrency
  /\ Becomes(c, Idle)
  /\ UNCHANGED <<breaker, probe, leases, faults>>

Releasing(t) == [Idle EXCEPT !.step = "RELEASE", !.token = t.token]

(* The provider answers or fails, at the latest when the call times out.   *)
Answers(c, o) ==
  /\ task[c].step = "CALL"
  /\ LET t == [task[c] EXCEPT !.left = 0, !.event = eventOf(o), !.then = After(task[c], o),
                              !.failures = IF o = "TRANSIENT" THEN @ + 1 ELSE @,
                              !.repaired = @ \/ o = "INVALID_OUTPUT"]
     IN  Becomes(c, IF eventOf(o) = None THEN Releasing(t) ELSE [t EXCEPT !.step = "READ"])
  /\ UNCHANGED <<breaker, probe, leases, faults>>

(* How the run goes on once the breaker has heard of the outcome.          *)
GoesOn(c) ==
  LET t == [task[c] EXCEPT !.event = None, !.snap = closedBreaker] IN
  \/ t.then = "REPAIR" /\ Becomes(c, Calling(t))
  \/ /\ t.then = "RETRY"
     /\ \E d \in 0..MaxBackoff :
          Becomes(c, [t EXCEPT !.step = "BACKOFF", !.left = d])
  \/ t.then = "LEAVE" /\ Becomes(c, Releasing(t))

(* recordBreaker reads, decides, and writes what it decided on.            *)
ReadBreaker(c) ==
  LET next == recordBreakerEvent(breaker, task[c].event) IN
  /\ task[c].step = "READ"
  /\ IF next = breaker
     THEN GoesOn(c)
     ELSE Becomes(c, [task[c] EXCEPT !.step = "WRITE", !.snap = next])
  /\ UNCHANGED <<breaker, probe, leases, faults>>

WriteBreaker(c) ==
  /\ task[c].step = "WRITE"
  /\ breaker' = task[c].snap
  /\ GoesOn(c)
  /\ UNCHANGED <<probe, leases, faults>>

Retry(c) ==
  /\ task[c].step = "BACKOFF" /\ task[c].left = 0
  /\ Becomes(c, Calling(task[c]))
  /\ UNCHANGED <<breaker, probe, leases, faults>>

releaseSlot(c) ==
  /\ task[c].step = "RELEASE"
  /\ Becomes(c, Idle)
  /\ leases' = IF task[c].token = NoToken THEN leases ELSE [leases EXCEPT ![task[c].token] = 0]
  /\ UNCHANGED <<breaker, probe, faults>>

(* The caller's signal aborts: nothing else is tried.                      *)
Aborts(c) ==
  /\ \/ task[c].step \in {"LOOK", "SLOT"} /\ Becomes(c, Idle)
     \/ /\ task[c].step \in {"CALL", "BACKOFF"}
        /\ Becomes(c, Releasing(task[c]))
  /\ UNCHANGED <<breaker, probe, leases, faults>>

-----------------------------------------------------------------------------
(* Time and faults.                                                        *)

Less(n) == IF n > 0 THEN n - 1 ELSE 0

(* A snapshot grows older, up to the age from which nothing depends on it. *)
Older(snap) ==
  [snap EXCEPT !.window = IF @ < Window THEN @ + 1 ELSE @,
               !.open   = IF snap.state = "OPEN" /\ @ < OpenFor THEN @ + 1 ELSE @]

(* Mutant: a probe lock has no time to live.                               *)
ProbeLeft_Kept == probe

ProbeLeft == Less(probe)

(* Nobody is in the middle of something that takes no time, or is due.     *)
Between ==
  \A c \in Caller :
    /\ task[c].step \notin Urgent
    /\ task[c].step \in {"SLOT", "CALL", "BACKOFF"} => task[c].left > 0

Tick ==
  /\ Between
  /\ breaker' = Older(breaker)
  /\ probe' = ProbeLeft
  /\ leases' = [k \in Token |-> Less(leases[k])]
  /\ task' = [c \in Caller |-> [task[c] EXCEPT !.left = Less(@)]]
  /\ UNCHANGED faults

(* Redis forgets a snapshot some time after its circuit is half open.      *)
BreakerExpires ==
  /\ effectiveState(breaker) = "HALF_OPEN"
  /\ breaker' = Missing
  /\ UNCHANGED <<probe, leases, task, faults>>

GoesWrong(kind) == kind \in Faults /\ faults < MaxFaults /\ faults' = faults + 1

CallerDies(c) ==
  /\ GoesWrong("CRASH") /\ task[c].step # "IDLE"
  /\ Becomes(c, Idle)
  /\ UNCHANGED <<breaker, probe, leases>>

(* Coordination fails open: the call goes on without it.                   *)
FailsOpen(c) ==
  /\ GoesWrong("REDIS")
  /\ \/ task[c].step \in {"LOOK", "PROBE"} /\ Waits(c)
     \/ task[c].step = "SLOT" /\ Becomes(c, Calling(task[c]))
     \/ task[c].step \in {"READ", "WRITE"} /\ GoesOn(c)
     \/ task[c].step = "RELEASE" /\ Becomes(c, Idle)
  /\ UNCHANGED <<breaker, probe, leases>>

-----------------------------------------------------------------------------

Runs(c) ==
  \/ Look(c) \/ tryLock(c) \/ acquireSlot(c) \/ Saturated(c)
  \/ \E o \in Outcome : Answers(c, o)
  \/ ReadBreaker(c) \/ WriteBreaker(c) \/ Retry(c) \/ releaseSlot(c)

Next ==
  \/ \E c \in Caller : run(c) \/ runOnModel(c) \/ Runs(c) \/ Aborts(c)
  \/ \E c \in Caller : CallerDies(c) \/ FailsOpen(c)
  \/ BreakerExpires
  \/ Tick

Spec == Init /\ [][Next]_vars

(* Time passes, until no timer runs any more.                              *)
TimePasses == []<><<Tick>>_vars \/ []<>(Between /\ ~ENABLED <<Tick>>_vars)

(* A process that is alive goes on with what it is doing.                  *)
FairSpec == Spec /\ (\A c \in Caller : WF_vars(Runs(c))) /\ TimePasses

-----------------------------------------------------------------------------
(* Properties.                                                             *)

(* The model has no more callers at a time than it has slots, over all     *)
(* replicas, retries and repairs: no lease runs out under its holder.      *)
(* Callers that Redis left without a slot are not counted.                 *)
Holders == {c \in Caller : task[c].token # NoToken}
ConcurrencyKept == Cardinality(Holders) <= Concurrency

(* A call fails, or a run is given up.                                     *)
Unanswered(c) ==
  \/ Aborts(c)
  \/ \E o \in Outcome : eventOf(o) # "success" /\ Answers(c, o)

(* A model that answers again is used again: once the provider answers     *)
(* every call, nobody gives up and runs keep coming, the circuit closes    *)
(* for good, whatever outcomes were still to be recorded and whoever died  *)
(* while probing it.                                                       *)
CircuitRecovers ==
  /\ []<><<\E c \in Caller : run(c)>>_vars
  /\ <>[][\A c \in Caller : ~Unanswered(c)]_vars
  => <>[](breaker.state = "CLOSED")
=============================================================================
