--------------------------- MODULE AiRouterProofs ---------------------------
(***************************************************************************)
(* Proofs about AiRouter: a model never has more callers than slots.       *)
(*                                                                         *)
(* The number of leases is bounded by the script that grants them.  What   *)
(* has to be shown is that no lease ends under its holder, so that holders *)
(* can be counted by their leases: Need says how much time a caller may    *)
(* still take, and a lease always has at least that much left.             *)
(***************************************************************************)
EXTENDS AiRouter, FiniteSetTheorems, TLAPS

(* Time that may pass after what t is doing now: further calls, and waits. *)
Calls(t) == (Retries - t.failures) + (IF t.repaired THEN 0 ELSE 1)
Ahead(t) == Calls(t) * Timeout + (Retries - t.failures) * MaxBackoff

Need(t) ==
  CASE t.step = "CALL"                                       -> t.left + Ahead(t) + 1
    [] t.step = "BACKOFF"                                    -> t.left + Timeout + Ahead(t) + 1
    [] t.step \in {"READ", "WRITE"} /\ t.then = "RETRY"      -> MaxBackoff + Timeout + Ahead(t) + 1
    [] t.step \in {"READ", "WRITE"} /\ t.then = "REPAIR"     -> Timeout + Ahead(t) + 1
    [] OTHER                                                 -> 1

Holding == {"CALL", "READ", "WRITE", "BACKOFF", "RELEASE"}

(* A caller that goes on has retries left; nobody else has a token.        *)
Sound(t) ==
  /\ t.token # NoToken => t.step \in Holding
  /\ t.step \in {"IDLE", "LOOK", "PROBE", "SLOT"} => t.failures = 0 /\ ~t.repaired
  /\ t.step \in {"CALL", "BACKOFF"} => t.failures <= Retries
  /\ t.step \in {"READ", "WRITE"} /\ t.then = "RETRY" => t.failures <= Retries
  /\ t.step \in {"READ", "WRITE"} /\ t.then = "REPAIR" => t.failures <= Retries /\ t.repaired

Covered(t, l) == t.token # NoToken => l[t.token] >= Need(t)

(* A closed circuit has counted fewer failures than would open it.         *)
Sane(snap) == snap \in Snapshot /\ (snap.state = "CLOSED" => snap.failures < Threshold)

TasksInv == \A c \in Caller : Sound(task[c]) /\ Covered(task[c], leases)
TokensInv ==
  \A c, d \in Caller : c # d /\ task[c].token # NoToken => task[c].token # task[d].token
LeasesInv == Cardinality(Held) <= Concurrency
SnapshotsInv ==
  /\ Sane(breaker)
  /\ \A c \in Caller : Sane(task[c].snap)
                       /\ (task[c].step = "READ" => task[c].event \in {"success", "failure"})

IInv == TypeOK /\ TasksInv /\ TokensInv /\ LeasesInv /\ SnapshotsInv

-----------------------------------------------------------------------------
(* The constants, and the time a call takes.                               *)

LEMMA Constants ==
  /\ Retries \in Nat /\ Timeout \in Nat /\ Timeout > 0 /\ MaxBackoff \in Nat
  /\ SlotWait \in Nat /\ Slack \in Nat /\ Concurrency \in Nat /\ Tokens \in Nat
  /\ Threshold \in Nat /\ Threshold > 0 /\ Window \in Nat /\ OpenFor \in Nat /\ ProbeFor \in Nat
  /\ MaxFaults \in Nat
  /\ Slack > Retries * MaxBackoff
BY RouterAssumption

LEMMA OneMore ==
  ASSUME NEW n \in Nat, NEW d \in Nat
  PROVE  n * d \in Nat /\ (n + 1) * d = n * d + d
OBVIOUS

LEMMA AheadTyped ==
  ASSUME NEW t \in TaskType, t.failures <= Retries
  PROVE  /\ Calls(t) \in Nat /\ Retries - t.failures \in Nat /\ Ahead(t) \in Nat
<1>1. Calls(t) \in Nat /\ Retries - t.failures \in Nat
  BY Constants DEF TaskType, Calls, maxAttempts
<1>2. Calls(t) * Timeout \in Nat /\ (Retries - t.failures) * MaxBackoff \in Nat
  BY <1>1, OneMore, Constants
<1> QED
  BY <1>1, <1>2 DEF Ahead

(* A failure that is retried, or a reply that is repaired, uses up the     *)
(* time set aside for it.                                                  *)
LEMMA RetryUsesAhead ==
  ASSUME NEW t \in TaskType, NEW u \in TaskType, t.failures < Retries,
         u.failures = t.failures + 1, u.repaired = t.repaired
  PROVE  Ahead(t) = Ahead(u) + Timeout + MaxBackoff
<1>1. /\ Calls(u) \in Nat /\ Retries - u.failures \in Nat
      /\ Calls(t) = Calls(u) + 1 /\ Retries - t.failures = (Retries - u.failures) + 1
  BY Constants DEF TaskType, Calls, maxAttempts
<1>2. /\ Calls(t) * Timeout = Calls(u) * Timeout + Timeout
      /\ (Retries - t.failures) * MaxBackoff = (Retries - u.failures) * MaxBackoff + MaxBackoff
  BY <1>1, OneMore, Constants
<1>3. /\ Calls(u) * Timeout \in Nat /\ (Retries - u.failures) * MaxBackoff \in Nat
  BY <1>1, OneMore, Constants
<1> QED
  BY <1>2, <1>3, Constants DEF Ahead

LEMMA RepairUsesAhead ==
  ASSUME NEW t \in TaskType, NEW u \in TaskType, t.failures <= Retries,
         u.failures = t.failures, ~t.repaired, u.repaired
  PROVE  Ahead(t) = Ahead(u) + Timeout
<1>1. Calls(u) \in Nat /\ Calls(t) = Calls(u) + 1 /\ Retries - t.failures \in Nat
  BY Constants DEF TaskType, Calls, maxAttempts
<1>2. Calls(t) * Timeout = Calls(u) * Timeout + Timeout /\ Calls(u) * Timeout \in Nat
  BY <1>1, OneMore, Constants
<1>3. (Retries - t.failures) * MaxBackoff \in Nat
  BY <1>1, OneMore, Constants
<1> QED
  BY <1>2, <1>3, Constants DEF Ahead

LEMMA SameAhead ==
  ASSUME NEW t, NEW u, u.failures = t.failures, u.repaired = t.repaired
  PROVE  Ahead(u) = Ahead(t)
BY DEF Ahead, Calls

-----------------------------------------------------------------------------
(* The breaker.                                                            *)

LEMMA ClosedSane == Sane(closedBreaker)
BY Constants DEF Sane, Snapshot, closedBreaker

LEMMA MissingSane == Sane(Missing)
BY Constants DEF Sane, Snapshot, closedBreaker, Missing

LEMMA EventSane ==
  ASSUME NEW snap, Sane(snap), NEW event \in {"success", "failure"}
  PROVE  Sane(recordBreakerEvent(snap, event))
<1>1. Sane(countFailure(snap)) \/ effectiveState(snap) # "CLOSED"
  <2> SUFFICES ASSUME effectiveState(snap) = "CLOSED" PROVE Sane(countFailure(snap))
    OBVIOUS
  <2>1. snap.state = "CLOSED" /\ snap.failures < Threshold
    BY DEF effectiveState, Sane, Snapshot
  <2> DEFINE counted == IF snap.window < Window
                        THEN [snap EXCEPT !.failures = @ + 1]
                        ELSE [snap EXCEPT !.failures = 1, !.window = 0]
  <2>2. /\ counted \in Snapshot /\ counted.state = "CLOSED"
        /\ [counted EXCEPT !.state = "OPEN"] \in Snapshot
    <3>1. snap \in Snapshot /\ snap.failures + 1 \in 0..Threshold /\ 1 \in 0..Threshold
      BY <2>1, Constants DEF Sane, Snapshot
    <3>2. CASE snap.window < Window
      BY <2>1, <3>1, <3>2, Constants DEF Snapshot
    <3>3. CASE ~(snap.window < Window)
      <4>1. counted = [[snap EXCEPT !.failures = 1] EXCEPT !.window = 0]
        BY <3>1, <3>3 DEF Snapshot
      <4>2. [snap EXCEPT !.failures = 1] \in Snapshot /\ 0 \in 0..Window
        BY <3>1, Constants DEF Snapshot
      <4> QED
        BY <2>1, <4>1, <4>2 DEF Snapshot
    <3> QED
      BY <3>2, <3>3
  <2> HIDE DEF counted
  <2>3. CASE counted.failures >= Threshold
    <3>1. countFailure(snap) = [counted EXCEPT !.state = "OPEN"]
      BY <2>3 DEF countFailure, counted
    <3> QED
      BY <2>2, <3>1 DEF Sane, Snapshot
  <2>4. CASE ~(counted.failures >= Threshold)
    <3>1. countFailure(snap) = counted
      BY <2>4 DEF countFailure, counted
    <3> QED
      BY <2>2, <2>4, <3>1, Constants DEF Sane, Snapshot
  <2> QED
    BY <2>3, <2>4
<1>2. Sane(Reopened)
  BY Constants DEF Reopened, Sane, Snapshot
<1> QED
  BY <1>1, <1>2, ClosedSane DEF recordBreakerEvent

LEMMA OlderSane ==
  ASSUME NEW snap, Sane(snap)
  PROVE  Sane(Older(snap))
<1> DEFINE w == IF snap.window < Window THEN snap.window + 1 ELSE snap.window
<1> DEFINE o == IF snap.state = "OPEN" /\ snap.open < OpenFor THEN snap.open + 1 ELSE snap.open
<1>1. w \in 0..Window /\ o \in 0..OpenFor
  BY Constants DEF Sane, Snapshot
<1>2. Older(snap) = [snap EXCEPT !.window = w, !.open = o]
  BY DEF Older
<1> HIDE DEF w, o
<1>3. [snap EXCEPT !.window = w] \in Snapshot
  BY <1>1 DEF Sane, Snapshot
<1>4. Older(snap) = [[snap EXCEPT !.window = w] EXCEPT !.open = o]
  BY <1>2, <1>3 DEF Sane, Snapshot
<1> QED
  BY <1>1, <1>3, <1>4 DEF Sane, Snapshot

-----------------------------------------------------------------------------
(* One caller goes on: the others, and what they hold, are left alone.     *)

Frame(t) ==
  /\ t \in TaskType /\ Sound(t) /\ Covered(t, leases) /\ Sane(t.snap)
  /\ t.step = "READ" => t.event \in {"success", "failure"}

LEMMA OneGoesOn ==
  ASSUME IInv, NEW c \in Caller, NEW t, Becomes(c, t), Frame(t),
         t.token \in {NoToken, task[c].token},
         leases' = leases, Sane(breaker'), probe' \in 0..ProbeFor, faults' \in 0..MaxFaults
  PROVE  IInv'
<1>1. task \in [Caller -> TaskType] /\ task' = [task EXCEPT ![c] = t] /\ t \in TaskType
  BY DEF IInv, TypeOK, Becomes, Frame
<1>2. task'[c] = t /\ \A d \in Caller \ {c} : task'[d] = task[d]
  BY <1>1
<1>3. TypeOK'
  BY <1>1 DEF IInv, TypeOK, Sane
<1>4. TasksInv'
  <2> SUFFICES ASSUME NEW d \in Caller PROVE Sound(task'[d]) /\ Covered(task'[d], leases')
    BY DEF TasksInv
  <2>1. CASE d = c
    BY <1>2, <2>1 DEF Frame, Covered
  <2>2. CASE d # c
    BY <1>2, <2>2 DEF IInv, TasksInv, Covered
  <2> QED
    BY <2>1, <2>2
<1>5. TokensInv'
  <2> SUFFICES ASSUME NEW a \in Caller, NEW b \in Caller, a # b, task'[a].token # NoToken
               PROVE  task'[a].token # task'[b].token
    BY DEF TokensInv
  <2>1. /\ task'[a].token \in {NoToken, task[a].token}
        /\ task'[b].token \in {NoToken, task[b].token}
    BY <1>2
  <2> QED
    BY <2>1 DEF IInv, TokensInv
<1>6. LeasesInv'
  <2>1. Held' = Held
    BY DEF Held
  <2> QED
    BY <2>1 DEF IInv, LeasesInv
<1>7. SnapshotsInv'
  <2> SUFFICES ASSUME NEW d \in Caller
               PROVE  /\ Sane(task'[d].snap)
                      /\ task'[d].step = "READ" => task'[d].event \in {"success", "failure"}
    BY DEF SnapshotsInv, Sane, Snapshot
  <2>1. CASE d = c
    BY <1>2, <2>1 DEF Frame
  <2>2. CASE d # c
    BY <1>2, <2>2 DEF IInv, SnapshotsInv
  <2> QED
    BY <2>1, <2>2
<1> QED
  BY <1>3, <1>4, <1>5, <1>6, <1>7 DEF IInv

LEMMA IdleTyped == Idle \in TaskType
BY Constants, ClosedSane DEF Idle, TaskType, Step, Token, NoToken, None, maxAttempts, Sane

LEMMA IdleFrame == Frame(Idle)
BY IdleTyped, ClosedSane DEF Frame, Idle, Sound, Covered

LEMMA TypedTask ==
  ASSUME IInv, NEW c \in Caller
  PROVE  /\ task[c] \in TaskType /\ Sound(task[c]) /\ Covered(task[c], leases)
         /\ Sane(task[c].snap)
         /\ Sane(breaker) /\ probe \in 0..ProbeFor /\ faults \in 0..MaxFaults
         /\ task[c].step = "READ" => task[c].event \in {"success", "failure"}
BY DEF IInv, TypeOK, TasksInv, SnapshotsInv

LEMMA NeedTyped ==
  ASSUME NEW t \in TaskType, Sound(t)
  PROVE  Need(t) \in Nat /\ Need(t) >= 1
<1>1. t.left \in Nat /\ Timeout \in Nat /\ MaxBackoff \in Nat
  BY Constants DEF TaskType
<1>2. t.failures <= Retries => Ahead(t) \in Nat
  BY AheadTyped
<1> QED
  BY <1>1, <1>2 DEF Need, Sound

LEMMA LeaseTyped ==
  ASSUME IInv, NEW c \in Caller, task[c].token # NoToken
  PROVE  task[c].token \in Token /\ leases[task[c].token] \in Nat
BY TypedTask DEF IInv, TypeOK, TaskType

LEMMA ReleasingFrame ==
  ASSUME IInv, NEW c \in Caller, NEW t \in TaskType, t.token = task[c].token
  PROVE  Frame(Releasing(t)) /\ Releasing(t).token = task[c].token
<1>1. Releasing(t) \in TaskType
  BY IdleTyped DEF Releasing, TaskType, Step
<1>2. Sound(Releasing(t))
  BY DEF Sound, Releasing, Idle, Holding
<1>3. Covered(Releasing(t), leases)
  <2>1. Need(Releasing(t)) = 1 /\ Releasing(t).token = task[c].token
    BY DEF Need, Releasing, Idle
  <2>2. task[c].token # NoToken => leases[task[c].token] >= Need(task[c])
    BY TypedTask DEF Covered
  <2>3. task[c].token # NoToken => leases[task[c].token] \in Nat /\ leases[task[c].token] >= 1
    BY <2>2, LeaseTyped, NeedTyped, TypedTask
  <2> QED
    BY <2>1, <2>3 DEF Covered
<1> QED
  BY <1>1, <1>2, <1>3, ClosedSane DEF Frame, Releasing, Idle

LEMMA CallingFrame ==
  ASSUME IInv, NEW c \in Caller, NEW t \in TaskType, t.failures <= Retries,
         t.token = task[c].token, task[c].step \in Holding,
         task[c].token # NoToken => leases[task[c].token] >= Timeout + Ahead(t) + 1
  PROVE  Frame(Calling(t)) /\ Calling(t).token = task[c].token
<1>1. /\ Calling(t) \in TaskType
      /\ Calling(t).step = "CALL" /\ Calling(t).token = task[c].token /\ Calling(t).left = Timeout
      /\ Calling(t).failures = t.failures /\ Calling(t).repaired = t.repaired
      /\ Calling(t).snap = closedBreaker
  BY Constants, ClosedSane DEF Calling, TaskType, Step, Sane
<1>2. Ahead(Calling(t)) = Ahead(t)
  BY <1>1, SameAhead
<1>3. Need(Calling(t)) = Timeout + Ahead(t) + 1
  BY <1>1, <1>2 DEF Need
<1>4. Sound(Calling(t))
  BY <1>1 DEF Sound, Holding
<1>5. Covered(Calling(t), leases)
  BY <1>1, <1>3 DEF Covered
<1> QED
  BY <1>1, <1>4, <1>5, ClosedSane DEF Frame

LEMMA WaitsFrame ==
  ASSUME IInv, NEW c \in Caller, task[c].step \in {"IDLE", "LOOK", "PROBE"}
  PROVE  LET t == [task[c] EXCEPT !.step = "SLOT", !.left = SlotWait]
         IN  Frame(t) /\ t.token = task[c].token
<1> DEFINE t == [task[c] EXCEPT !.step = "SLOT", !.left = SlotWait]
<1>1. task[c].token = NoToken /\ task[c].failures = 0 /\ ~task[c].repaired
  BY TypedTask DEF Sound, Holding
<1>2. t \in TaskType /\ t.step = "SLOT" /\ t.token = NoToken /\ t.failures = 0 /\ ~t.repaired
      /\ t.snap = task[c].snap
  BY <1>1, TypedTask, Constants DEF TaskType, Step
<1> QED
  BY <1>1, <1>2, TypedTask DEF Frame, Sound, Covered

LEMMA WaitsStep ==
  ASSUME IInv, NEW c \in Caller, task[c].step \in {"IDLE", "LOOK", "PROBE"}, Waits(c),
         leases' = leases, breaker' = breaker, probe' \in 0..ProbeFor, faults' \in 0..MaxFaults
  PROVE  IInv'
BY WaitsFrame, OneGoesOn, TypedTask DEF Waits

LEMMA IdleStep ==
  ASSUME IInv, NEW c \in Caller, Becomes(c, Idle),
         leases' = leases, breaker' = breaker, probe' = probe, faults' \in 0..MaxFaults
  PROVE  IInv'
BY IdleFrame, OneGoesOn, TypedTask DEF Idle

(* After the breaker has heard, with or without Redis.                     *)
LEMMA GoesOnStep ==
  ASSUME IInv, NEW c \in Caller, task[c].step \in {"READ", "WRITE"}, GoesOn(c),
         leases' = leases, Sane(breaker'), probe' = probe, faults' \in 0..MaxFaults
  PROVE  IInv'
<1> DEFINE t == [task[c] EXCEPT !.event = None, !.snap = closedBreaker]
<1>1. /\ t \in TaskType /\ t.step = task[c].step /\ t.token = task[c].token
      /\ t.failures = task[c].failures /\ t.repaired = task[c].repaired
      /\ t.then = task[c].then /\ t.snap = closedBreaker
  BY TypedTask, ClosedSane DEF TaskType, Sane
<1>2. Ahead(t) = Ahead(task[c])
  BY <1>1, SameAhead
<1>a. probe' \in 0..ProbeFor
  BY TypedTask
<1>3. CASE t.then = "REPAIR" /\ Becomes(c, Calling(t))
  <2>1. t.failures <= Retries
    BY <1>1, <1>3, TypedTask DEF Sound
  <2>2. task[c].token # NoToken => leases[task[c].token] >= Timeout + Ahead(t) + 1
    BY <1>1, <1>2, <1>3, TypedTask DEF Covered, Need
  <2>3. Frame(Calling(t)) /\ Calling(t).token = task[c].token
    BY <1>1, <2>1, <2>2, CallingFrame DEF Holding
  <2> QED
    BY <1>3, <1>a, <2>3, OneGoesOn
<1>4. ASSUME NEW d \in 0..MaxBackoff, t.then = "RETRY",
             Becomes(c, [t EXCEPT !.step = "BACKOFF", !.left = d])
      PROVE  IInv'
  <2> DEFINE u == [t EXCEPT !.step = "BACKOFF", !.left = d]
  <2> HIDE DEF t
  <2>1. /\ u \in TaskType /\ u.step = "BACKOFF" /\ u.token = task[c].token /\ u.left = d
        /\ u.failures = t.failures /\ u.repaired = t.repaired /\ u.snap = closedBreaker
    <3>1. t \in TaskType /\ d \in Nat
      BY <1>1, Constants
    <3>2. [t EXCEPT !.step = "BACKOFF"] \in TaskType
      BY <3>1 DEF TaskType, Step
    <3>3. u = [[t EXCEPT !.step = "BACKOFF"] EXCEPT !.left = d]
      BY <3>1 DEF TaskType
    <3> QED
      BY <1>1, <3>1, <3>2, <3>3 DEF TaskType
  <2>2. t.failures <= Retries
    BY <1>1, <1>4, TypedTask DEF Sound
  <2>3. Ahead(u) = Ahead(t) /\ Ahead(t) \in Nat
    BY <1>1, <2>1, <2>2, SameAhead, AheadTyped
  <2>4. Need(u) = d + Timeout + Ahead(t) + 1
    BY <2>1, <2>3 DEF Need
  <2>5. Need(task[c]) = MaxBackoff + Timeout + Ahead(t) + 1
    BY <1>1, <1>2, <1>4 DEF Need
  <2>6. Covered(u, leases)
    <3>1. Need(u) <= Need(task[c]) /\ Need(u) \in Nat /\ Need(task[c]) \in Nat
      BY <2>3, <2>4, <2>5, Constants
    <3>2. CASE task[c].token # NoToken
      BY <2>1, <3>1, <3>2, TypedTask, LeaseTyped DEF Covered
    <3> QED
      BY <2>1, <3>2 DEF Covered
  <2>7. Frame(u)
    BY <1>1, <2>1, <2>2, <2>6, ClosedSane DEF Frame, Sound, Holding
  <2> QED
    BY <1>4, <1>a, <2>1, <2>7, OneGoesOn
<1>5. CASE t.then = "LEAVE" /\ Becomes(c, Releasing(t))
  BY <1>1, <1>5, <1>a, ReleasingFrame, OneGoesOn
<1> QED
  BY <1>3, <1>4, <1>5 DEF GoesOn

-----------------------------------------------------------------------------
(* Actions of a run.                                                       *)

LEMMA StartStep ==
  ASSUME IInv, NEW c \in Caller, run(c) \/ runOnModel(c)
  PROVE  IInv'
<1>1. CASE run(c)
  <2> DEFINE t == [Idle EXCEPT !.step = "LOOK"]
  <2>1. t \in TaskType /\ t.step = "LOOK" /\ t.token = NoToken /\ t.failures = 0 /\ ~t.repaired
        /\ t.snap = closedBreaker
    BY IdleTyped DEF Idle, TaskType, Step
  <2>2. Frame(t)
    BY <2>1, ClosedSane DEF Frame, Sound, Covered
  <2> HIDE DEF t
  <2>3. Becomes(c, t) /\ UNCHANGED <<breaker, probe, leases, faults>>
    BY <1>1 DEF run, t
  <2> QED
    BY <2>1, <2>2, <2>3, OneGoesOn, TypedTask
<1>2. CASE runOnModel(c)
  BY <1>2, WaitsStep, TypedTask DEF runOnModel
<1> QED
  BY <1>1, <1>2

LEMMA LookStep ==
  ASSUME IInv, NEW c \in Caller, Look(c) \/ tryLock(c)
  PROVE  IInv'
<1>1. CASE Look(c)
  <2>1. CASE Waits(c)
    BY <1>1, <2>1, WaitsStep, TypedTask DEF Look
  <2>2. CASE Becomes(c, Idle)
    BY <1>1, <2>2, IdleStep, TypedTask DEF Look
  <2>3. CASE Becomes(c, [task[c] EXCEPT !.step = "PROBE"])
    <3> DEFINE t == [task[c] EXCEPT !.step = "PROBE"]
    <3>1. task[c].step = "LOOK"
      BY <1>1 DEF Look
    <3>2. /\ t \in TaskType /\ t.step = "PROBE" /\ t.token = task[c].token /\ t.snap = task[c].snap
          /\ t.failures = task[c].failures /\ t.repaired = task[c].repaired
      BY TypedTask DEF TaskType, Step
    <3>3. Frame(t)
      BY <3>1, <3>2, TypedTask DEF Frame, Sound, Covered, Holding
    <3> HIDE DEF t
    <3>4. Becomes(c, t) /\ UNCHANGED <<breaker, probe, leases, faults>>
      BY <1>1, <2>3 DEF Look, t
    <3> QED
      BY <3>2, <3>3, <3>4, OneGoesOn, TypedTask
  <2> QED
    BY <1>1, <2>1, <2>2, <2>3 DEF Look
<1>2. CASE tryLock(c)
  <2>1. CASE probe = 0 /\ probe' = ProbeFor /\ Waits(c)
    BY <1>2, <2>1, WaitsStep, TypedTask, Constants DEF tryLock
  <2>2. CASE probe > 0 /\ Becomes(c, Idle) /\ UNCHANGED probe
    BY <1>2, <2>2, IdleStep, TypedTask DEF tryLock
  <2> QED
    BY <1>2, <2>1, <2>2 DEF tryLock
<1> QED
  BY <1>1, <1>2

LEMMA HeldFinite ==
  /\ IsFiniteSet(Held) /\ Cardinality(Held) \in Nat
  /\ IsFiniteSet(Held') /\ Cardinality(Held') \in Nat
<1>1. IsFiniteSet(Token)
  BY Constants, FS_Interval DEF Token
<1>2. Held \in SUBSET Token /\ Held' \in SUBSET Token
  BY DEF Held
<1> QED
  BY <1>1, <1>2, FS_Subset, FS_CardinalityType

LEMMA FullLease == leaseMs = Timeout + ((Retries + 1) * Timeout + Retries * MaxBackoff) + (Slack - Retries * MaxBackoff)
<1>1. Timeout * (Retries + 2) = (Retries + 1) * Timeout + Timeout /\ Retries * MaxBackoff \in Nat
      /\ (Retries + 1) * Timeout \in Nat
  BY Constants, OneMore
<1> QED
  BY <1>1, Constants DEF leaseMs

LEMMA AcquireStep ==
  ASSUME IInv, NEW c \in Caller, acquireSlot(c)
  PROVE  IInv'
<1> DEFINE k == CHOOSE f \in Fresh : TRUE
<1>1. k \in Fresh
  BY DEF acquireSlot
<1> HIDE DEF k
<1>2. /\ k \in Token /\ k # NoToken /\ leases[k] = 0
      /\ \A d \in Caller : task[d].token # k
  BY <1>1, Constants DEF Fresh, Token, NoToken
<1> DEFINE t == [task[c] EXCEPT !.token = k]
<1>3. /\ task[c].step = "SLOT" /\ Cardinality(Held) < Concurrency
      /\ leases' = [leases EXCEPT ![k] = leaseMs]
      /\ task' = [task EXCEPT ![c] = Calling(t)]
      /\ UNCHANGED <<breaker, probe, faults>>
  BY DEF acquireSlot, k, Becomes
<1>4. /\ t \in TaskType /\ t.token = k /\ t.failures = 0 /\ ~t.repaired
  BY <1>2, <1>3, TypedTask DEF TaskType, Sound
<1> HIDE DEF t
<1>5. /\ Calling(t) \in TaskType
      /\ Calling(t).step = "CALL" /\ Calling(t).token = k /\ Calling(t).left = Timeout
      /\ Calling(t).failures = 0 /\ ~Calling(t).repaired /\ Calling(t).snap = closedBreaker
  BY <1>4, Constants, ClosedSane DEF Calling, TaskType, Step, Sane
<1>6. leaseMs \in Nat /\ leaseMs >= Need(Calling(t))
  <2>1. Ahead(Calling(t)) = (Retries + 1) * Timeout + Retries * MaxBackoff
    BY <1>5, Constants DEF Ahead, Calls
  <2>2. Need(Calling(t)) = Timeout + Ahead(Calling(t)) + 1
    BY <1>5 DEF Need
  <2>3. (Retries + 1) * Timeout \in Nat /\ Retries * MaxBackoff \in Nat
    BY Constants, OneMore
  <2> QED
    BY <2>1, <2>2, <2>3, FullLease, Constants
<1>7. leases \in [Token -> Nat] /\ task \in [Caller -> TaskType]
  BY DEF IInv, TypeOK
<1>8. /\ leases' \in [Token -> Nat] /\ leases'[k] = leaseMs
      /\ \A m \in Token \ {k} : leases'[m] = leases[m]
  BY <1>2, <1>3, <1>6, <1>7
<1>9. /\ task' \in [Caller -> TaskType] /\ task'[c] = Calling(t)
      /\ \A d \in Caller \ {c} : task'[d] = task[d]
  BY <1>3, <1>5, <1>7
<1>10. TypeOK'
  BY <1>3, <1>8, <1>9 DEF IInv, TypeOK
<1>11. TasksInv'
  <2> SUFFICES ASSUME NEW d \in Caller PROVE Sound(task'[d]) /\ Covered(task'[d], leases')
    BY DEF TasksInv
  <2>1. CASE d = c
    <3>1. Sound(task'[c])
      BY <1>5, <1>9, Constants DEF Sound, Holding
    <3>2. Covered(task'[c], leases')
      BY <1>5, <1>6, <1>8, <1>9 DEF Covered
    <3> QED
      BY <2>1, <3>1, <3>2
  <2>2. CASE d # c
    <3>1. task'[d] = task[d] /\ task[d].token \in Token \cup {NoToken} /\ task[d].token # k
      BY <1>2, <1>9, <2>2, TypedTask DEF TaskType
    <3>2. task[d].token # NoToken => leases'[task[d].token] = leases[task[d].token]
      BY <1>8, <3>1
    <3> QED
      BY <3>1, <3>2, TypedTask DEF Covered
  <2> QED
    BY <2>1, <2>2
<1>12. TokensInv'
  <2> SUFFICES ASSUME NEW a \in Caller, NEW b \in Caller, a # b, task'[a].token # NoToken
               PROVE  task'[a].token # task'[b].token
    BY DEF TokensInv
  <2>1. CASE a = c
    BY <1>2, <1>5, <1>9, <2>1
  <2>2. CASE b = c
    BY <1>2, <1>5, <1>9, <2>2
  <2>3. CASE a # c /\ b # c
    BY <1>9, <2>3 DEF IInv, TokensInv
  <2> QED
    BY <2>1, <2>2, <2>3
<1>13. LeasesInv'
  <2>1. Held' \in SUBSET (Held \cup {k})
    BY <1>8 DEF Held
  <2>2. IsFiniteSet(Held \cup {k}) /\ Cardinality(Held \cup {k}) <= Cardinality(Held) + 1
    <3>1. /\ IsFiniteSet(Held \cup {k})
          /\ Cardinality(Held \cup {k}) = IF k \in Held THEN Cardinality(Held)
                                          ELSE Cardinality(Held) + 1
      BY HeldFinite, FS_AddElement
    <3> QED
      BY <3>1, HeldFinite
  <2>3. Cardinality(Held \cup {k}) \in Nat
    BY <2>2, FS_CardinalityType
  <2>4. Cardinality(Held') <= Cardinality(Held \cup {k})
    BY <2>1, <2>2, FS_Subset
  <2> QED
    BY <1>3, <2>2, <2>3, <2>4, HeldFinite, Constants DEF LeasesInv
<1>14. SnapshotsInv'
  BY <1>3, <1>5, <1>9, ClosedSane, TypedTask DEF SnapshotsInv, Sane, Snapshot
<1> QED
  BY <1>10, <1>11, <1>12, <1>13, <1>14 DEF IInv

LEMMA SaturatedStep ==
  ASSUME IInv, NEW c \in Caller, Saturated(c)
  PROVE  IInv'
BY IdleStep, TypedTask DEF Saturated

LEMMA AnswersStep ==
  ASSUME IInv, NEW c \in Caller, NEW o \in Outcome, Answers(c, o)
  PROVE  IInv'
<1> DEFINE old == task[c]
           n == IF o = "TRANSIENT" THEN old.failures + 1 ELSE old.failures
           r == old.repaired \/ o = "INVALID_OUTPUT"
           t == [old EXCEPT !.left = 0, !.event = eventOf(o), !.then = After(old, o),
                            !.failures = n, !.repaired = r]
<1>1. /\ old.step = "CALL" /\ old \in TaskType /\ old.failures <= Retries /\ old.failures \in Nat
      /\ old.repaired \in BOOLEAN
  BY TypedTask DEF Answers, Sound, TaskType, maxAttempts
<1>2. n \in 0..maxAttempts /\ r \in BOOLEAN
  BY <1>1, Constants DEF maxAttempts
<1>3. After(old, o) \in {"REPAIR", "RETRY", "LEAVE"} /\ eventOf(o) \in {"success", "failure", None}
  BY DEF After, eventOf, Outcome
<1>4. /\ t \in TaskType /\ t.token = old.token /\ t.event = eventOf(o) /\ t.then = After(old, o)
      /\ t.failures = n /\ t.repaired = r /\ t.snap = old.snap /\ t.step = "CALL"
  <2> HIDE DEF n, r
  <2>1. [old EXCEPT !.left = 0, !.event = eventOf(o), !.then = After(old, o)] \in TaskType
    BY <1>1, <1>3 DEF TaskType
  <2> QED
    BY <1>1, <1>2, <1>3, <2>1 DEF TaskType
<1>5. Becomes(c, IF eventOf(o) = None THEN Releasing(t) ELSE [t EXCEPT !.step = "READ"])
      /\ UNCHANGED <<breaker, probe, leases, faults>>
  BY DEF Answers
<1>6. After(old, o) = "RETRY" => n = old.failures + 1 /\ n <= Retries /\ r = old.repaired
  <2>1. After(old, o) = "RETRY" => o = "TRANSIENT" /\ old.failures + 1 < maxAttempts
    BY DEF After, Outcome
  <2> QED
    BY <1>1, <2>1, Constants DEF maxAttempts
<1>7. After(old, o) = "REPAIR" => n = old.failures /\ ~old.repaired /\ r
  <2>1. After(old, o) = "REPAIR" => o = "INVALID_OUTPUT" /\ ~old.repaired
    BY DEF After, Outcome
  <2> QED
    BY <2>1
<1> HIDE DEF t, n, r
<1>8. CASE eventOf(o) = None
  <2>1. Becomes(c, Releasing(t)) /\ UNCHANGED <<breaker, probe, leases, faults>>
    BY <1>5, <1>8
  <2>2. Frame(Releasing(t)) /\ Releasing(t).token = task[c].token
    BY <1>4, ReleasingFrame
  <2> QED
    BY <2>1, <2>2, OneGoesOn, TypedTask
<1>9. CASE eventOf(o) # None
  <2> DEFINE u == [t EXCEPT !.step = "READ"]
  <2>1. /\ u \in TaskType /\ u.step = "READ" /\ u.token = old.token /\ u.event = eventOf(o)
        /\ u.then = After(old, o) /\ u.failures = n /\ u.repaired = r /\ u.snap = old.snap
    BY <1>4 DEF TaskType, Step
  <2>2. Becomes(c, u) /\ UNCHANGED <<breaker, probe, leases, faults>>
    BY <1>5, <1>9
  <2> HIDE DEF u
  <2>3. Sound(u)
    BY <1>1, <1>6, <1>7, <2>1 DEF Sound, Holding
  <2>4. Need(u) <= Need(old)
    <3>1. Need(old) = old.left + Ahead(old) + 1 /\ old.left \in Nat /\ Ahead(old) \in Nat
      BY <1>1, AheadTyped DEF Need, TaskType
    <3>2. CASE After(old, o) = "RETRY"
      <4>1. Ahead(old) = Ahead(u) + Timeout + MaxBackoff
        BY <1>1, <1>6, <2>1, <3>2, RetryUsesAhead, Constants
      <4>2. Need(u) = MaxBackoff + Timeout + Ahead(u) + 1 /\ Ahead(u) \in Nat
        BY <1>6, <2>1, <3>2, AheadTyped DEF Need
      <4> QED
        BY <3>1, <4>1, <4>2, Constants
    <3>3. CASE After(old, o) = "REPAIR"
      <4>1. Ahead(old) = Ahead(u) + Timeout
        BY <1>1, <1>7, <2>1, <3>3, RepairUsesAhead
      <4>2. Need(u) = Timeout + Ahead(u) + 1 /\ Ahead(u) \in Nat
        BY <1>1, <1>7, <2>1, <3>3, AheadTyped DEF Need
      <4> QED
        BY <3>1, <4>1, <4>2, Constants
    <3>4. CASE After(old, o) = "LEAVE"
      BY <2>1, <3>1, <3>4 DEF Need
    <3> QED
      BY <1>3, <3>2, <3>3, <3>4
  <2>5. Covered(u, leases)
    <3>1. Need(u) \in Nat /\ Need(old) \in Nat
      BY <1>1, <2>1, <2>3, NeedTyped, TypedTask
    <3>2. CASE old.token # NoToken
      BY <2>1, <2>4, <3>1, <3>2, TypedTask, LeaseTyped DEF Covered
    <3> QED
      BY <2>1, <3>2 DEF Covered
  <2>6. Frame(u)
    BY <1>3, <1>9, <2>1, <2>3, <2>5, TypedTask DEF Frame
  <2> QED
    BY <2>1, <2>2, <2>6, OneGoesOn, TypedTask
<1> QED
  BY <1>8, <1>9

LEMMA BreakerStep ==
  ASSUME IInv, NEW c \in Caller, ReadBreaker(c) \/ WriteBreaker(c)
  PROVE  IInv'
<1>1. CASE ReadBreaker(c)
  <2> DEFINE next == recordBreakerEvent(breaker, task[c].event)
             t == [task[c] EXCEPT !.step = "WRITE", !.snap = next]
  <2>1. task[c].step = "READ" /\ UNCHANGED <<breaker, probe, leases, faults>>
    BY <1>1 DEF ReadBreaker
  <2>2. Sane(next) /\ next \in Snapshot
    BY <2>1, EventSane, TypedTask DEF Sane
  <2>3. CASE GoesOn(c)
    BY <2>1, <2>3, GoesOnStep, TypedTask
  <2>4. CASE Becomes(c, t)
    <3> HIDE DEF next
    <3>1. /\ t \in TaskType /\ t.step = "WRITE" /\ t.token = task[c].token /\ t.snap = next
          /\ t.failures = task[c].failures /\ t.repaired = task[c].repaired
          /\ t.then = task[c].then
      BY <2>2, TypedTask DEF TaskType, Step
    <3> HIDE DEF t
    <3>2. Sound(t)
      BY <2>1, <3>1, TypedTask DEF Sound, Holding
    <3>3. Need(t) = Need(task[c])
      BY <2>1, <3>1, SameAhead DEF Need
    <3>4. Frame(t)
      BY <2>2, <3>1, <3>2, <3>3, TypedTask DEF Frame, Covered
    <3> QED
      BY <2>1, <2>4, <3>1, <3>4, OneGoesOn, TypedTask
  <2> QED
    BY <1>1, <2>3, <2>4 DEF ReadBreaker
<1>2. CASE WriteBreaker(c)
  BY <1>2, GoesOnStep, TypedTask DEF WriteBreaker
<1> QED
  BY <1>1, <1>2

LEMMA RetryStep ==
  ASSUME IInv, NEW c \in Caller, Retry(c)
  PROVE  IInv'
<1>1. /\ task[c].step = "BACKOFF" /\ task[c].left = 0 /\ Becomes(c, Calling(task[c]))
      /\ UNCHANGED <<breaker, probe, leases, faults>>
  BY DEF Retry
<1>2. task[c].failures <= Retries
  BY <1>1, TypedTask DEF Sound
<1>3. task[c].token # NoToken => leases[task[c].token] >= Timeout + Ahead(task[c]) + 1
  <2>1. Need(task[c]) = 0 + Timeout + Ahead(task[c]) + 1 /\ Ahead(task[c]) \in Nat
    BY <1>1, <1>2, AheadTyped, TypedTask DEF Need
  <2>2. Need(task[c]) = Timeout + Ahead(task[c]) + 1
    BY <2>1, Constants
  <2> QED
    BY <2>2, TypedTask DEF Covered
<1>4. Frame(Calling(task[c])) /\ Calling(task[c]).token = task[c].token
  BY <1>1, <1>2, <1>3, CallingFrame, TypedTask DEF Holding
<1> QED
  BY <1>1, <1>4, OneGoesOn, TypedTask

(* A slot is given back by the token it was taken with: nobody else's.     *)
LEMMA ReleaseStep ==
  ASSUME IInv, NEW c \in Caller, releaseSlot(c)
  PROVE  IInv'
<1>1. Becomes(c, Idle) /\ UNCHANGED <<breaker, probe, faults>>
  BY DEF releaseSlot
<1>2. CASE task[c].token = NoToken
  BY <1>1, <1>2, IdleStep, TypedTask DEF releaseSlot
<1>3. CASE task[c].token # NoToken
  <2> DEFINE k == task[c].token
  <2>1. leases' = [leases EXCEPT ![k] = 0] /\ k \in Token
    BY <1>3, LeaseTyped DEF releaseSlot
  <2>2. leases \in [Token -> Nat] /\ task \in [Caller -> TaskType]
    BY DEF IInv, TypeOK
  <2>3. leases' \in [Token -> Nat] /\ leases'[k] = 0 /\ \A m \in Token \ {k} : leases'[m] = leases[m]
    BY <2>1, <2>2
  <2>4. /\ task' \in [Caller -> TaskType] /\ task'[c] = Idle
        /\ \A d \in Caller \ {c} : task'[d] = task[d]
    BY <1>1, <2>2, IdleTyped DEF Becomes
  <2>5. TypeOK'
    BY <1>1, <2>3, <2>4 DEF IInv, TypeOK
  <2>6. TasksInv'
    <3> SUFFICES ASSUME NEW d \in Caller PROVE Sound(task'[d]) /\ Covered(task'[d], leases')
      BY DEF TasksInv
    <3>1. CASE d = c
      <4>1. Sound(Idle) /\ Idle.token = NoToken
        BY IdleFrame DEF Frame, Idle
      <4> QED
        BY <2>4, <3>1, <4>1 DEF Covered
    <3>2. CASE d # c
      <4>1. task'[d] = task[d] /\ task[d].token \in Token \cup {NoToken} /\ task[d].token # k
        BY <1>3, <2>4, <3>2, TypedTask DEF TaskType, IInv, TokensInv
      <4>2. task[d].token # NoToken => leases'[task[d].token] = leases[task[d].token]
        BY <2>3, <4>1
      <4> QED
        BY <4>1, <4>2, TypedTask DEF Covered
    <3> QED
      BY <3>1, <3>2
  <2>7. TokensInv'
    BY <2>4 DEF IInv, TokensInv, Idle
  <2>8. LeasesInv'
    <3>1. Held' \in SUBSET Held
      BY <2>3 DEF Held
    <3>2. Cardinality(Held') <= Cardinality(Held)
      BY <3>1, HeldFinite, FS_Subset
    <3> QED
      BY <3>2, HeldFinite, Constants DEF IInv, LeasesInv
  <2>9. SnapshotsInv'
    BY <1>1, <2>4, IdleFrame, TypedTask DEF Frame, SnapshotsInv, Sane, Snapshot
  <2> QED
    BY <2>5, <2>6, <2>7, <2>8, <2>9 DEF IInv
<1> QED
  BY <1>2, <1>3

LEMMA AbortsStep ==
  ASSUME IInv, NEW c \in Caller, Aborts(c)
  PROVE  IInv'
<1>1. UNCHANGED <<breaker, probe, leases, faults>>
  BY DEF Aborts
<1>2. CASE Becomes(c, Idle)
  BY <1>1, <1>2, IdleStep, TypedTask
<1>3. CASE Becomes(c, Releasing(task[c]))
  BY <1>1, <1>3, ReleasingFrame, OneGoesOn, TypedTask
<1> QED
  BY <1>2, <1>3 DEF Aborts

LEMMA FaultStep ==
  ASSUME IInv, NEW c \in Caller, CallerDies(c) \/ FailsOpen(c)
  PROVE  IInv'
<1>1. UNCHANGED <<breaker, probe, leases>> /\ faults' \in 0..MaxFaults
  BY TypedTask, Constants DEF CallerDies, FailsOpen, GoesWrong
<1>2. CASE Becomes(c, Idle)
  BY <1>1, <1>2, IdleStep
<1>3. CASE task[c].step \in {"LOOK", "PROBE"} /\ Waits(c)
  BY <1>1, <1>3, WaitsStep, TypedTask
<1>4. CASE task[c].step \in {"READ", "WRITE"} /\ GoesOn(c)
  BY <1>1, <1>4, GoesOnStep, TypedTask
<1>5. CASE task[c].step = "SLOT" /\ Becomes(c, Calling(task[c]))
  <2>1. task[c].token = NoToken /\ task[c].failures = 0 /\ task[c] \in TaskType
    BY <1>5, TypedTask DEF Sound, Holding
  <2> DEFINE t == Calling(task[c])
  <2>2. t \in TaskType /\ t.step = "CALL" /\ t.token = NoToken /\ t.failures = 0
        /\ t.snap = closedBreaker
    BY <2>1, Constants, ClosedSane DEF Calling, TaskType, Step, Sane
  <2>3. Frame(t)
    BY <2>2, ClosedSane, Constants DEF Frame, Sound, Covered
  <2> HIDE DEF t
  <2>4. Becomes(c, t)
    BY <1>5 DEF t
  <2> QED
    BY <1>1, <2>2, <2>3, <2>4, OneGoesOn, TypedTask
<1> QED
  BY <1>2, <1>3, <1>4, <1>5 DEF CallerDies, FailsOpen

LEMMA ExpiresStep ==
  ASSUME IInv, BreakerExpires
  PROVE  IInv'
<1>1. breaker' = Missing /\ UNCHANGED <<probe, leases, task, faults>>
  BY DEF BreakerExpires
<1> QED
  BY <1>1, MissingSane DEF IInv, TypeOK, TasksInv, TokensInv, LeasesInv, Held, Covered, SnapshotsInv,
     Sane, Snapshot

(* Time takes as much from a lease as from the wait of its holder.         *)
LEMMA TickStep ==
  ASSUME IInv, Tick
  PROVE  IInv'
<1>1. \A n \in Nat : Less(n) \in Nat /\ Less(n) <= n /\ (n > 0 => Less(n) = n - 1)
  BY DEF Less
<1>2. leases \in [Token -> Nat] /\ task \in [Caller -> TaskType]
  BY DEF IInv, TypeOK
<1>3. \A k \in Token : leases'[k] = Less(leases[k])
  BY DEF Tick
<1>4. leases' \in [Token -> Nat]
  BY <1>1, <1>2 DEF Tick
<1>5. ASSUME NEW c \in Caller
      PROVE  /\ task'[c] = [task[c] EXCEPT !.left = Less(task[c].left)]
             /\ task'[c] \in TaskType /\ task'[c].left = Less(task[c].left)
             /\ task'[c].step = task[c].step /\ task'[c].token = task[c].token
             /\ task'[c].failures = task[c].failures /\ task'[c].repaired = task[c].repaired
             /\ task'[c].then = task[c].then /\ task'[c].snap = task[c].snap
             /\ task'[c].event = task[c].event
  <2>1. task'[c] = [task[c] EXCEPT !.left = Less(task[c].left)]
    BY DEF Tick
  <2> QED
    BY <1>1, <2>1, TypedTask DEF TaskType
<1>6. task' \in [Caller -> TaskType]
  <2>1. \A c \in Caller : [task[c] EXCEPT !.left = Less(@)] \in TaskType
    BY <1>1, <1>2 DEF TaskType
  <2> QED
    BY <2>1 DEF Tick
<1>7. TypeOK'
  <2>1. breaker' \in Snapshot
    BY OlderSane DEF IInv, SnapshotsInv, Tick, Sane
  <2>2. probe' \in 0..ProbeFor
    BY Constants DEF IInv, TypeOK, Tick, ProbeLeft, Less
  <2> QED
    BY <1>4, <1>6, <2>1, <2>2 DEF IInv, TypeOK, Tick
<1>8. TasksInv'
  <2> SUFFICES ASSUME NEW c \in Caller PROVE Sound(task'[c]) /\ Covered(task'[c], leases')
    BY DEF TasksInv
  <2>1. Sound(task'[c])
    BY <1>5, TypedTask DEF Sound
  <2>2. ASSUME task[c].token # NoToken PROVE leases'[task[c].token] >= Need(task'[c])
    <3>1. /\ task[c].token \in Token /\ leases[task[c].token] \in Nat
          /\ leases[task[c].token] >= Need(task[c])
      BY <2>2, TypedTask, LeaseTyped DEF Covered
    <3>2. task[c].step \in {"CALL", "BACKOFF"} /\ task[c].left \in Nat /\ task[c].left > 0
      BY <2>2, TypedTask DEF Tick, Between, Sound, Holding, Urgent, TaskType
    <3>3. Ahead(task'[c]) = Ahead(task[c]) /\ Ahead(task[c]) \in Nat
      BY <1>5, <3>2, SameAhead, AheadTyped, TypedTask DEF Sound
    <3>4. task'[c].left = task[c].left - 1
      BY <1>1, <1>5, <3>2
    <3>5. Need(task'[c]) = Need(task[c]) - 1
      <4>1. task'[c].step = task[c].step
        BY <1>5
      <4>2. CASE task[c].step = "CALL"
        <5>1. Need(task[c]) = task[c].left + Ahead(task[c]) + 1
          BY <4>2 DEF Need
        <5>2. Need(task'[c]) = task'[c].left + Ahead(task'[c]) + 1
          BY <4>1, <4>2 DEF Need
        <5> QED
          BY <5>1, <5>2, <3>2, <3>3, <3>4
      <4>3. CASE task[c].step = "BACKOFF"
        <5>1. Need(task[c]) = task[c].left + Timeout + Ahead(task[c]) + 1
          BY <4>3 DEF Need
        <5>2. Need(task'[c]) = task'[c].left + Timeout + Ahead(task'[c]) + 1
          BY <4>1, <4>3 DEF Need
        <5> QED
          BY <5>1, <5>2, <3>2, <3>3, <3>4, Constants
      <4> QED
        BY <3>2, <4>2, <4>3
    <3>6. Need(task[c]) \in Nat /\ Need(task[c]) >= 1
      BY NeedTyped, TypedTask
    <3> QED
      BY <1>1, <1>3, <3>1, <3>5, <3>6
  <2> QED
    BY <1>5, <2>1, <2>2 DEF Covered
<1>9. TokensInv'
  <2> SUFFICES ASSUME NEW a \in Caller, NEW b \in Caller, a # b, task'[a].token # NoToken
               PROVE  task'[a].token # task'[b].token
    BY DEF TokensInv
  <2>1. task'[a].token = task[a].token /\ task'[b].token = task[b].token
    BY <1>5
  <2> QED
    BY <2>1 DEF IInv, TokensInv
<1>10. LeasesInv'
  <2>1. Held' \in SUBSET Held
    BY <1>1, <1>2, <1>3 DEF Held, Less
  <2>2. Cardinality(Held') <= Cardinality(Held)
    BY <2>1, HeldFinite, FS_Subset
  <2> QED
    BY <2>2, HeldFinite, Constants DEF IInv, LeasesInv
<1>11. SnapshotsInv'
  <2>1. Sane(breaker')
    BY OlderSane DEF IInv, SnapshotsInv, Tick
  <2> QED
    BY <1>5, <2>1, TypedTask DEF SnapshotsInv, Sane, Snapshot
<1> QED
  BY <1>7, <1>8, <1>9, <1>10, <1>11 DEF IInv

-----------------------------------------------------------------------------
(* The invariant, and what follows from it.                                *)

LEMMA InitInv ==
  ASSUME Init
  PROVE  IInv
<1>1. task = [c \in Caller |-> Idle] /\ leases = [k \in Token |-> 0] /\ breaker = Missing
      /\ probe = 0 /\ faults = 0
  BY DEF Init
<1>2. TypeOK
  BY <1>1, IdleTyped, MissingSane, Constants DEF TypeOK, Sane
<1>3. LeasesInv
  <2>1. Held = {}
    BY <1>1 DEF Held
  <2> QED
    BY <2>1, FS_EmptySet, Constants DEF LeasesInv
<1>4. TasksInv
  <2>1. Idle.token = NoToken
    BY DEF Idle
  <2> QED
    BY <1>1, <2>1, IdleFrame DEF TasksInv, Frame, Covered
<1>5. TokensInv /\ SnapshotsInv
  BY <1>1, IdleFrame, MissingSane DEF TokensInv, SnapshotsInv, Frame, Idle
<1> QED
  BY <1>2, <1>3, <1>4, <1>5 DEF IInv

LEMMA NextInv ==
  ASSUME IInv, [Next]_vars
  PROVE  IInv'
<1>1. CASE UNCHANGED vars
  <2>1. Held' = Held
    BY <1>1 DEF Held, vars
  <2> QED
    BY <1>1, <2>1 DEF vars, IInv, TypeOK, TasksInv, TokensInv, LeasesInv, Covered, SnapshotsInv,
       Sane, Snapshot
<1>2. CASE Next
  <2>1. ASSUME NEW c \in Caller, Runs(c) PROVE IInv'
    BY <2>1, LookStep, AcquireStep, SaturatedStep, AnswersStep, BreakerStep, RetryStep, ReleaseStep
       DEF Runs
  <2> QED
    BY <1>2, <2>1, StartStep, AbortsStep, FaultStep, ExpiresStep, TickStep DEF Next
<1> QED
  BY <1>1, <1>2

(* Holders have leases of their own, and those the script has counted.     *)
LEMMA HoldersCounted == IInv => ConcurrencyKept
<1> SUFFICES ASSUME IInv PROVE ConcurrencyKept
  OBVIOUS
<1> DEFINE f == [c \in Holders |-> task[c].token]
<1>1. \A c \in Holders : task[c].token \in Held
  <2> SUFFICES ASSUME NEW c \in Caller, task[c].token # NoToken PROVE task[c].token \in Held
    BY DEF Holders
  <2>1. /\ task[c].token \in Token /\ leases[task[c].token] \in Nat
        /\ leases[task[c].token] >= Need(task[c])
    BY TypedTask, LeaseTyped DEF Covered
  <2>2. Need(task[c]) \in Nat /\ Need(task[c]) >= 1
    BY NeedTyped, TypedTask
  <2> QED
    BY <2>1, <2>2 DEF Held
<1>2. f \in Injection(Holders, Held)
  BY <1>1 DEF Injection, IsInjective, Holders, IInv, TokensInv
<1>3. Cardinality(Holders) <= Cardinality(Held) /\ IsFiniteSet(Holders)
  BY <1>2, HeldFinite, FS_Injection
<1> QED
  BY <1>3, HeldFinite, FS_CardinalityType, Constants DEF IInv, LeasesInv, ConcurrencyKept

(* Every variable keeps its type.                                          *)
THEOREM TypeCorrect == Spec => []TypeOK
<1>1. IInv => TypeOK
  BY DEF IInv
<1> QED
  BY <1>1, InitInv, NextInv, PTL DEF Spec

(* However calls, retries, repairs, deaths and failures of Redis interleave, a model is never    *)
(* used by more holders of a slot than it has slots, because no lease runs out under its holder. *)
THEOREM ConcurrencyAlwaysKept == Spec => []ConcurrencyKept
BY InitInv, NextInv, HoldersCounted, PTL DEF Spec
=============================================================================
