---------------------------- MODULE InterviewSession ----------------------------
(***************************************************************************)
(* The life of interviews under everything that acts on them at once:      *)
(* request handlers and background turns of any number of API replicas     *)
(* (apps/api live.service.ts, interviews.service.ts, realtime.ts) and the  *)
(* worker's sweeps (live-sweep.ts, evaluation).  They share one MongoDB    *)
(* document per interview, whose stateVersion they compare before they     *)
(* save, and one Redis lock per interview with a time to live.             *)
(*                                                                         *)
(* A handler is a task: it reads the session, decides, and saves.  What    *)
(* other code does between its read and its save is what this module is    *)
(* about, so the two are separate steps.  A task does not keep a copy of   *)
(* the stateVersion it read but only whether it is still current (fresh):  *)
(* every save that increments the version clears fresh everywhere else.    *)
(***************************************************************************)
EXTENDS SessionStore, FiniteSets

CONSTANTS
  Interview,     \* interviews
  Candidate,     \* candidates
  Owner,         \* Owner[i]: whose interview i is
  Payer,         \* Payer[i]: "FREE" drill, "SPONSORED" by a campaign, else "RESERVED"
  Credit,        \* Credit[c]: credits that candidate c has got
  Units,         \* sponsoredCredits.total of the one campaign
  Task,          \* handlers in progress at a time, over all replicas
  MaxQuestions,  \* bound: questions asked in an interview
  Retries,       \* attempts of holdClock and assessTurn to save (3 in the code)
  Operations,    \* the kinds of task that occur
  Faults         \* the faults that occur

Operation ==
  {"ANALYZE", "CANCEL", "SETUP", "START", "END", "JOIN", "GONE", "ANSWER",
   "ADVANCE"}

(* CRASH: a replica dies.  SLOW: a handler outlives the lock's time to live. *)
Fault == {"CRASH", "SLOW"}

ASSUME InterviewAssumption ==
  /\ Owner \in [Interview -> Candidate]
  /\ Payer \in [Interview -> {"FREE", "SPONSORED", "RESERVED"}]
  /\ Credit \in [Candidate -> Nat]
  /\ Units \in Nat
  /\ MaxQuestions \in Nat
  /\ Retries \in Nat \ {0}
  /\ Operations \subseteq Operation
  /\ Faults \subseteq Fault
  /\ "NONE" \notin Interview
  /\ Task \cap {"FREE", "DEAD"} = {}

VARIABLES
  session,   \* session[i]: the persisted interview
  turn,      \* turn[i]: its last question: none, asked, answered or assessed
  seq,       \* seq[i]: lastSeq, how many questions were asked
  overdue,   \* overdue[i]: the timestamp of its state is older than the limit
  checked,   \* checked[i]: device check and consents are complete
  joined,    \* joined[i]: a socket of the candidate is in the room
  kicked,    \* kicked[i]: a replica waits for the lock to advance it
  lock,      \* lock[i]: the task that holds the turn lock, "FREE" or "DEAD"
  task,      \* task[t]: a handler in progress
  sweep,     \* sweep[i]: how far the worker's sweep is with it
  used       \* sponsoredCredits.used of the campaign

vars == <<session, turn, seq, overdue, checked, joined, kicked, lock, task,
          sweep, used>>

Idle ==
  [op |-> "NONE", step |-> "IDLE", s |-> "NONE", fresh |-> FALSE, q |-> 0,
   tries |-> 0]

(* q is the lastSeq that the task read, tries its failed attempts to save. *)
At(op, step, s, fresh) ==
  [op |-> op, step |-> step, s |-> s, fresh |-> fresh, q |-> seq[s], tries |-> 0]

Step ==
  {"DECIDED", "ENQUEUE", "FINISH", "FETCH", "WAIT", "SAVE_ANSWER", "HOLD",
   "HOLDING", "READ", "NEXT_ROUND", "ASSESS", "COUNT", "COUNTING", "TIME_UP",
   "RELEASE", "PLAN_END", "PLAN_ASK"}

Idling == [step |-> "IDLE", fresh |-> FALSE]

Init ==
  /\ session = [i \in Interview |->
                  NewSession(IF "ANALYZE" \in Operations THEN "DRAFT" ELSE "READY",
                             "TEXT")]
  /\ turn = [i \in Interview |-> "NONE"]
  /\ seq = [i \in Interview |-> 0]
  /\ overdue = [i \in Interview |-> FALSE]
  /\ checked = [i \in Interview |-> FALSE]
  /\ joined = [i \in Interview |-> FALSE]
  /\ kicked = [i \in Interview |-> FALSE]
  /\ lock = [i \in Interview |-> "FREE"]
  /\ task = [t \in Task |-> Idle]
  /\ sweep = [i \in Interview |-> Idling]
  /\ used = 0

-------------------------------------------------------------------------------
(* Saving.                                                                 *)

(* The timestamp that a sweep looks at (lastSeenAt, disconnectedAt,        *)
(* pausedAt, updatedAt) is written anew with the state, and with every     *)
(* save of a COMPLETING session.                                           *)
Write(i, new) ==
  /\ session' = [session EXCEPT ![i] = new]
  /\ overdue' = [overdue EXCEPT ![i] = /\ @
                                       /\ new.state = session[i].state
                                       /\ new.state # "COMPLETING"]

Outdated(u, i) ==
  IF task[u].s = i THEN [task[u] EXCEPT !.fresh = FALSE] ELSE task[u]

(* Task t saves interview i, increments its version and goes on as next.   *)
SaveTask(t, i, new, next) ==
  /\ Write(i, new)
  /\ task' = [u \in Task |-> IF u = t THEN next ELSE Outdated(u, i)]
  /\ sweep' = [sweep EXCEPT ![i].fresh = FALSE]

(* The worker saves interview i.                                           *)
SaveWorker(i, new, next) ==
  /\ Write(i, new)
  /\ task' = [u \in Task |-> Outdated(u, i)]
  /\ sweep' = [sweep EXCEPT ![i] = next]

(* Task t goes on without saving the session.                              *)
Goto(t, next) ==
  /\ task' = [task EXCEPT ![t] = next]
  /\ UNCHANGED <<session, overdue, sweep>>

Doing(t, op, step) == task[t].op = op /\ task[t].step = step

(* The same task at another step, with the version just read or written.   *)
Then(t, step) ==
  [task[t] EXCEPT !.step = step, !.fresh = TRUE, !.q = seq[task[t].s], !.tries = 0]

(* Mutant: the save does not look at the version.                          *)
Current_Always(t) == TRUE

(* The filter of every save: the stateVersion is still the one t read.     *)
Current(t) == task[t].fresh

(* The outcome of event for the version that t read: none on a conflict.   *)
Applied(t, event) ==
  IF Current(t) THEN applySessionEvent(session[task[t].s], event, "RESERVED")
  ELSE {}

IsFree(t, op) == task[t] = Idle /\ op \in Operations

Unlocked(t, i) == [lock EXCEPT ![i] = IF @ = t THEN "FREE" ELSE @]

Kick(i) == kicked' = [kicked EXCEPT ![i] = TRUE]

-------------------------------------------------------------------------------
(* Before the interview (interviews.service.ts, analysis.ts).              *)

CANCELLABLE == {"DRAFT", "READY", "READY_TO_START", "FAILED"}

ANALYZABLE == {"DRAFT", "FAILED", "READY"}

RequestBegins(t, i, op) ==
  /\ IsFree(t, op)
  /\ Goto(t, At(op, "DECIDED", i, TRUE))
  /\ UNCHANGED <<turn, seq, checked, joined, kicked, lock, used>>

AnalyzeBegins(t, i) ==
  session[i].state \in ANALYZABLE /\ RequestBegins(t, i, "ANALYZE")

CancelBegins(t, i) ==
  session[i].state \in CANCELLABLE /\ RequestBegins(t, i, "CANCEL")

SetupBegins(t, i) ==
  session[i].state = "READY" /\ RequestBegins(t, i, "SETUP")

(* A task that lost the race against another save ends here.               *)
GivesUp(t) ==
  /\ task[t].step = "DECIDED" /\ ~Current(t)
  /\ task[t].op \in {"ANALYZE", "CANCEL", "SETUP", "START"}
  /\ Goto(t, Idle)
  /\ UNCHANGED <<turn, seq, checked, joined, kicked, lock, used>>

Analyze(t) ==
  LET i == task[t].s
  IN /\ Doing(t, "ANALYZE", "DECIDED") /\ Current(t)
     /\ \E new \in transitionSession(session[i], session[i].state, "ROLE_ANALYSIS") :
          SaveTask(t, i, new, Then(t, "ENQUEUE"))
     /\ UNCHANGED <<turn, seq, checked, joined, kicked, lock, used>>

(* The job is enqueued; if that fails the analysis has failed.             *)
AnalyzeEnqueues(t) ==
  LET i == task[t].s
  IN /\ Doing(t, "ANALYZE", "ENQUEUE")
     /\ \/ Goto(t, Idle)
        \/ /\ Current(t)
           /\ \E new \in transitionSession(session[i], "ROLE_ANALYSIS", "FAILED") :
                SaveTask(t, i, new, Idle)
     /\ UNCHANGED <<turn, seq, checked, joined, kicked, lock, used>>

(* The worker's analysis ends, with a blueprint or without.                *)
AnalysisEnds(i) ==
  /\ \E to \in {"READY", "FAILED"} :
       \E new \in transitionSession(session[i], "ROLE_ANALYSIS", to) :
         SaveWorker(i, new, [sweep[i] EXCEPT !.fresh = FALSE])
  /\ UNCHANGED <<turn, seq, checked, joined, kicked, lock, used>>

Cancel(t) ==
  LET i == task[t].s
  IN /\ Doing(t, "CANCEL", "DECIDED") /\ Current(t)
     /\ \E new \in transitionSession(session[i], session[i].state, "CANCELLED") :
          SaveTask(t, i, new, Idle)
     /\ UNCHANGED <<turn, seq, checked, joined, kicked, lock, used>>

(* Choosing the mode compares the version but does not increment it.       *)
updateSetup(t) ==
  LET i == task[t].s
  IN /\ Doing(t, "SETUP", "DECIDED") /\ Current(t)
     /\ \E mode \in Mode : session' = [session EXCEPT ![i].mode = mode]
     /\ task' = [task EXCEPT ![t] = Idle]
     /\ UNCHANGED <<turn, seq, overdue, checked, joined, kicked, lock, sweep, used>>

(* The candidate passes the device check and answers the consents.         *)
GetReady(i) ==
  /\ session[i].state = "READY" /\ session[i].mode # "TEXT"
  /\ checked' = [checked EXCEPT ![i] = TRUE]
  /\ UNCHANGED <<session, turn, seq, overdue, joined, kicked, lock, task, sweep, used>>

-------------------------------------------------------------------------------
(* Starting.                                                               *)

STARTABLE == {"READY", "DEVICE_CHECK", "CONSENT_REQUIRED", "READY_TO_START"}

(* The gate: the device check and the consents that the mode asks for.     *)
StartBegins(t, i) ==
  /\ session[i].state \in STARTABLE
  /\ session[i].mode = "TEXT" \/ checked[i]
  /\ RequestBegins(t, i, "START")

(* One step of the walk through the machine up to READY_TO_START.          *)
preStartStep(s) ==
  CASE s.state = "READY"            -> applySessionEvent(s, "PREPARE", "FREE")
    [] s.state = "DEVICE_CHECK"     -> applySessionEvent(s, "DEVICE_CHECK_PASSED", "FREE")
    [] s.state = "CONSENT_REQUIRED" -> applySessionEvent(s, "CONSENT_ACCEPTED", "FREE")
    [] OTHER                        -> {s}

walked(s) ==
  UNION {UNION {preStartStep(b) : b \in preStartStep(a)} : a \in preStartStep(s)}

(* What the ledger has left for candidate c.                               *)
balance(c) ==
  Credit[c] - Cardinality({i \in Interview :
                  Owner[i] = c /\ session[i].credit \in {"RESERVED", "CONSUMED"}})

(* The partial unique index on {userId} over the sessions that are live.   *)
indexAllows(i) ==
  \A j \in Interview \ {i} :
    Owner[j] = Owner[i] => session[j].state \notin IN_PROGRESS_STATES

(* Mutant: the campaign pays whether or not its budget lasts.              *)
payerOf_NoLimit(i) ==
  IF Payer[i] = "SPONSORED" THEN {"SPONSORED"}
  ELSE {p \in {Payer[i]} : p = "FREE" \/ balance(Owner[i]) > 0}

(* Who pays if interview i starts now: nobody if the credits do not last.  *)
payerOf(i) ==
  IF Payer[i] = "SPONSORED" /\ used < Units THEN {"SPONSORED"}
  ELSE {p \in {IF Payer[i] = "SPONSORED" THEN "RESERVED" ELSE Payer[i]} :
          p = "FREE" \/ balance(Owner[i]) > 0}

(* One transaction: the walk, the campaign's unit, the start.              *)
Start(t) ==
  LET i == task[t].s
  IN /\ Doing(t, "START", "DECIDED") /\ Current(t)
     /\ \/ \E payer \in payerOf(i), ready \in walked(session[i]) :
             /\ indexAllows(i)
             /\ \E new \in applySessionEvent(ready, "START", payer) :
                  SaveTask(t, i, new, Idle)
             /\ used' = IF payer = "SPONSORED" THEN used + 1 ELSE used
             /\ Kick(i)
        \/ /\ payerOf(i) = {} \/ ~indexAllows(i)
           /\ Goto(t, Idle)
           /\ UNCHANGED <<kicked, used>>
     /\ UNCHANGED <<turn, seq, checked, joined, lock>>

-------------------------------------------------------------------------------
(* Ending (end, finish).                                                   *)

(* The handler takes the turn lock, then reads the session.                *)
EndBegins(t, i) ==
  /\ IsFree(t, "END") /\ lock[i] = "FREE"
  /\ session[i].state \in IN_PROGRESS_STATES
  /\ lock' = [lock EXCEPT ![i] = t]
  /\ Goto(t, At("END", IF session[i].state = "COMPLETING" THEN "FINISH" ELSE "DECIDED",
                i, TRUE))
  /\ UNCHANGED <<turn, seq, checked, joined, kicked, used>>

EndRequested(t) ==
  LET i == task[t].s
      ended == Applied(t, "END_REQUESTED")
  IN /\ Doing(t, "END", "DECIDED")
     /\ \/ /\ \E new \in ended : SaveTask(t, i, new, Then(t, "FINISH"))
           /\ UNCHANGED lock
        \/ /\ ended = {}
           /\ Goto(t, Idle)
           /\ lock' = Unlocked(t, i)
     /\ UNCHANGED <<turn, seq, checked, joined, kicked, used>>

(* What a save of t for a refused or conflicting event amounts to.         *)
SaveOrSkip(t, event, done, skipped) ==
  \/ \E new \in Applied(t, event) : SaveTask(t, task[t].s, new, done)
  \/ Applied(t, event) = {} /\ Goto(t, skipped)

(* The campaign's counter once event is applied to the version just read.  *)
Returned(i, event, fresh) ==
  IF fresh /\ returnsSponsorship(session[i], event) /\ used > 0 THEN used - 1 ELSE used

(* finish: FINALIZE settles the credit and hands over to the evaluation.   *)
Finish(t) ==
  /\ task[t].step = "FINISH"
  /\ SaveOrSkip(t, "FINALIZE", Idle, Idle)
  /\ lock' = Unlocked(t, task[t].s)
  /\ used' = Returned(task[t].s, "FINALIZE", Current(t))
  /\ UNCHANGED <<turn, seq, checked, joined, kicked>>

EvaluationCompleted(i) ==
  /\ \E new \in applySessionEvent(session[i], "EVALUATION_COMPLETED", "FREE") :
       SaveWorker(i, new, [sweep[i] EXCEPT !.fresh = FALSE])
  /\ UNCHANGED <<turn, seq, checked, joined, kicked, lock, used>>

-------------------------------------------------------------------------------
(* Losing and regaining the candidate (realtime.ts, join, disconnected).   *)

(* The socket enters the room, then the session is read without the lock.  *)
JoinBegins(t, i) ==
  LET state == session[i].state
  IN /\ IsFree(t, "JOIN") /\ ~joined[i]
     /\ state \in IN_PROGRESS_STATES
     /\ joined' = [joined EXCEPT ![i] = TRUE]
     /\ IF state \in {"RECONNECTING", "PAUSED"}
        THEN /\ Goto(t, At("JOIN", "DECIDED", i, TRUE))
             /\ UNCHANGED kicked
        ELSE /\ overdue' = [overdue EXCEPT ![i] = @ /\ state = "COMPLETING"]
             /\ Kick(i)
             /\ UNCHANGED <<session, task, sweep>>
     /\ UNCHANGED <<turn, seq, checked, lock, used>>

ResumeEvent(i) == IF session[i].state = "PAUSED" THEN "RESUME" ELSE "RECONNECTED"

(* Under the lock, with the session read before it.                        *)
Join(t) ==
  LET i == task[t].s
      resumed == Applied(t, ResumeEvent(i))
  IN /\ Doing(t, "JOIN", "DECIDED") /\ lock[i] = "FREE"
     /\ SaveOrSkip(t, ResumeEvent(i), Idle, Idle)
     /\ kicked' = [kicked EXCEPT ![i] = @ \/ resumed # {}]
     /\ UNCHANGED <<turn, seq, checked, joined, lock, used>>

(* The lock stays busy: the join fails and the socket leaves the room.     *)
JoinBusy(t) ==
  LET i == task[t].s
  IN /\ Doing(t, "JOIN", "DECIDED") /\ lock[i] # "FREE"
     /\ joined' = [joined EXCEPT ![i] = FALSE]
     /\ Goto(t, Idle)
     /\ UNCHANGED <<turn, seq, checked, kicked, lock, used>>

(* The socket closes.  If its join had been answered, a handler runs; if   *)
(* the replica dies, or the join was still under way, none does.           *)
SocketCloses(i) ==
  /\ joined[i]
  /\ joined' = [joined EXCEPT ![i] = FALSE]
  /\ \/ \E t \in Task : IsFree(t, "GONE") /\ Goto(t, At("GONE", "FETCH", i, FALSE))
     \/ /\ \/ "CRASH" \in Faults
           \/ \E t \in Task : task[t].op = "JOIN" /\ task[t].s = i
        /\ UNCHANGED <<session, overdue, task, sweep>>
  /\ UNCHANGED <<turn, seq, checked, kicked, lock, used>>

(* fetchSockets: is the candidate in the room through another socket?      *)
GoneFetches(t) ==
  /\ Doing(t, "GONE", "FETCH")
  /\ Goto(t, IF joined[task[t].s] THEN Idle ELSE [task[t] EXCEPT !.step = "WAIT"])
  /\ UNCHANGED <<turn, seq, checked, joined, kicked, lock, used>>

(* The lock and the read; a lock that stays busy ends the handler.         *)
GoneReads(t) ==
  LET i == task[t].s
  IN /\ Doing(t, "GONE", "WAIT")
     /\ IF lock[i] = "FREE" /\ session[i].state \in LIVE_STATES
        THEN Goto(t, Then(t, "DECIDED")) /\ lock' = [lock EXCEPT ![i] = t]
        ELSE Goto(t, Idle) /\ UNCHANGED lock
     /\ UNCHANGED <<turn, seq, checked, joined, kicked, used>>

Disconnected(t) ==
  /\ Doing(t, "GONE", "DECIDED")
  /\ SaveOrSkip(t, "DISCONNECTED", Idle, Idle)
  /\ lock' = Unlocked(t, task[t].s)
  /\ UNCHANGED <<turn, seq, checked, joined, kicked, used>>

(* Mutant: a heartbeat does not look for an answer that was left behind.   *)
toAdvance_AtTheEnd(s) == isTimeUp(s)

(* The time is up, or an answer waits for its assessment and the next      *)
(* question.                                                               *)
toAdvance(s) == isTimeUp(s) \/ s.clock.held

(* A heartbeat keeps the interview live, and advances it unless the lock   *)
(* is busy.                                                                *)
Heartbeat(i) ==
  /\ joined[i] /\ session[i].state \in LIVE_STATES
  /\ overdue' = [overdue EXCEPT ![i] = FALSE]
  /\ kicked' = [kicked EXCEPT ![i] = @ \/ (lock[i] = "FREE" /\ toAdvance(session[i]))]
  /\ UNCHANGED <<session, turn, seq, checked, joined, lock, task, sweep, used>>

-------------------------------------------------------------------------------
(* Answering and advancing (answer, holdClock, assessTurn, advance).       *)

ANSWERABLE_STATES == {"ACTIVE", "RECONNECTING"}

(* An answer to the current question, by socket or over HTTP.              *)
AnswerBegins(t, i) ==
  /\ IsFree(t, "ANSWER") /\ lock[i] = "FREE"
  /\ session[i].state \in ANSWERABLE_STATES /\ turn[i] = "ASKED"
  /\ lock' = [lock EXCEPT ![i] = t]
  /\ Goto(t, At("ANSWER", IF session[i].state = "ACTIVE" THEN "SAVE_ANSWER" ELSE "DECIDED",
                i, TRUE))
  /\ UNCHANGED <<turn, seq, checked, joined, kicked, used>>

(* The owner is answering, so they are back: resume as a rejoin would.     *)
AnswerResumes(t) ==
  LET i == task[t].s
      resumed == Applied(t, "RECONNECTED")
  IN /\ Doing(t, "ANSWER", "DECIDED")
     /\ \/ \E new \in resumed :
             IF new.state = "ACTIVE"
             THEN SaveTask(t, i, new, Then(t, "SAVE_ANSWER")) /\ UNCHANGED lock
             ELSE SaveTask(t, i, new, Idle) /\ lock' = Unlocked(t, i)
        \/ resumed = {} /\ Goto(t, Idle) /\ lock' = Unlocked(t, i)
     /\ UNCHANGED <<turn, seq, checked, joined, kicked, used>>

(* Saved on the turn if it has no answer yet; the session's version is not *)
(* looked at.                                                              *)
AnswerSaves(t) ==
  LET i == task[t].s
  IN /\ Doing(t, "ANSWER", "SAVE_ANSWER")
     /\ IF task[t].q = seq[i] /\ turn[i] = "ASKED"
        THEN /\ turn' = [turn EXCEPT ![i] = "ANSWERED"]
             /\ overdue' = [overdue EXCEPT ![i] =
                              @ /\ session[i].state \in {"RECONNECTING", "PAUSED"}]
             /\ task' = [task EXCEPT ![t].step = "HOLD"]
             /\ UNCHANGED <<session, sweep, lock>>
        ELSE Goto(t, Idle) /\ lock' = Unlocked(t, i) /\ UNCHANGED turn
     /\ UNCHANGED <<seq, checked, joined, kicked, used>>

(* A resend that finds its answer saved advances the interview all the same. *)
AnswerResent(i) ==
  /\ "ANSWER" \in Operations
  /\ turn[i] \in {"ANSWERED", "ASSESSED"} /\ lock[i] = "FREE" /\ ~kicked[i]
  /\ Kick(i)
  /\ UNCHANGED <<session, turn, seq, overdue, checked, joined, lock, task, sweep, used>>

(* What follows the hold: the answer is acknowledged and the interview     *)
(* kicked, or advance goes around again.                                   *)
AfterHold(t) == IF task[t].op = "ANSWER" THEN Idle ELSE Then(t, "READ")

HoldEnds(t) ==
  LET i == task[t].s
  IN IF task[t].op = "ANSWER" THEN Kick(i) /\ lock' = Unlocked(t, i)
     ELSE UNCHANGED <<kicked, lock>>

HoldReads(t) ==
  /\ task[t].step = "HOLD"
  /\ IF session[task[t].s].clock.held
     THEN Goto(t, AfterHold(t)) /\ HoldEnds(t)
     ELSE /\ Goto(t, [task[t] EXCEPT !.step = "HOLDING", !.fresh = TRUE])
          /\ UNCHANGED <<kicked, lock>>
  /\ UNCHANGED <<turn, seq, checked, joined, used>>

(* A failed save is tried again, Retries times in all.                     *)
TriesAgain(t, step) ==
  /\ task[t].tries + 1 < Retries
  /\ Goto(t, [task[t] EXCEPT !.step = step, !.tries = @ + 1])

HoldSaves(t) ==
  LET i == task[t].s
  IN /\ task[t].step = "HOLDING"
     /\ IF Current(t)
        THEN /\ SaveTask(t, i, [session[i] EXCEPT !.clock = holdClock(@)], AfterHold(t))
             /\ HoldEnds(t)
        ELSE \/ TriesAgain(t, "HOLD") /\ UNCHANGED <<kicked, lock>>
             \/ /\ task[t].tries + 1 = Retries
                /\ Goto(t, AfterHold(t)) /\ HoldEnds(t)
     /\ UNCHANGED <<turn, seq, checked, joined, used>>

(* advance takes the lock for an interview that was kicked.                *)
AdvanceBegins(t, i) ==
  /\ IsFree(t, "ADVANCE") /\ kicked[i] /\ lock[i] = "FREE"
  /\ lock' = [lock EXCEPT ![i] = t]
  /\ kicked' = [kicked EXCEPT ![i] = FALSE]
  /\ Goto(t, At("ADVANCE", "READ", i, TRUE))
  /\ UNCHANGED <<turn, seq, checked, joined, used>>

(* The lock stays busy for too long, or the replica that waits dies.       *)
KickLost(i) ==
  /\ kicked[i]
  /\ lock[i] # "FREE" \/ "CRASH" \in Faults
  /\ kicked' = [kicked EXCEPT ![i] = FALSE]
  /\ UNCHANGED <<session, turn, seq, overdue, checked, joined, lock, task, sweep, used>>

(* What advance decides to do.  Whether a round is over or another         *)
(* question is asked is nextStep's choice, made on data left out here.     *)
moves(i) ==
  LET s == session[i]
  IN CASE s.state = "COMPLETING"       -> {"FINISH"}
       [] s.state = "ROUND_TRANSITION" -> {"NEXT_ROUND"}
       [] s.state \notin {"ACTIVE", "COMPLETING", "ROUND_TRANSITION"} -> {"STOP"}
       [] OTHER ->
            IF turn[i] = "ANSWERED" THEN {"ASSESS"}
            ELSE IF isTimeUp(s) THEN {"TIME_UP"}
            ELSE IF turn[i] = "ASKED"
                 THEN {IF s.clock.held THEN "RELEASE" ELSE "STOP"}
            ELSE {"PLAN_END"}
                   \cup (IF seq[i] = MaxQuestions THEN {}
                         ELSE {IF s.clock.held THEN "PLAN_ASK" ELSE "HOLD"})

AdvanceReads(t) ==
  LET i == task[t].s
  IN /\ Doing(t, "ADVANCE", "READ")
     /\ \E move \in moves(i) :
          IF move = "STOP" THEN Goto(t, Idle) /\ lock' = Unlocked(t, i)
          ELSE Goto(t, Then(t, move)) /\ UNCHANGED lock
     /\ UNCHANGED <<turn, seq, checked, joined, kicked, used>>

(* One engine event, then advance goes around again, whatever came of it.  *)
AdvanceFires(t, step, event) ==
  /\ Doing(t, "ADVANCE", step)
  /\ SaveOrSkip(t, event, Then(t, "READ"), Then(t, "READ"))
  /\ UNCHANGED <<turn, seq, checked, joined, kicked, lock, used>>

NextRound(t) == AdvanceFires(t, "NEXT_ROUND", "NEXT_ROUND")

TimeUp(t) == AdvanceFires(t, "TIME_UP", "TIME_UP")

(* ROUND_ENDED is applied to a session whose planner ended the round.      *)
RoundEnded(t) ==
  LET i == task[t].s
      ended(outcome) ==
        applySessionEvent([session[i] EXCEPT !.planner = endCurrentRound(@, outcome)],
                          "ROUND_ENDED", "FREE")
  IN /\ Doing(t, "ADVANCE", "PLAN_END")
     /\ IF Current(t)
        THEN \E outcome \in {"COMPLETED", "TIMED_OUT"} : \E new \in ended(outcome) :
               SaveTask(t, i, new, Then(t, "READ"))
        ELSE Goto(t, Then(t, "READ"))
     /\ UNCHANGED <<turn, seq, checked, joined, kicked, lock, used>>

(* Mutant: the verdict is not saved on the turn.                           *)
assessed_NotSaved(t, i) == turn[i]

(* The last turn after the verdict of t is saved on the turn that it read. *)
assessed(t, i) == IF task[t].q = seq[i] THEN "ASSESSED" ELSE turn[i]

(* The verdict is saved on the turn, before the plan counts the answer.    *)
Assess(t) ==
  LET i == task[t].s
  IN /\ Doing(t, "ADVANCE", "ASSESS")
     /\ turn' = [turn EXCEPT ![i] = assessed(t, i)]
     /\ Goto(t, [task[t] EXCEPT !.step = "COUNT"])
     /\ UNCHANGED <<seq, checked, joined, kicked, lock, used>>

CountReads(t) ==
  LET i == task[t].s
      current == task[t].q = seq[i] /\ session[i].planner.thread
  IN /\ Doing(t, "ADVANCE", "COUNT")
     /\ Goto(t, IF current THEN [task[t] EXCEPT !.step = "COUNTING", !.fresh = TRUE]
                ELSE Then(t, "READ"))
     /\ UNCHANGED <<turn, seq, checked, joined, kicked, lock, used>>

(* recordAssessment: an answer counts unless it is no answer at all.       *)
recordAssessment(p, counts) ==
  IF counts /\ p.answeredCount < MaxAnswers
  THEN [p EXCEPT !.answeredCount = @ + 1] ELSE p

CountSaves(t) ==
  LET i == task[t].s
  IN /\ Doing(t, "ADVANCE", "COUNTING")
     /\ IF Current(t)
        THEN \E counts \in BOOLEAN :
               SaveTask(t, i, [session[i] EXCEPT !.planner = recordAssessment(@, counts)],
                        Then(t, "READ"))
        ELSE \/ TriesAgain(t, "COUNT")
             \/ /\ task[t].tries + 1 = Retries
                /\ Goto(t, Then(t, "READ"))
     /\ UNCHANGED <<turn, seq, checked, joined, kicked, lock, used>>

(* A stray hold is released: the question on screen runs the clock again.  *)
StrayHoldReleased(t) ==
  LET i == task[t].s
  IN /\ Doing(t, "ADVANCE", "RELEASE")
     /\ IF Current(t)
        THEN SaveTask(t, i, [session[i] EXCEPT !.clock = releasedSessionClock(session[i])], Idle)
        ELSE Goto(t, Idle)
     /\ lock' = Unlocked(t, i)
     /\ UNCHANGED <<turn, seq, checked, joined, kicked, used>>

(* The question, the plan and the released clock are saved in one step.    *)
Asks(t) ==
  LET i == task[t].s
  IN /\ Doing(t, "ADVANCE", "PLAN_ASK")
     /\ IF Current(t)
        THEN /\ SaveTask(t, i, [session[i] EXCEPT !.planner.thread = TRUE,
                                   !.clock = releasedSessionClock(session[i])], Idle)
             /\ turn' = [turn EXCEPT ![i] = "ASKED"]
             /\ seq' = [seq EXCEPT ![i] = @ + 1]
             /\ lock' = Unlocked(t, i)
        ELSE /\ Goto(t, Then(t, "READ"))
             /\ UNCHANGED <<turn, seq, lock>>
     /\ UNCHANGED <<checked, joined, kicked, used>>

-------------------------------------------------------------------------------
(* Time, and the worker's sweep (live-sweep.ts).                           *)

(* One unit of the interview's time budget passes.                         *)
Tick(i) ==
  /\ session[i].clock.running /\ ~isTimeUp(session[i])
  /\ session' = [session EXCEPT ![i].clock = Ticked(@)]
  /\ UNCHANGED <<turn, seq, overdue, checked, joined, kicked, lock, task, sweep, used>>

(* The limit of the state it is in passes: 45 s without a heartbeat, 10    *)
(* minutes of RECONNECTING, 24 hours of PAUSED, 2 minutes of COMPLETING.   *)
Elapse(i) ==
  /\ session[i].state \in IN_PROGRESS_STATES /\ ~overdue[i]
  /\ overdue' = [overdue EXCEPT ![i] = TRUE]
  /\ UNCHANGED <<session, turn, seq, checked, joined, kicked, lock, task, sweep, used>>

(* Mutants: a state is missing from the sweep.                             *)
toSweep_NotCompleting(i) == overdue[i] /\ session[i].state # "COMPLETING"

toSweep_NotPaused(i) == overdue[i] /\ session[i].state # "PAUSED"

(* The four queries of the sweep, each for a state and its limit.          *)
toSweep(i) == overdue[i] /\ session[i].state \in IN_PROGRESS_STATES

SweepFinds(i) ==
  /\ sweep[i] = Idling /\ toSweep(i)
  /\ sweep' = [sweep EXCEPT ![i] = [step |-> "FOUND", fresh |-> TRUE]]
  /\ UNCHANGED <<session, turn, seq, overdue, checked, joined, kicked, lock, task, used>>

SweepEvent(state) ==
  CASE state \in LIVE_STATES    -> "DISCONNECTED"
    [] state = "RECONNECTING"   -> "GRACE_EXPIRED"
    [] state = "PAUSED"         -> "RESUME_WINDOW_EXPIRED"
    [] OTHER                    -> "FINALIZE"

(* Mutant: the sweep does not pass the version it found.                   *)
Swept_AnyVersion(i) ==
  applySessionEvent(session[i], SweepEvent(session[i].state), "FREE")

Swept(i) ==
  IF sweep[i].fresh
  THEN applySessionEvent(session[i], SweepEvent(session[i].state), "FREE") ELSE {}

SweepApplies(i) ==
  /\ sweep[i].step = "FOUND"
  /\ \/ \E new \in Swept(i) :
          SaveWorker(i, new,
            IF new.state = "EXPIRED" THEN [step |-> "PROCESS", fresh |-> FALSE] ELSE Idling)
     \/ /\ Swept(i) = {}
        /\ sweep' = [sweep EXCEPT ![i] = Idling]
        /\ UNCHANGED <<session, overdue, task>>
  /\ used' = Returned(i, SweepEvent(session[i].state), sweep[i].fresh)
  /\ UNCHANGED <<turn, seq, checked, joined, kicked, lock>>

(* A meaningful expired interview goes on to the evaluation.               *)
SweepProcesses(i) ==
  LET processed == applySessionEvent(session[i], "PROCESS", "FREE")
  IN /\ sweep[i].step = "PROCESS"
     /\ \/ \E new \in processed : SaveWorker(i, new, Idling)
        \/ /\ processed = {}
           /\ sweep' = [sweep EXCEPT ![i] = Idling]
           /\ UNCHANGED <<session, overdue, task>>
     /\ UNCHANGED <<turn, seq, checked, joined, kicked, lock, used>>

-------------------------------------------------------------------------------
(* Faults.                                                                 *)

ReplicaDies(t) ==
  /\ "CRASH" \in Faults /\ task[t] # Idle
  /\ Goto(t, Idle)
  /\ lock' = [lock EXCEPT ![task[t].s] = IF @ = t THEN "DEAD" ELSE @]
  /\ UNCHANGED <<turn, seq, checked, joined, kicked, used>>

WorkerDies(i) ==
  /\ "CRASH" \in Faults /\ sweep[i].step # "IDLE"
  /\ sweep' = [sweep EXCEPT ![i] = Idling]
  /\ UNCHANGED <<session, turn, seq, overdue, checked, joined, kicked, lock, task, used>>

(* The lock's time to live ends while its holder is dead, or slow.         *)
LockExpires(i) ==
  /\ lock[i] = "DEAD" \/ (lock[i] # "FREE" /\ "SLOW" \in Faults)
  /\ lock' = [lock EXCEPT ![i] = "FREE"]
  /\ UNCHANGED <<session, turn, seq, overdue, checked, joined, kicked, task, sweep, used>>

-------------------------------------------------------------------------------
Preparing(t) ==
  GivesUp(t) \/ Analyze(t) \/ AnalyzeEnqueues(t) \/ Cancel(t) \/ updateSetup(t)

Running(t) ==
  \/ Start(t) \/ EndRequested(t) \/ Finish(t)
  \/ Join(t) \/ JoinBusy(t) \/ GoneFetches(t) \/ GoneReads(t) \/ Disconnected(t)

Turning(t) ==
  \/ AnswerResumes(t) \/ AnswerSaves(t) \/ HoldReads(t) \/ HoldSaves(t)
  \/ AdvanceReads(t) \/ NextRound(t) \/ TimeUp(t) \/ RoundEnded(t) \/ Assess(t)
  \/ CountReads(t) \/ CountSaves(t) \/ StrayHoldReleased(t) \/ Asks(t)

Begins(t, i) ==
  \/ AnalyzeBegins(t, i) \/ CancelBegins(t, i) \/ SetupBegins(t, i)
  \/ StartBegins(t, i) \/ EndBegins(t, i) \/ JoinBegins(t, i)
  \/ AnswerBegins(t, i) \/ AdvanceBegins(t, i)

Happens(i) ==
  \/ AnalysisEnds(i) \/ GetReady(i) \/ EvaluationCompleted(i) \/ SocketCloses(i)
  \/ Heartbeat(i) \/ AnswerResent(i) \/ KickLost(i) \/ Tick(i) \/ Elapse(i)
  \/ SweepFinds(i) \/ SweepApplies(i) \/ SweepProcesses(i)
  \/ WorkerDies(i) \/ LockExpires(i)

Next ==
  \/ \E t \in Task : Preparing(t) \/ Running(t) \/ Turning(t) \/ ReplicaDies(t)
  \/ \E t \in Task, i \in Interview : Begins(t, i)
  \/ \E i \in Interview : Happens(i)

Spec == Init /\ [][Next]_vars

(* The worker runs its sweep every few seconds, and time passes.           *)
Swept24x7 ==
  \A i \in Interview :
    /\ WF_vars(Elapse(i)) /\ WF_vars(SweepFinds(i))
    /\ WF_vars(SweepApplies(i)) /\ WF_vars(SweepProcesses(i))

FairSpec == Spec /\ Swept24x7

(* Handlers run to their end, sockets send heartbeats, locks expire.       *)
Served ==
  /\ \A t \in Task : WF_vars(Running(t)) /\ WF_vars(Turning(t))
  /\ \A i \in Interview :
       /\ WF_vars(\E t \in Task : AdvanceBegins(t, i))
       /\ WF_vars(Heartbeat(i)) /\ WF_vars(Tick(i)) /\ WF_vars(LockExpires(i))

ServedSpec == FairSpec /\ Served

-------------------------------------------------------------------------------
(* Properties.                                                             *)

(* Every variable has its type; an idle task is exactly Idle.              *)
TypeOK ==
  /\ session \in [Interview -> Session]
  /\ turn \in [Interview -> {"NONE", "ASKED", "ANSWERED", "ASSESSED"}]
  /\ seq \in [Interview -> 0..MaxQuestions]
  /\ overdue \in [Interview -> BOOLEAN]
  /\ checked \in [Interview -> BOOLEAN]
  /\ joined \in [Interview -> BOOLEAN]
  /\ kicked \in [Interview -> BOOLEAN]
  /\ lock \in [Interview -> Task \cup {"FREE", "DEAD"}]
  /\ task \in [Task -> {Idle} \cup
       [op : Operation, step : Step, s : Interview, fresh : BOOLEAN,
        q : 0..MaxQuestions, tries : 0..(Retries - 1)]]
  /\ sweep \in [Interview -> [step : {"IDLE", "FOUND", "PROCESS"}, fresh : BOOLEAN]]
  /\ used \in 0..Units

(* A credit is held exactly while the interview it pays for is in          *)
(* progress: it is never left RESERVED behind an interview that is over or *)
(* never began (the settlement rides in the transaction of the last step). *)
HeldOnlyInProgress ==
  \A i \in Interview :
    LET s == session[i]
    IN /\ s.credit = "RESERVED" => s.state \in IN_PROGRESS_STATES
       /\ s.state \in IN_PROGRESS_STATES => s.credit \in {"RESERVED", "FREE", "SPONSORED"}

(* "The clock runs only in ACTIVE and ROUND_TRANSITION", and there unless  *)
(* it is held: whatever held, released, paused and resumed it, and in      *)
(* whatever order (live-interview.md, "The clock").                        *)
ClockRunsWhileLive ==
  \A i \in Interview :
    LET s == session[i]
    IN s.clock.running <=> s.state \in LIVE_STATES /\ ~s.clock.held

(* The plan and the state agree: an ACTIVE interview has a round to plan   *)
(* questions for (nextStep throws otherwise), a ROUND_TRANSITION has a     *)
(* next one to go to, an interrupted interview knows where to resume, and  *)
(* one that is completing has no round left open or waiting.               *)
PlanFollowsState ==
  \A i \in Interview :
    LET s == session[i]
        p == s.planner
        open(state) ==
          IF state = "ACTIVE" THEN p.roundIdx > 0 /\ p.rounds[p.roundIdx] = "ACTIVE"
          ELSE hasNextRound(p) /\ \A r \in 1..Rounds : p.rounds[r] # "ACTIVE"
    IN /\ s.state \in LIVE_STATES => s.resumeTo = "NONE" /\ open(s.state)
       /\ s.state \in {"RECONNECTING", "PAUSED"} => s.resumeTo # "NONE" /\ open(s.resumeTo)
       /\ s.state = "COMPLETING" =>
            \A r \in 1..Rounds : p.rounds[r] \notin {"PENDING", "ACTIVE"}

(* Nobody is put to sleep or expired ahead of time: an interview becomes   *)
(* PAUSED or EXPIRED only when the grace period or the resume window of    *)
(* this very interruption is over, however the candidate came and went     *)
(* between the sweep's find and its save.                                  *)
NeverTooEarly ==
  [][\A i \in Interview :
       session'[i].state # session[i].state /\ session'[i].state \in {"PAUSED", "EXPIRED"}
         => overdue[i]]_vars

(* An interview is held in the mode it was started in: a setup request     *)
(* that was decided before the start changes nothing after it.             *)
ModeFixedAtStart ==
  [][\A i \in Interview :
       session[i].credit # "NONE" => session'[i].mode = session[i].mode]_vars

(* A campaign pays for as many interviews as it counts, and never for more *)
(* than its budget; no candidate spends more credits than they got.        *)
PaidOnce ==
  /\ used = Cardinality({i \in Interview : session[i].credit = "SPONSORED"})
  /\ used <= Units
  /\ \A c \in Candidate : balance(c) >= 0

(* No answer counts twice towards a meaningful interview.                  *)
CountedOnce ==
  \A i \in Interview :
    session[i].planner.answeredCount <= seq[i] - (IF turn[i] = "ASKED" THEN 1 ELSE 0)

(* A question is asked only when the one before has been answered and      *)
(* assessed, and only of a candidate whose interview is active, even when  *)
(* a handler outlives its lock and two of them plan the next question.     *)
OneQuestionAtATime ==
  [][\A i \in Interview :
       seq'[i] # seq[i] => /\ turn[i] \in {"NONE", "ASSESSED"}
                           /\ session[i].state = "ACTIVE"]_vars

(* A clock that was held for the work on an answer runs again only with    *)
(* the next question: not by a rejoin or a resume, and not because the     *)
(* replica that held it died (live-interview.md, "The clock").             *)
HeldUntilAsked ==
  [][\A i \in Interview :
       session[i].clock.held /\ session'[i].clock.running => turn'[i] = "ASKED"]_vars

phaseOf(s) ==
  CASE s.state \in IN_PROGRESS_STATES       -> "RUNNING"
    [] s.state \in {"EXPIRED", "PROCESSING"} -> "OVER"
    [] s.state = "REPORT_READY"             -> "REPORTED"
    [] s.state = "CANCELLED"                -> "CANCELLED"
    [] OTHER                                -> "PREPARING"

holdOf(s) == IF s.credit \in {"RESERVED", "CONSUMED", "REFUNDED"} THEN s.credit ELSE "NONE"

Promise == INSTANCE InterviewPromise
  WITH phase <- [i \in Interview |-> phaseOf(session[i])],
       hold  <- [i \in Interview |-> holdOf(session[i])]

(* The lifecycle implements the promise of InterviewPromise.               *)
PromiseKept == Promise!PSpec

(* A process dies: a replica in a handler or waiting for the lock, or the  *)
(* worker in its sweep.                                                    *)
Death ==
  \/ \E t \in Task : ReplicaDies(t)
  \/ \E i \in Interview : WorkerDies(i) \/ (lock[i] = "FREE" /\ KickLost(i))

Surviving == <>[][~Death]_vars

(* Whatever becomes of the replica that was finishing it, an interview     *)
(* that is completing reaches the evaluation, once processes stop dying.   *)
CompletingFinishes ==
  Surviving => \A i \in Interview :
    session[i].state = "COMPLETING" ~> session[i].state = "PROCESSING"

Abandoned(i) == ~joined[i] /\ \A t \in Task : task[t].s # i

(* A candidate who leaves for good gets the credit settled: nobody's       *)
(* credit stays RESERVED because a browser was closed.                     *)
AbandonedIsSettled ==
  Surviving => \A i \in Interview :
    <>[]Abandoned(i) => (session[i].credit = "RESERVED" ~> session[i].credit # "RESERVED")

(* An answer that was saved is assessed, unless the interview is           *)
(* interrupted or ends first: a heartbeat or the end of the time picks up  *)
(* what a replica that died left behind.                                   *)
AnswerIsAssessed ==
  Surviving => \A i \in Interview :
    turn[i] = "ANSWERED" ~> turn[i] # "ANSWERED" \/ session[i].state # "ACTIVE"
===============================================================================
