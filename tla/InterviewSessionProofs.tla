------------------------ MODULE InterviewSessionProofs ------------------------
(***************************************************************************)
(* Theorems about InterviewSession, for any interviews, tasks, faults and  *)
(* bounds. The argument: sort the engine's rows into five kinds, by what   *)
(* they may do to the state, the credit and the clock (RowKinds); show of  *)
(* one session that an event keeps it sound, whichever row fires           *)
(* (EventKeepsSession); then every step of every handler either leaves the *)
(* sessions alone or replaces one of them by a sound one (Moved, Saved,    *)
(* SavedByWorker), so the interleaving of handlers cannot do harm to what  *)
(* a single session promises.                                              *)
(*   The second part is about what a save has to do with what it replaces  *)
(* (Outcome): the plan, the deadline, the payment and the promise. The     *)
(* third is about turns, which the lock protects and not the version: it   *)
(* holds while no handler outlives the lock.                               *)
(***************************************************************************)
EXTENDS InterviewSession, FiniteSetTheorems, TLAPS

(* The states of an interview that has not taken a credit.                 *)
NotStarted == PRE_START_STATES \cup {"ROLE_ANALYSIS", "CANCELLED", "FAILED"}

(* The effects that end a reservation.                                     *)
Settling == {"CONSUME_CREDIT", "REFUND_CREDIT"}

(* What the proofs need to know of a row of the table.                     *)
PreStartRow(r) ==
  /\ r.from \subseteq NotStarted
  /\ r.to \in NotStarted
  /\ r.effects \subseteq {"ENQUEUE_ANALYSIS"}

StartRow(r) ==
  /\ r.from = {"READY_TO_START"}
  /\ r.to = "ACTIVE"
  /\ r.effects = {"RESERVE_CREDIT", "START_CLOCK", "START_NEXT_ROUND"}

(* A row of an interview that is in progress, before and after.            *)
LiveRow(r, ctx) ==
  /\ r.from \subseteq IN_PROGRESS_STATES
  /\ r.to \in IN_PROGRESS_STATES
  /\ r.effects \cap ({"RESERVE_CREDIT", "START_CLOCK"} \cup Settling) = {}
  /\ "START_NEXT_ROUND" \in r.effects => ctx.hasNextRound
  /\ "REMEMBER_RESUME_TARGET" \in r.effects => r.from = LIVE_STATES
  /\ r.to \in LIVE_STATES <=>
       \/ r.from \subseteq LIVE_STATES /\ "PAUSE_CLOCK" \notin r.effects
       \/ "RESUME_CLOCK" \in r.effects
  /\ "PAUSE_CLOCK" \in r.effects => "RESUME_CLOCK" \notin r.effects
  /\ r.from \subseteq LIVE_STATES \/ r.from \cap LIVE_STATES = {}

EndRow(r, ctx) ==
  /\ r.from \subseteq {"PAUSED", "COMPLETING"}
  /\ r.to \in {"EXPIRED", "PROCESSING"}
  /\ r.effects \subseteq Settling \cup {"ENQUEUE_EVALUATION"}
  /\ r.effects \cap Settling # {} <=> ctx.creditReserved

AfterRow(r) ==
  /\ r.from \subseteq {"EXPIRED", "PROCESSING"}
  /\ r.to \in {"PROCESSING", "REPORT_READY"}
  /\ r.effects \subseteq {"ENQUEUE_EVALUATION"}

(* Every row of the table but FAIL is of one of the five kinds.            *)
LEMMA RowKinds ==
  ASSUME NEW ctx \in SessionContext, NEW r \in Rows(ctx), NEW state \in r.from, r.event # "FAIL"
  PROVE  \/ PreStartRow(r) \/ StartRow(r) \/ LiveRow(r, ctx)
         \/ EndRow(r, ctx) \/ AfterRow(r)
<1> USE DEF Row, When, LIVE_STATES, IN_PROGRESS_STATES
<1>1. CASE r \in PreStartRows(ctx)
  <2>1. PreStartRow(r) \/ StartRow(r)
    BY <1>1 DEF PreStartRows, PreStartRow, StartRow, NotStarted, PRE_START_STATES,
         afterDeviceCheck
  <2> QED
    BY <2>1
<1>2. CASE r \in LiveRows(ctx)
  <2>1. LiveRow(r, ctx)
    BY <1>2 DEF LiveRows, LiveRow, Settling, SessionContext, ResumeTarget
  <2> QED
    BY <2>1
<1>3. CASE r \in EndRows(ctx)
  <2>1. LiveRow(r, ctx) \/ EndRow(r, ctx) \/ AfterRow(r)
    BY <1>3 DEF EndRows, EndRow, AfterRow, LiveRow, Settling, settle
  <2> QED
    BY <2>1
<1>4. r \notin FailRows(ctx)
  BY DEF FailRows
<1> QED
  BY <1>1, <1>2, <1>3, <1>4 DEF Rows

-------------------------------------------------------------------------------

(* Ending the current round keeps the planner's type and its round.        *)
LEMMA EndRoundTyped ==
  ASSUME NEW p \in Planner, NEW outcome \in RoundState
  PROVE  /\ endCurrentRound(p, outcome) \in Planner
         /\ endCurrentRound(p, outcome).roundIdx = p.roundIdx
BY SessionAssumption DEF endCurrentRound, Planner, RoundState

(* The next round may be started whenever the plan has one.                *)
LEMMA StartRoundTyped ==
  ASSUME NEW p \in Planner, hasNextRound(p)
  PROVE  startNextRound(p) \in Planner
<1>1. endCurrentRound(p, "COMPLETED") \in Planner
  BY EndRoundTyped DEF RoundState
<1>2. p.roundIdx + 1 \in 0..Rounds
  BY SessionAssumption DEF hasNextRound, Planner
<1> QED
  BY <1>1, <1>2 DEF startNextRound, Planner, RoundState

(* Skipping the remaining rounds keeps the planner's type.                 *)
LEMMA SkipRoundsTyped ==
  ASSUME NEW p \in Planner
  PROVE  skipRemainingRounds(p) \in Planner
BY DEF skipRemainingRounds, Planner, RoundState

(* Every operation on the clock keeps its type.                            *)
LEMMA ClockTyped ==
  ASSUME NEW c \in Clock
  PROVE  /\ startClock \in Clock /\ pauseClock(c) \in Clock
         /\ resumeClock(c) \in Clock /\ holdClock(c) \in Clock
         /\ \A b \in BOOLEAN : releaseClock(c, b) \in Clock
<1>1. startClock \in Clock
  <2>1. 0 \in 0..Budget
    BY SessionAssumption
  <2> QED
    BY <2>1 DEF startClock, Clock
<1>2. ASSUME NEW b \in BOOLEAN PROVE (c.running \/ b) \in BOOLEAN
  OBVIOUS
<1>3. ASSUME NEW b \in BOOLEAN, NEW h \in BOOLEAN
      PROVE  [c EXCEPT !.running = b, !.held = h] \in Clock
  BY DEF Clock
<1>6. pauseClock(c) \in Clock /\ holdClock(c) \in Clock
  BY DEF pauseClock, holdClock, Clock
<1>4. resumeClock(c) \in Clock
  <2>1. resumeClock(c) = [c EXCEPT !.running = c.running \/ ~c.held, !.held = c.held]
    <3> DEFINE b == c.running \/ ~c.held
    <3>1. resumeClock(c) = [c EXCEPT !.running = b]
      BY DEF resumeClock
    <3> HIDE DEF b
    <3>2. [c EXCEPT !.running = b] = [c EXCEPT !.running = b, !.held = c.held]
      BY DEF Clock
    <3> QED
      BY <3>1, <3>2 DEF b
  <2>2. (c.running \/ ~c.held) \in BOOLEAN /\ c.held \in BOOLEAN
    BY DEF Clock
  <2> QED
    BY <1>3, <2>1, <2>2
<1>5. ASSUME NEW b \in BOOLEAN PROVE releaseClock(c, b) \in Clock
  <2>1. releaseClock(c, b) = [c EXCEPT !.running = c.running \/ b, !.held = FALSE]
    BY DEF releaseClock, Clock
  <2> QED
    BY <1>2, <1>3, <2>1
<1> QED
  BY <1>1, <1>4, <1>5, <1>6

(* What holds of each interview between any two steps.                     *)
StateInv(s) ==
  /\ s.credit = "RESERVED" => s.state \in IN_PROGRESS_STATES
  /\ s.state \in IN_PROGRESS_STATES => s.credit \in {"RESERVED", "FREE", "SPONSORED"}
  /\ s.state \in NotStarted => s.credit = "NONE" /\ s.planner.roundIdx = 0
  /\ s.clock.running <=> s.state \in LIVE_STATES /\ ~s.clock.held

SoundSession == {s \in Session : StateInv(s)}

(* The engine's context says of a session what the session says of itself. *)
LEMMA ContextTyped ==
  ASSUME NEW s \in Session
  PROVE  /\ sessionContext(s) \in SessionContext
         /\ sessionContext(s).hasNextRound <=> hasNextRound(s.planner)
         /\ sessionContext(s).creditReserved <=> s.credit = "RESERVED"
<1>1. /\ hasNextRound(s.planner) \in BOOLEAN
      /\ isMeaningfulUsage(s) \in BOOLEAN
  BY DEF isMeaningfulUsage, hasNextRound
<1>2. s.resumeTo \in ResumeTarget
  BY DEF Session
<1> QED
  BY <1>1, <1>2 DEF sessionContext, SessionContext

(* What may pay for an interview.                                          *)
Payers == {"FREE", "SPONSORED", "RESERVED"}

(* Whatever event the engine applies, a sound session stays sound: the     *)
(* heart of the argument, by the kind of the row that fires.               *)
LEMMA EventKeepsSession ==
  ASSUME NEW s \in SoundSession, NEW event, event # "FAIL", NEW payer \in Payers,
         NEW new \in applySessionEvent(s, event, payer)
  PROVE  /\ new \in SoundSession
         /\ new.mode = s.mode
<1> DEFINE ctx == sessionContext(s)
<1>0. s \in Session /\ StateInv(s)
  BY DEF SoundSession
<1>1. PICK r \in transition(s.state, event, ctx) :
        new = [s EXCEPT !.state    = r.to,
                        !.credit   = creditAfter(s, r.effects, payer),
                        !.resumeTo = resumeToAfter(s, r),
                        !.planner  = plannerAfter(s, r),
                        !.clock    = clockAfter(s, r.effects)]
  BY DEF applySessionEvent
<1>2. r \in Rows(ctx) /\ r.event # "FAIL" /\ s.state \in r.from
  BY <1>1 DEF transition
<1>3. \/ PreStartRow(r) \/ StartRow(r) \/ LiveRow(r, ctx)
      \/ EndRow(r, ctx) \/ AfterRow(r)
  BY <1>0, <1>2, ContextTyped, RowKinds
<1>4. new = [state |-> r.to, mode |-> s.mode, credit |-> creditAfter(s, r.effects, payer),
             resumeTo |-> resumeToAfter(s, r), planner |-> plannerAfter(s, r),
             clock |-> clockAfter(s, r.effects)]
  BY <1>0, <1>1 DEF Session
<1>5. r.to \in InterviewState
  BY <1>3 DEF PreStartRow, StartRow, LiveRow, EndRow, AfterRow, NotStarted,
       PRE_START_STATES, InterviewState, IN_PROGRESS_STATES, LIVE_STATES,
       TERMINAL_STATES
<1>12. resumeToAfter(s, r) \in ResumeTarget
  <2>1. "REMEMBER_RESUME_TARGET" \in r.effects => s.state \in LIVE_STATES
    BY <1>2, <1>3 DEF PreStartRow, StartRow, LiveRow, EndRow, AfterRow, Settling
  <2> QED
    BY <1>0, <2>1 DEF resumeToAfter, ResumeTarget, Session
<1>6. creditAfter(s, r.effects, payer) \in CreditStatus
  BY <1>0 DEF creditAfter, CreditStatus, Session, Payers
<1>7. clockAfter(s, r.effects) \in Clock
  <2>1. s.clock \in Clock
    BY <1>0 DEF Session
  <2> QED
    BY <2>1, ClockTyped DEF clockAfter
<1>8. "START_NEXT_ROUND" \in r.effects => hasNextRound(s.planner)
  BY <1>0, <1>2, <1>3, ContextTyped, SessionAssumption
     DEF PreStartRow, StartRow, LiveRow, EndRow, AfterRow, StateInv, NotStarted, Settling,
         PRE_START_STATES, hasNextRound
<1>9. plannerAfter(s, r) \in Planner
  <2>1. s.planner \in Planner
    BY <1>0 DEF Session
  <2>2. /\ endCurrentRound(s.planner, "TIMED_OUT") \in Planner
        /\ endCurrentRound(s.planner, "COMPLETED") \in Planner
    BY <2>1, EndRoundTyped DEF RoundState
  <2>3. "START_NEXT_ROUND" \in r.effects => startNextRound(s.planner) \in Planner
    BY <1>8, <2>1, StartRoundTyped
  <2> QED
    BY <2>1, <2>2, <2>3, SkipRoundsTyped DEF plannerAfter
<1>10. new \in Session
  BY <1>0, <1>4, <1>5, <1>6, <1>7, <1>9, <1>12 DEF Session
<1>11. StateInv(new)
  <2> USE <1>0, <1>2, <1>4 DEF StateInv, IN_PROGRESS_STATES, LIVE_STATES
  <2>1. CASE PreStartRow(r)
    BY <2>1 DEF PreStartRow, creditAfter, plannerAfter, clockAfter, NotStarted, PRE_START_STATES
  <2>2. CASE StartRow(r)
    BY <2>2 DEF StartRow, creditAfter, clockAfter, startClock, NotStarted, PRE_START_STATES,
         Payers
  <2>3. CASE LiveRow(r, ctx)
    <3>1. creditAfter(s, r.effects, payer) = s.credit
      BY <2>3 DEF LiveRow, creditAfter, Settling
    <3>2. clockAfter(s, r.effects) = IF "PAUSE_CLOCK" \in r.effects THEN pauseClock(s.clock)
            ELSE IF "RESUME_CLOCK" \in r.effects THEN resumeClock(s.clock) ELSE s.clock
      BY <2>3 DEF LiveRow, clockAfter
    <3>3. clockAfter(s, r.effects).running <=>
            r.to \in LIVE_STATES /\ ~clockAfter(s, r.effects).held
      BY <2>3, <3>2 DEF LiveRow, pauseClock, resumeClock, Session, Clock
    <3> QED
      BY <2>3, <3>1, <3>3 DEF LiveRow, NotStarted, PRE_START_STATES
  <2>4. CASE EndRow(r, ctx)
    BY <2>4, ContextTyped DEF EndRow, creditAfter, clockAfter, Settling, NotStarted,
         PRE_START_STATES
  <2>5. CASE AfterRow(r)
    BY <2>5 DEF AfterRow, creditAfter, clockAfter, NotStarted, PRE_START_STATES
  <2> QED
    BY <1>3, <2>1, <2>2, <2>3, <2>4, <2>5
<1> QED
  BY <1>4, <1>10, <1>11 DEF SoundSession

-------------------------------------------------------------------------------
(* The inductive invariant.                                                *)

(* A task is idle, or at a step of an operation on an interview.           *)
TaskType ==
  {Idle} \cup
    [op : Operation, step : Step, s : Interview, fresh : BOOLEAN,
     q : 0..MaxQuestions, tries : 0..(Retries - 1)]

(* The sweep of an interview, and whether what it found is still so.       *)
SweepType == [step : {"IDLE", "FOUND", "PROCESS"}, fresh : BOOLEAN]

(* Every session is sound; deadlines, tasks and sweeps have their types.   *)
CoreInv ==
  /\ session \in [Interview -> SoundSession]
  /\ overdue \in [Interview -> BOOLEAN]
  /\ task \in [Task -> TaskType]
  /\ sweep \in [Interview -> SweepType]

(* The other variables have their types.                                   *)
RestInv ==
  /\ turn \in [Interview -> {"NONE", "ASKED", "ANSWERED", "ASSESSED"}]
  /\ seq \in [Interview -> 0..MaxQuestions]
  /\ checked \in [Interview -> BOOLEAN]
  /\ joined \in [Interview -> BOOLEAN]
  /\ kicked \in [Interview -> BOOLEAN]
  /\ lock \in [Interview -> Task \cup {"FREE", "DEAD"}]
  /\ used \in 0..Units

(* A task that is about to ask, and whose session nobody has saved since   *)
(* it decided to, has a question left to ask.                              *)
MayAsk(next) == next.step = "PLAN_ASK" /\ next.fresh => seq[next.s] < MaxQuestions

AskInv == \A t \in Task : MayAsk(task[t])

(* Sound sessions, the other types, and a question left to who will ask it.*)
IInv == CoreInv /\ RestInv /\ AskInv

(* A task that is not idle is at work for some interview.                  *)
LEMMA Busy ==
  ASSUME CoreInv, NEW t \in Task, task[t].step # "IDLE"
  PROVE  /\ task[t].s \in Interview /\ task[t].op \in Operation
         /\ task[t] \in [op : Operation, step : Step, s : Interview, fresh : BOOLEAN,
                         q : 0..MaxQuestions, tries : 0..(Retries - 1)]
BY DEF CoreInv, TaskType, Idle

(* An idle task is a task.                                                 *)
LEMMA IdleTyped == Idle \in TaskType /\ Idle.step = "IDLE"
BY DEF TaskType, Idle

(* A task put at a step is a task.                                         *)
LEMMA AtTyped ==
  ASSUME RestInv, NEW op \in Operation, NEW step \in Step, NEW i \in Interview,
         NEW fresh \in BOOLEAN
  PROVE  At(op, step, i, fresh) \in TaskType /\ At(op, step, i, fresh).step = step
<1>1. 0 \in 0..(Retries - 1) /\ seq[i] \in 0..MaxQuestions
  BY InterviewAssumption DEF RestInv
<1> QED
  BY <1>1 DEF At, TaskType

(* A task that goes on to a step is a task, for the same interview.        *)
LEMMA ThenTyped ==
  ASSUME CoreInv, RestInv, NEW t \in Task, task[t].step # "IDLE", NEW step \in Step
  PROVE  Then(t, step) \in TaskType /\ Then(t, step).step = step
         /\ Then(t, step).s = task[t].s
<1>1. 0 \in 0..(Retries - 1) /\ seq[task[t].s] \in 0..MaxQuestions
  BY Busy, InterviewAssumption DEF RestInv
<1> QED
  BY <1>1, Busy DEF Then, TaskType

(* The ways in which a step changes sessions and tasks.                    *)
Moved ==
  \E t \in Task : \E next \in TaskType : MayAsk(next) /\ Goto(t, next)

Saved ==
  \E t \in Task, i \in Interview : \E new \in SoundSession, next \in TaskType :
    next.step # "PLAN_ASK" /\ SaveTask(t, i, new, next)

SavedByWorker ==
  \E i \in Interview : \E new \in SoundSession, next \in SweepType :
    SaveWorker(i, new, next)

(* A write of a sound session leaves every session sound.                  *)
LEMMA WriteTyped ==
  ASSUME CoreInv, NEW i \in Interview, NEW new \in SoundSession, Write(i, new)
  PROVE  /\ session' \in [Interview -> SoundSession]
         /\ overdue' \in [Interview -> BOOLEAN]
BY DEF CoreInv, Write

(* A save only makes other tasks' reads of that interview stale.           *)
LEMMA OutdatedTyped ==
  ASSUME CoreInv, NEW u \in Task, NEW i \in Interview
  PROVE  /\ Outdated(u, i) \in TaskType
         /\ Outdated(u, i).step = task[u].step
         /\ Outdated(u, i).s = task[u].s
         /\ Outdated(u, i).fresh => task[u].fresh /\ task[u].s # i
<1>1. CASE task[u] = Idle
  <2>1. task[u].s # i
    BY <1>1, InterviewAssumption DEF Idle
  <2> QED
    BY <1>1, <2>1, IdleTyped DEF Outdated, Idle
<1>2. CASE task[u] # Idle
  BY <1>2 DEF CoreInv, TaskType, Outdated
<1> QED
  BY <1>1, <1>2

(* What a task's save does to the sessions and to every task.              *)
LEMMA SaveTaskEffect ==
  ASSUME CoreInv, NEW t \in Task, NEW i \in Interview, NEW new \in SoundSession,
         NEW next \in TaskType, SaveTask(t, i, new, next)
  PROVE  /\ CoreInv'
         /\ \A u \in Task : task'[u] = IF u = t THEN next ELSE Outdated(u, i)
<1>1. task' \in [Task -> TaskType]
  BY OutdatedTyped DEF SaveTask
<1>2. sweep' \in [Interview -> SweepType]
  BY DEF SaveTask, CoreInv, SweepType
<1> QED
  BY <1>1, <1>2, WriteTyped DEF SaveTask, CoreInv

(* A task that moves or saves, or a worker that saves, preserves the       *)
(* invariant. Most actions below are shown to be such a step.              *)
LEMMA StepPreserves ==
  ASSUME IInv, Moved \/ Saved \/ SavedByWorker, RestInv', seq' = seq
  PROVE  IInv'
<1> USE DEF IInv
<1>1. CASE Moved
  <2>1. PICK t \in Task, next \in TaskType : MayAsk(next) /\ Goto(t, next)
    BY <1>1 DEF Moved
  <2>2. CoreInv'
    BY <2>1 DEF CoreInv, Goto
  <2>3. AskInv'
    BY <2>1 DEF CoreInv, AskInv, MayAsk, Goto
  <2> QED
    BY <2>2, <2>3
<1>2. CASE Saved
  <2>1. PICK t \in Task, i \in Interview, new \in SoundSession, next \in TaskType :
          next.step # "PLAN_ASK" /\ SaveTask(t, i, new, next)
    BY <1>2 DEF Saved
  <2>2. CoreInv' /\ \A u \in Task : task'[u] = IF u = t THEN next ELSE Outdated(u, i)
    BY <2>1, SaveTaskEffect
  <2>3. AskInv'
    <3> SUFFICES ASSUME NEW u \in Task PROVE MayAsk(task[u])'
      BY DEF AskInv
    <3>1. CASE u = t
      BY <2>1, <2>2, <3>1 DEF MayAsk
    <3>2. CASE u # t
      BY <2>2, <3>2, OutdatedTyped DEF MayAsk, AskInv
    <3> QED
      BY <3>1, <3>2
  <2> QED
    BY <2>2, <2>3
<1>3. CASE SavedByWorker
  <2>1. PICK i \in Interview, new \in SoundSession, next \in SweepType :
          SaveWorker(i, new, next)
    BY <1>3 DEF SavedByWorker
  <2>2. CoreInv'
    <3>1. task' \in [Task -> TaskType]
      BY <2>1, OutdatedTyped DEF SaveWorker
    <3>2. sweep' \in [Interview -> SweepType]
      BY <2>1 DEF SaveWorker, CoreInv
    <3> QED
      BY <2>1, <3>1, <3>2, WriteTyped DEF SaveWorker, CoreInv
  <2>3. AskInv'
    <3> SUFFICES ASSUME NEW u \in Task PROVE MayAsk(task[u])'
      BY DEF AskInv
    <3>1. task'[u] = Outdated(u, i)
      BY <2>1 DEF SaveWorker
    <3> QED
      BY <3>1, OutdatedTyped DEF MayAsk, AskInv
  <2> QED
    BY <2>2, <2>3
<1> QED
  BY <1>1, <1>2, <1>3

-------------------------------------------------------------------------------
(* Before the interview, and its start.                                    *)

(* The direct moves before the start keep a session sound.                 *)
LEMMA TransitionKeepsSession ==
  ASSUME NEW s \in SoundSession, NEW from, NEW to \in NotStarted,
         from = "ROLE_ANALYSIS" \/ to \in {"ROLE_ANALYSIS", "CANCELLED"},
         NEW new \in transitionSession(s, from, to)
  PROVE  new \in SoundSession
<1>1. new = [s EXCEPT !.state = to] /\ s.state = from /\ canTransition(from, to)
  BY DEF transitionSession
<1>2. from \in NotStarted
  <2>1. CASE from = "ROLE_ANALYSIS"
    BY <2>1 DEF NotStarted
  <2>2. CASE to \in {"ROLE_ANALYSIS", "CANCELLED"}
    <3>4. PICK ctx \in SessionContext : \E r \in Rows(ctx) : from \in r.from /\ to = r.to
      BY <1>1 DEF canTransition, ALLOWED_TRANSITIONS
    <3>1. PICK r \in Rows(ctx) : from \in r.from /\ to = r.to
      BY <3>4
    <3>2. r.event # "FAIL"
      BY <2>2, <3>1 DEF Rows, PreStartRows, LiveRows, EndRows, FailRows, Row, When
    <3>3. \/ PreStartRow(r) \/ StartRow(r) \/ LiveRow(r, ctx)
          \/ EndRow(r, ctx) \/ AfterRow(r)
      BY <3>1, <3>2, RowKinds
    <3> QED
      BY <2>2, <3>1, <3>3 DEF PreStartRow, StartRow, LiveRow, EndRow, AfterRow,
           IN_PROGRESS_STATES, LIVE_STATES
  <2> QED
    BY <2>1, <2>2
<1>3. new \in Session
  BY <1>1 DEF SoundSession, Session, NotStarted, PRE_START_STATES, InterviewState,
       TERMINAL_STATES
<1>4. StateInv(new)
  BY <1>1, <1>2 DEF SoundSession, Session, StateInv, NotStarted, PRE_START_STATES,
       IN_PROGRESS_STATES, LIVE_STATES
<1> QED
  BY <1>3, <1>4 DEF SoundSession

(* A request of the preparation that begins preserves the invariant.       *)
LEMMA RequestPreserves ==
  ASSUME IInv, NEW t \in Task, NEW i \in Interview, NEW op, RequestBegins(t, i, op)
  PROVE  IInv'
<1>1. At(op, "DECIDED", i, TRUE) \in TaskType /\ At(op, "DECIDED", i, TRUE).step = "DECIDED"
  <2>1. op \in Operation /\ "DECIDED" \in Step /\ TRUE \in BOOLEAN
    BY InterviewAssumption DEF RequestBegins, IsFree, Step
  <2> QED
    BY <2>1, AtTyped DEF IInv
<1>2. Moved
  BY <1>1 DEF RequestBegins, Moved, MayAsk
<1>3. RestInv' /\ seq' = seq
  BY DEF IInv, RequestBegins, RestInv
<1> QED
  BY <1>2, <1>3, StepPreserves

(* So does each of its steps.                                              *)
LEMMA PreparingPreserves ==
  ASSUME IInv, NEW t \in Task, Preparing(t)
  PROVE  IInv'
<1> USE DEF IInv
<1>1. Idle \in TaskType /\ Idle.step # "PLAN_ASK" /\ MayAsk(Idle)
  BY IdleTyped DEF MayAsk
<1>2. task[t].step # "IDLE" => task[t].s \in Interview /\ session[task[t].s] \in SoundSession
  BY Busy DEF CoreInv
<1>3. CASE GivesUp(t)
  BY <1>1, <1>3, StepPreserves DEF GivesUp, Moved, RestInv
<1>4. CASE Analyze(t)
  <2>1. PICK new \in transitionSession(session[task[t].s], session[task[t].s].state,
                                       "ROLE_ANALYSIS") :
          SaveTask(t, task[t].s, new, Then(t, "ENQUEUE"))
    BY <1>4 DEF Analyze
  <2>2. new \in SoundSession
    BY <1>2, <1>4, TransitionKeepsSession DEF Analyze, Doing, NotStarted
  <2>3. Then(t, "ENQUEUE") \in TaskType /\ Then(t, "ENQUEUE").step # "PLAN_ASK"
    BY <1>4, ThenTyped DEF Analyze, Doing, Step
  <2>4. Saved
    BY <1>2, <1>4, <2>1, <2>2, <2>3 DEF Analyze, Doing, Saved
  <2> QED
    BY <1>4, <2>4, StepPreserves DEF Analyze, RestInv
<1>5. CASE AnalyzeEnqueues(t)
  <2>1. CASE Goto(t, Idle)
    BY <1>1, <1>5, <2>1, StepPreserves DEF AnalyzeEnqueues, Moved, RestInv
  <2>2. CASE ~Goto(t, Idle)
    <3>1. PICK new \in transitionSession(session[task[t].s], "ROLE_ANALYSIS", "FAILED") :
            SaveTask(t, task[t].s, new, Idle)
      BY <1>5, <2>2 DEF AnalyzeEnqueues
    <3>2. new \in SoundSession
      BY <1>2, <1>5, TransitionKeepsSession DEF AnalyzeEnqueues, Doing, NotStarted
    <3>3. Saved
      BY <1>1, <1>2, <1>5, <3>1, <3>2 DEF AnalyzeEnqueues, Doing, Saved
    <3> QED
      BY <1>5, <3>3, StepPreserves DEF AnalyzeEnqueues, RestInv
  <2> QED
    BY <2>1, <2>2
<1>6. CASE Cancel(t)
  <2>1. PICK new \in transitionSession(session[task[t].s], session[task[t].s].state,
                                       "CANCELLED") :
          SaveTask(t, task[t].s, new, Idle)
    BY <1>6 DEF Cancel
  <2>2. new \in SoundSession
    BY <1>2, <1>6, TransitionKeepsSession DEF Cancel, Doing, NotStarted
  <2>3. Saved
    BY <1>1, <1>2, <1>6, <2>1, <2>2 DEF Cancel, Doing, Saved
  <2> QED
    BY <1>6, <2>3, StepPreserves DEF Cancel, RestInv
<1>7. CASE updateSetup(t)
  <2>1. PICK mode \in Mode : session' = [session EXCEPT ![task[t].s].mode = mode]
    BY <1>7 DEF updateSetup
  <2>2. [session[task[t].s] EXCEPT !.mode = mode] \in SoundSession
    BY <1>2, <1>7 DEF updateSetup, Doing, SoundSession, Session, StateInv
  <2>3. CoreInv'
    BY <1>1, <1>7, <2>1, <2>2 DEF updateSetup, CoreInv
  <2>4. AskInv' /\ RestInv'
    BY <1>1, <1>7 DEF updateSetup, AskInv, MayAsk, CoreInv, RestInv
  <2> QED
    BY <2>3, <2>4
<1> QED
  BY <1>3, <1>4, <1>5, <1>6, <1>7 DEF Preparing

(* The steps a start walks through before START keep the session sound.    *)
LEMMA PreStartKeepsSession ==
  ASSUME NEW s \in SoundSession, NEW new \in preStartStep(s)
  PROVE  new \in SoundSession
BY EventKeepsSession DEF preStartStep, Payers

(* The transaction of a start preserves the invariant.                     *)
LEMMA StartPreserves ==
  ASSUME IInv, NEW t \in Task, Start(t)
  PROVE  IInv'
<1> USE DEF IInv
<1> DEFINE i == task[t].s
<1>1. Idle \in TaskType /\ Idle.step # "PLAN_ASK" /\ MayAsk(Idle)
  BY IdleTyped DEF MayAsk
<1>2. i \in Interview /\ session[i] \in SoundSession
  BY Busy DEF CoreInv, Start, Doing
<1>3. CASE Goto(t, Idle) /\ UNCHANGED <<kicked, used>>
  BY <1>1, <1>3, StepPreserves DEF Start, Moved, RestInv
<1>4. CASE ~(Goto(t, Idle) /\ UNCHANGED <<kicked, used>>)
  <2>1. PICK payer \in payerOf(i), ready \in walked(session[i]) :
          /\ \E new \in applySessionEvent(ready, "START", payer) : SaveTask(t, i, new, Idle)
          /\ used' = IF payer = "SPONSORED" THEN used + 1 ELSE used
          /\ Kick(i)
    BY <1>4 DEF Start
  <2>2. PICK new \in applySessionEvent(ready, "START", payer) : SaveTask(t, i, new, Idle)
    BY <2>1
  <2>3. ready \in SoundSession
    BY <1>2, PreStartKeepsSession DEF walked
  <2>4. /\ payer \in Payers
        /\ payer = "SPONSORED" => used < Units
    BY <1>2, InterviewAssumption DEF payerOf, Payers
  <2>5. new \in SoundSession
    BY <2>2, <2>3, <2>4, EventKeepsSession
  <2>6. Saved
    BY <1>1, <1>2, <2>2, <2>5 DEF Saved
  <2>7. used' \in 0..Units
    BY <2>1, <2>4, InterviewAssumption DEF RestInv
  <2> QED
    BY <2>1, <2>6, <2>7, StepPreserves DEF Start, RestInv, Kick
<1> QED
  BY <1>3, <1>4

-------------------------------------------------------------------------------
(* Ending, losing and regaining the candidate.                             *)

(* An event applied to what a task has read yields a sound session.        *)
LEMMA AppliedSound ==
  ASSUME IInv, NEW t \in Task, task[t].step # "IDLE", NEW event, event # "FAIL",
         NEW new \in Applied(t, event)
  PROVE  new \in SoundSession
<1>1. session[task[t].s] \in SoundSession
  BY Busy DEF IInv, CoreInv
<1> QED
  BY <1>1, EventKeepsSession DEF Applied, Payers

(* A handler that applies an event if the engine allows it moves or saves. *)
LEMMA SavesOrSkips ==
  ASSUME IInv, NEW t \in Task, task[t].step # "IDLE", NEW event, event # "FAIL",
         NEW done \in TaskType, done.step # "PLAN_ASK",
         NEW skipped \in TaskType, skipped.step # "PLAN_ASK",
         SaveOrSkip(t, event, done, skipped)
  PROVE  Moved \/ Saved
<1>1. task[t].s \in Interview
  BY Busy DEF IInv
<1> QED
  BY <1>1, AppliedSound DEF SaveOrSkip, Moved, Saved, MayAsk

(* The sponsor's counter stays between 0 and its units.                    *)
LEMMA ReturnedTyped ==
  ASSUME IInv, NEW i, NEW event, NEW fresh
  PROVE  Returned(i, event, fresh) \in 0..Units
BY InterviewAssumption DEF IInv, RestInv, Returned

(* Releasing the lock keeps its type.                                      *)
LEMMA UnlockedTyped ==
  ASSUME IInv, NEW t, NEW i
  PROVE  Unlocked(t, i) \in [Interview -> Task \cup {"FREE", "DEAD"}]
BY DEF IInv, RestInv, Unlocked

(* The steps of end, join, disconnect and heartbeat preserve the invariant.*)
LEMMA RunningPreserves ==
  ASSUME IInv, NEW t \in Task, Running(t)
  PROVE  IInv'
<1> USE DEF IInv
<1>1. Idle \in TaskType /\ Idle.step # "PLAN_ASK" /\ MayAsk(Idle)
  BY IdleTyped DEF MayAsk
<1>2. CASE Start(t)
  BY <1>2, StartPreserves
<1>3. CASE EndRequested(t)
  <2>1. task[t].step # "IDLE" /\ task[t].s \in Interview
    BY <1>3, Busy DEF EndRequested, Doing
  <2>2. Then(t, "FINISH") \in TaskType /\ Then(t, "FINISH").step # "PLAN_ASK"
    BY <2>1, ThenTyped DEF Step
  <2>3. Moved \/ Saved
    BY <1>1, <1>3, <2>1, <2>2, AppliedSound DEF EndRequested, Moved, Saved
  <2>4. RestInv' /\ seq' = seq
    BY <1>3, UnlockedTyped DEF EndRequested, RestInv
  <2> QED
    BY <2>3, <2>4, StepPreserves
<1>4. CASE Finish(t)
  <2>1. Moved \/ Saved
    BY <1>1, <1>4, SavesOrSkips DEF Finish
  <2>2. RestInv' /\ seq' = seq
    BY <1>4, UnlockedTyped, ReturnedTyped DEF Finish, RestInv
  <2> QED
    BY <2>1, <2>2, StepPreserves
<1>5. CASE Join(t)
  <2>1. Moved \/ Saved
    BY <1>1, <1>5, SavesOrSkips DEF Join, Doing, ResumeEvent
  <2>2. RestInv' /\ seq' = seq
    <3>1. \A b, c \in BOOLEAN : (b \/ c) \in BOOLEAN
      OBVIOUS
    <3>2. (Applied(t, ResumeEvent(task[t].s)) # {}) \in BOOLEAN
      OBVIOUS
    <3>3. kicked' \in [Interview -> BOOLEAN]
      BY <1>5, <3>1, <3>2 DEF Join, RestInv
    <3> QED
      BY <1>5, <3>3 DEF Join, RestInv
  <2> QED
    BY <2>1, <2>2, StepPreserves
<1>6. CASE JoinBusy(t)
  BY <1>1, <1>6, StepPreserves DEF JoinBusy, Moved, RestInv
<1>7. CASE GoneFetches(t)
  <2>1. [task[t] EXCEPT !.step = "WAIT"] \in TaskType
    BY <1>7, Busy DEF GoneFetches, Doing, TaskType, Step
  <2>2. [task[t] EXCEPT !.step = "WAIT"].step # "PLAN_ASK"
    BY <1>7, Busy DEF GoneFetches, Doing
  <2>3. Moved
    BY <1>1, <1>7, <2>1, <2>2 DEF GoneFetches, Moved, MayAsk
  <2> QED
    BY <1>7, <2>3, StepPreserves DEF GoneFetches, RestInv
<1>8. CASE GoneReads(t)
  <2>1. Then(t, "DECIDED") \in TaskType /\ Then(t, "DECIDED").step = "DECIDED"
    BY <1>8, ThenTyped DEF GoneReads, Doing, Step
  <2>2. Moved
    BY <1>1, <1>8, <2>1 DEF GoneReads, Moved, MayAsk
  <2> QED
    BY <1>8, <2>2, StepPreserves DEF GoneReads, RestInv
<1>9. CASE Disconnected(t)
  <2>1. Moved \/ Saved
    BY <1>1, <1>9, SavesOrSkips DEF Disconnected, Doing
  <2>2. RestInv' /\ seq' = seq
    BY <1>9, UnlockedTyped DEF Disconnected, RestInv
  <2> QED
    BY <2>1, <2>2, StepPreserves
<1> QED
  BY <1>2, <1>3, <1>4, <1>5, <1>6, <1>7, <1>8, <1>9 DEF Running

-------------------------------------------------------------------------------
(* Answering and advancing.                                                *)

(* Holding the clock keeps a session sound,                                *)
LEMMA HeldSound ==
  ASSUME NEW s \in SoundSession
  PROVE  [s EXCEPT !.clock = holdClock(@)] \in SoundSession
<1>1. s \in Session /\ s.clock \in Clock /\ StateInv(s)
  BY DEF SoundSession, Session
<1>2. holdClock(s.clock) \in Clock /\ ~holdClock(s.clock).running /\ holdClock(s.clock).held
  BY <1>1, ClockTyped DEF holdClock, Clock
<1> QED
  BY <1>1, <1>2 DEF SoundSession, Session, StateInv

(* and so does releasing it, which starts it only if the interview is live.*)
LEMMA ReleasedSound ==
  ASSUME NEW s \in SoundSession
  PROVE  [s EXCEPT !.clock = releasedSessionClock(s)] \in SoundSession
<1>1. s \in Session /\ s.clock \in Clock /\ StateInv(s)
  BY DEF SoundSession, Session
<1>2. (s.state \in LIVE_STATES) \in BOOLEAN
  OBVIOUS
<1>3. releasedSessionClock(s) \in Clock
  BY <1>1, <1>2, ClockTyped DEF releasedSessionClock
<1>4. /\ ~releasedSessionClock(s).held
      /\ releasedSessionClock(s).running <=> s.state \in LIVE_STATES
  BY <1>1 DEF releasedSessionClock, releaseClock, Clock, StateInv
<1> QED
  BY <1>1, <1>3, <1>4 DEF SoundSession, Session, StateInv

(* A change of the planner within its round keeps a session sound.         *)
LEMMA PlannerSound ==
  ASSUME NEW s \in SoundSession, NEW p \in Planner, p.roundIdx = s.planner.roundIdx
  PROVE  [s EXCEPT !.planner = p] \in SoundSession
BY DEF SoundSession, Session, StateInv

(* What a task does after holding or releasing the clock is a task's step. *)
LEMMA AfterHoldTyped ==
  ASSUME IInv, NEW t \in Task, task[t].step # "IDLE"
  PROVE  AfterHold(t) \in TaskType /\ AfterHold(t).step # "PLAN_ASK"
<1>1. Then(t, "READ") \in TaskType /\ Then(t, "READ").step = "READ"
  BY ThenTyped DEF IInv, Step
<1> QED
  BY <1>1, IdleTyped DEF AfterHold

(* The end of a hold keeps the types of the lock and the kick.             *)
LEMMA HoldEndsTyped ==
  ASSUME IInv, NEW t, HoldEnds(t)
  PROVE  /\ kicked' \in [Interview -> BOOLEAN]
         /\ lock' \in [Interview -> Task \cup {"FREE", "DEAD"}]
<1>1. CASE task[t].op = "ANSWER"
  <2>1. lock' = Unlocked(t, task[t].s) /\ Kick(task[t].s)
    BY <1>1 DEF HoldEnds
  <2>2. kicked' \in [Interview -> BOOLEAN]
    BY <2>1 DEF IInv, RestInv, Kick
  <2> QED
    BY <2>1, <2>2, UnlockedTyped
<1>2. CASE task[t].op # "ANSWER"
  BY <1>2 DEF IInv, RestInv, HoldEnds
<1> QED
  BY <1>1, <1>2

(* A save that is refused and tried again, or given up, is a move.         *)
LEMMA TriesAgainMoves ==
  ASSUME IInv, NEW t \in Task, task[t].step # "IDLE", NEW step \in Step, step # "PLAN_ASK",
         TriesAgain(t, step)
  PROVE  Moved
<1>1. task[t] \in [op : Operation, step : Step, s : Interview, fresh : BOOLEAN,
                   q : 0..MaxQuestions, tries : 0..(Retries - 1)]
  BY Busy DEF IInv
<1>2. task[t].tries + 1 \in 0..(Retries - 1)
  BY <1>1, InterviewAssumption DEF TriesAgain
<1>3. [task[t] EXCEPT !.step = step, !.tries = @ + 1] \in TaskType
  BY <1>1, <1>2 DEF TaskType
<1>4. [task[t] EXCEPT !.step = step, !.tries = @ + 1].step # "PLAN_ASK"
  BY <1>1
<1> QED
  BY <1>3, <1>4 DEF TriesAgain, Moved, MayAsk

(* The steps of answering and of holding the clock preserve the invariant. *)
LEMMA AnsweringPreserves ==
  ASSUME IInv, NEW t \in Task,
         AnswerResumes(t) \/ AnswerSaves(t) \/ HoldReads(t) \/ HoldSaves(t)
  PROVE  IInv'
<1> USE DEF IInv
<1>1. Idle \in TaskType /\ Idle.step # "PLAN_ASK" /\ MayAsk(Idle)
  BY IdleTyped DEF MayAsk
<1>2. task[t].step # "IDLE"
  BY DEF AnswerResumes, AnswerSaves, HoldReads, HoldSaves, Doing
<1>3. task[t] \in [op : Operation, step : Step, s : Interview, fresh : BOOLEAN,
                   q : 0..MaxQuestions, tries : 0..(Retries - 1)]
  BY <1>2, Busy
<1>4. CASE AnswerResumes(t)
  <2>1. Then(t, "SAVE_ANSWER") \in TaskType /\ Then(t, "SAVE_ANSWER").step # "PLAN_ASK"
    BY <1>2, ThenTyped DEF Step
  <2>2. Moved \/ Saved
    BY <1>1, <1>2, <1>3, <1>4, <2>1, AppliedSound DEF AnswerResumes, Moved, Saved
  <2>3. RestInv' /\ seq' = seq
    BY <1>4, UnlockedTyped DEF AnswerResumes, RestInv
  <2> QED
    BY <2>2, <2>3, StepPreserves
<1>5. CASE AnswerSaves(t)
  <2>1. CASE task[t].q = seq[task[t].s] /\ turn[task[t].s] = "ASKED"
    <3>1. [task[t] EXCEPT !.step = "HOLD"] \in TaskType
      BY <1>3 DEF TaskType, Step
    <3>2. [task[t] EXCEPT !.step = "HOLD"].step # "PLAN_ASK"
      BY <1>3
    <3>3. task' = [task EXCEPT ![t] = [task[t] EXCEPT !.step = "HOLD"]]
      BY <1>5, <2>1 DEF AnswerSaves
    <3>4. overdue' \in [Interview -> BOOLEAN]
      BY <1>5, <2>1 DEF AnswerSaves, CoreInv
    <3>5. CoreInv'
      BY <1>5, <2>1, <3>1, <3>3, <3>4 DEF AnswerSaves, CoreInv
    <3>6. AskInv' /\ RestInv'
      BY <1>5, <2>1, <3>2, <3>3 DEF AnswerSaves, AskInv, MayAsk, RestInv, CoreInv
    <3> QED
      BY <3>5, <3>6
  <2>2. CASE ~(task[t].q = seq[task[t].s] /\ turn[task[t].s] = "ASKED")
    <3>1. Moved
      BY <1>1, <1>5, <2>2 DEF AnswerSaves, Moved
    <3>2. RestInv' /\ seq' = seq
      BY <1>5, <2>2, UnlockedTyped DEF AnswerSaves, RestInv
    <3> QED
      BY <3>1, <3>2, StepPreserves
  <2> QED
    BY <2>1, <2>2
<1>6. CASE HoldReads(t)
  <2>1. [task[t] EXCEPT !.step = "HOLDING", !.fresh = TRUE] \in TaskType
    BY <1>3 DEF TaskType, Step
  <2>2. [task[t] EXCEPT !.step = "HOLDING", !.fresh = TRUE].step # "PLAN_ASK"
    BY <1>3
  <2>3. Moved
    BY <1>2, <1>6, <2>1, <2>2, AfterHoldTyped DEF HoldReads, Moved, MayAsk
  <2>4. RestInv' /\ seq' = seq
    BY <1>6, HoldEndsTyped DEF HoldReads, RestInv
  <2> QED
    BY <2>3, <2>4, StepPreserves
<1>7. CASE HoldSaves(t)
  <2>1. [session[task[t].s] EXCEPT !.clock = holdClock(@)] \in SoundSession
    BY <1>3, HeldSound DEF CoreInv
  <2>2. AfterHold(t) \in TaskType /\ AfterHold(t).step # "PLAN_ASK"
    BY <1>2, AfterHoldTyped
  <2>3. CASE Current(t)
    BY <1>3, <1>7, <2>1, <2>2, <2>3, HoldEndsTyped, StepPreserves
       DEF HoldSaves, Saved, RestInv
  <2>4. CASE ~Current(t)
    <3>1. Moved
      BY <1>2, <1>7, <2>2, <2>4, TriesAgainMoves DEF HoldSaves, Moved, MayAsk, Step
    <3>2. RestInv' /\ seq' = seq
      BY <1>7, <2>4, HoldEndsTyped DEF HoldSaves, RestInv
    <3> QED
      BY <3>1, <3>2, StepPreserves
  <2> QED
    BY <2>3, <2>4
<1> QED
  BY <1>4, <1>5, <1>6, <1>7

(* The events that advance fires preserve the invariant.                   *)
LEMMA FiresPreserve ==
  ASSUME IInv, NEW t \in Task, NEW step, step # "IDLE", NEW event, event # "FAIL",
         AdvanceFires(t, step, event)
  PROVE  IInv'
<1>1. task[t].step # "IDLE"
  BY DEF AdvanceFires, Doing
<1>2. Then(t, "READ") \in TaskType /\ Then(t, "READ").step # "PLAN_ASK"
  BY <1>1, ThenTyped DEF IInv, Step
<1>3. Moved \/ Saved
  BY <1>1, <1>2, SavesOrSkips DEF AdvanceFires
<1> QED
  BY <1>3, StepPreserves DEF AdvanceFires, IInv, RestInv

(* So do its reads, its decisions and the release of a stray hold.         *)
LEMMA AdvancingPreserves ==
  ASSUME IInv, NEW t \in Task,
         \/ AdvanceReads(t) \/ NextRound(t) \/ TimeUp(t) \/ RoundEnded(t)
         \/ StrayHoldReleased(t)
  PROVE  IInv'
<1> USE DEF IInv
<1> DEFINE i == task[t].s
<1>1. Idle \in TaskType /\ Idle.step # "PLAN_ASK" /\ MayAsk(Idle)
  BY IdleTyped DEF MayAsk
<1>2. task[t].step # "IDLE"
  BY DEF AdvanceReads, NextRound, TimeUp, RoundEnded, StrayHoldReleased, AdvanceFires, Doing
<1>3. i \in Interview /\ session[i] \in SoundSession /\ session[i].planner \in Planner
  BY <1>2, Busy DEF CoreInv, SoundSession, Session
<1>4. Then(t, "READ") \in TaskType /\ Then(t, "READ").step = "READ"
  BY <1>2, ThenTyped DEF Step
<1>5. CASE AdvanceReads(t)
  <2>1. PICK move \in moves(i) :
          IF move = "STOP" THEN Goto(t, Idle) /\ lock' = Unlocked(t, i)
          ELSE Goto(t, Then(t, move)) /\ UNCHANGED lock
    BY <1>5 DEF AdvanceReads
  <2>2. move \in Step \cup {"STOP"} /\ (move = "PLAN_ASK" => seq[i] # MaxQuestions)
    BY DEF moves, Step
  <2>3. move # "STOP" => Then(t, move) \in TaskType /\ MayAsk(Then(t, move))
    <3>1. seq[i] # MaxQuestions => seq[i] < MaxQuestions
      BY <1>3, InterviewAssumption DEF RestInv
    <3> QED
      BY <1>2, <2>2, <3>1, ThenTyped DEF MayAsk
  <2>4. Moved
    BY <1>1, <2>1, <2>3 DEF Moved
  <2>5. RestInv' /\ seq' = seq
    BY <1>5, <2>1, UnlockedTyped DEF AdvanceReads, RestInv
  <2> QED
    BY <2>4, <2>5, StepPreserves
<1>6. CASE NextRound(t) \/ TimeUp(t)
  BY <1>6, FiresPreserve DEF NextRound, TimeUp
<1>7. CASE RoundEnded(t)
  <2>1. CASE Current(t)
    <3> DEFINE ended(outcome) ==
                 [session[i] EXCEPT !.planner = endCurrentRound(@, outcome)]
    <3>1. PICK outcome \in {"COMPLETED", "TIMED_OUT"} :
            \E new \in applySessionEvent(ended(outcome), "ROUND_ENDED", "FREE") :
              SaveTask(t, i, new, Then(t, "READ"))
      BY <1>7, <2>1 DEF RoundEnded
    <3>2. ended(outcome) \in SoundSession
      BY <1>3, EndRoundTyped, PlannerSound DEF RoundState
    <3> HIDE DEF ended
    <3>3. PICK new \in applySessionEvent(ended(outcome), "ROUND_ENDED", "FREE") :
            SaveTask(t, i, new, Then(t, "READ"))
      BY <3>1
    <3>4. new \in SoundSession
      BY <3>2, EventKeepsSession DEF Payers
    <3>5. Saved
      BY <1>3, <1>4, <3>3, <3>4 DEF Saved
    <3> QED
      BY <1>7, <3>5, StepPreserves DEF RoundEnded, RestInv
  <2>2. CASE ~Current(t)
    BY <1>4, <1>7, <2>2, StepPreserves DEF RoundEnded, Moved, MayAsk, RestInv
  <2> QED
    BY <2>1, <2>2
<1>8. CASE StrayHoldReleased(t)
  <2>1. Moved \/ Saved
    BY <1>1, <1>3, <1>8, ReleasedSound DEF StrayHoldReleased, Moved, Saved
  <2>2. RestInv' /\ seq' = seq
    BY <1>8, UnlockedTyped DEF StrayHoldReleased, RestInv
  <2> QED
    BY <2>1, <2>2, StepPreserves
<1> QED
  BY <1>5, <1>6, <1>7, <1>8

(* Counting an assessed answer keeps the planner's type and its round.     *)
LEMMA CountTyped ==
  ASSUME NEW p \in Planner, NEW counts \in BOOLEAN
  PROVE  /\ recordAssessment(p, counts) \in Planner
         /\ recordAssessment(p, counts).roundIdx = p.roundIdx
<1>1. CASE counts /\ p.answeredCount < MaxAnswers
  <2>1. p.answeredCount + 1 \in 0..MaxAnswers
    BY <1>1, SessionAssumption DEF Planner
  <2>2. recordAssessment(p, counts) = [p EXCEPT !.answeredCount = p.answeredCount + 1]
    BY <1>1 DEF recordAssessment
  <2> QED
    BY <2>1, <2>2 DEF Planner
<1>2. CASE ~(counts /\ p.answeredCount < MaxAnswers)
  BY <1>2 DEF recordAssessment
<1> QED
  BY <1>1, <1>2

(* Assessing an answer and counting it preserve the invariant.             *)
LEMMA AssessingPreserves ==
  ASSUME IInv, NEW t \in Task, Assess(t) \/ CountReads(t) \/ CountSaves(t)
  PROVE  IInv'
<1> USE DEF IInv
<1> DEFINE i == task[t].s
<1>1. task[t].step # "IDLE"
  BY DEF Assess, CountReads, CountSaves, Doing
<1>2. i \in Interview /\ session[i] \in SoundSession /\ session[i].planner \in Planner
  BY <1>1, Busy DEF CoreInv, SoundSession, Session
<1>3. Then(t, "READ") \in TaskType /\ Then(t, "READ").step # "PLAN_ASK"
  BY <1>1, ThenTyped DEF Step
<1>4. task[t] \in [op : Operation, step : Step, s : Interview, fresh : BOOLEAN,
                   q : 0..MaxQuestions, tries : 0..(Retries - 1)]
  BY <1>1, Busy
<1>5. CASE Assess(t)
  <2>1. [task[t] EXCEPT !.step = "COUNT"] \in TaskType
    BY <1>4 DEF TaskType, Step
  <2>2. [task[t] EXCEPT !.step = "COUNT"].step # "PLAN_ASK"
    BY <1>4
  <2>3. Moved
    BY <1>5, <2>1, <2>2 DEF Assess, Moved, MayAsk
  <2>4. assessed(t, i) \in {"NONE", "ASKED", "ANSWERED", "ASSESSED"}
    BY <1>2 DEF assessed, RestInv
  <2>5. RestInv' /\ seq' = seq
    BY <1>5, <2>4 DEF Assess, RestInv
  <2> QED
    BY <2>3, <2>5, StepPreserves
<1>6. CASE CountReads(t)
  <2>1. [task[t] EXCEPT !.step = "COUNTING", !.fresh = TRUE] \in TaskType
    BY <1>4 DEF TaskType, Step
  <2>2. [task[t] EXCEPT !.step = "COUNTING", !.fresh = TRUE].step # "PLAN_ASK"
    BY <1>4
  <2>3. Moved
    BY <1>3, <1>6, <2>1, <2>2 DEF CountReads, Moved, MayAsk
  <2> QED
    BY <1>6, <2>3, StepPreserves DEF CountReads, RestInv
<1>7. CASE CountSaves(t)
  <2>1. ASSUME NEW counts \in BOOLEAN
        PROVE  [session[i] EXCEPT !.planner = recordAssessment(@, counts)] \in SoundSession
    <3>1. /\ recordAssessment(session[i].planner, counts) \in Planner
          /\ recordAssessment(session[i].planner, counts).roundIdx = session[i].planner.roundIdx
      BY <1>2, CountTyped
    <3> QED
      BY <1>2, <3>1, PlannerSound
  <2>2. CASE Current(t)
    <3>1. Saved
      BY <1>2, <1>3, <1>7, <2>1, <2>2 DEF CountSaves, Saved
    <3> QED
      BY <1>7, <3>1, StepPreserves DEF CountSaves, RestInv
  <2>3. CASE ~Current(t)
    <3>1. Moved
      BY <1>1, <1>3, <1>7, <2>3, TriesAgainMoves DEF CountSaves, Moved, MayAsk, Step
    <3> QED
      BY <1>7, <3>1, StepPreserves DEF CountSaves, RestInv
  <2> QED
    BY <2>2, <2>3
<1> QED
  BY <1>5, <1>6, <1>7

(* A question that is asked preserves the invariant: there was one left.   *)
LEMMA AsksPreserves ==
  ASSUME IInv, NEW t \in Task, Asks(t)
  PROVE  IInv'
<1> USE DEF IInv
<1> DEFINE i == task[t].s
           asking == [session[i] EXCEPT !.planner.thread = TRUE,
                                        !.clock = releasedSessionClock(session[i])]
<1>1. task[t].step = "PLAN_ASK" /\ task[t].step # "IDLE"
  BY DEF Asks, Doing
<1>2. i \in Interview /\ session[i] \in SoundSession /\ session[i].planner \in Planner
  BY <1>1, Busy DEF CoreInv, SoundSession, Session
<1>3. CASE Current(t)
  <2>1. asking \in SoundSession
    <3> DEFINE p == [session[i].planner EXCEPT !.thread = TRUE]
    <3>1. p \in Planner /\ p.roundIdx = session[i].planner.roundIdx
      BY <1>2 DEF Planner
    <3>2. [session[i] EXCEPT !.clock = releasedSessionClock(session[i])] \in SoundSession
      BY <1>2, ReleasedSound
    <3>3. asking = [[session[i] EXCEPT !.clock = releasedSessionClock(session[i])]
                     EXCEPT !.planner = p]
      BY <1>2 DEF SoundSession, Session
    <3>4. [session[i] EXCEPT !.clock = releasedSessionClock(session[i])].planner
            = session[i].planner
      BY <1>2 DEF SoundSession, Session
    <3> HIDE DEF p
    <3> QED
      BY <3>1, <3>2, <3>3, <3>4, PlannerSound
  <2>2. seq[i] < MaxQuestions
    BY <1>1, <1>3 DEF AskInv, MayAsk, Current
  <2>3. RestInv'
    <3>1. seq[i] + 1 \in 0..MaxQuestions
      BY <1>2, <2>2, InterviewAssumption DEF RestInv
    <3> QED
      BY <1>2, <1>3, <3>1, UnlockedTyped DEF Asks, RestInv
  <2>4. SaveTask(t, i, asking, Idle) /\ seq' = [seq EXCEPT ![i] = @ + 1]
    BY <1>3 DEF Asks
  <2> HIDE DEF asking, i
  <2>5. CoreInv' /\ \A u \in Task : task'[u] = IF u = t THEN Idle ELSE Outdated(u, i)
    BY <1>2, <2>1, <2>4, IdleTyped, SaveTaskEffect
  <2>6. AskInv'
    <3> SUFFICES ASSUME NEW u \in Task, task'[u].step = "PLAN_ASK", task'[u].fresh
                 PROVE  seq'[task'[u].s] < MaxQuestions
      BY DEF AskInv, MayAsk
    <3>1. u # t
      BY <2>5 DEF Idle
    <3>2. task'[u] = Outdated(u, i)
      BY <2>5, <3>1
    <3>5. /\ Outdated(u, i).step = task[u].step /\ Outdated(u, i).s = task[u].s
          /\ Outdated(u, i).fresh => task[u].fresh /\ task[u].s # i
      BY <1>2, OutdatedTyped
    <3>3. task[u].step = "PLAN_ASK" /\ task[u].fresh /\ task[u].s = task'[u].s /\ task[u].s # i
      BY <3>2, <3>5
    <3>4. seq'[task'[u].s] = seq[task[u].s]
      BY <2>4, <3>3, Busy DEF RestInv
    <3> QED
      BY <3>3, <3>4 DEF AskInv, MayAsk
  <2> QED
    BY <2>3, <2>5, <2>6
<1>4. CASE ~Current(t)
  <2>1. Then(t, "READ") \in TaskType /\ Then(t, "READ").step # "PLAN_ASK"
    BY <1>1, ThenTyped DEF Step
  <2>2. Moved
    BY <1>4, <2>1 DEF Asks, Moved, MayAsk
  <2> QED
    BY <1>4, <2>2, StepPreserves DEF Asks, RestInv
<1> QED
  BY <1>3, <1>4

(* Every step of a turn preserves the invariant.                           *)
LEMMA TurningPreserves ==
  ASSUME IInv, NEW t \in Task, Turning(t)
  PROVE  IInv'
BY AnsweringPreserves, AdvancingPreserves, AssessingPreserves, AsksPreserves DEF Turning

-------------------------------------------------------------------------------
(* Handlers that begin, time, the sweep and faults.                        *)

(* A step that leaves the tasks alone and keeps the types preserves it.    *)
LEMMA QuietPreserves ==
  ASSUME IInv, session' \in [Interview -> SoundSession],
         overdue' \in [Interview -> BOOLEAN], sweep' \in [Interview -> SweepType],
         task' = task, seq' = seq, RestInv'
  PROVE  IInv'
BY DEF IInv, CoreInv, AskInv, MayAsk

(* Every request that begins preserves the invariant.                      *)
LEMMA BeginsPreserves ==
  ASSUME IInv, NEW t \in Task, NEW i \in Interview, Begins(t, i)
  PROVE  IInv'
<1> USE DEF IInv
<1>1. CASE AnalyzeBegins(t, i) \/ CancelBegins(t, i) \/ SetupBegins(t, i) \/ StartBegins(t, i)
  BY <1>1, RequestPreserves DEF AnalyzeBegins, CancelBegins, SetupBegins, StartBegins
<1>2. \A op \in {"END", "JOIN", "ANSWER", "ADVANCE"},
         step \in {"FINISH", "DECIDED", "SAVE_ANSWER", "READ"} :
        At(op, step, i, TRUE) \in TaskType /\ MayAsk(At(op, step, i, TRUE))
  <2> SUFFICES ASSUME NEW op \in {"END", "JOIN", "ANSWER", "ADVANCE"},
                      NEW step \in {"FINISH", "DECIDED", "SAVE_ANSWER", "READ"}
               PROVE  At(op, step, i, TRUE) \in TaskType /\ MayAsk(At(op, step, i, TRUE))
    OBVIOUS
  <2>1. op \in Operation /\ step \in Step /\ TRUE \in BOOLEAN
    BY DEF Operation, Step
  <2>2. At(op, step, i, TRUE) \in TaskType /\ At(op, step, i, TRUE).step = step
    BY <2>1, AtTyped
  <2> QED
    BY <2>2 DEF MayAsk
<1>3. CASE EndBegins(t, i)
  <2>1. Moved
    BY <1>2, <1>3 DEF EndBegins, Moved
  <2> QED
    BY <1>3, <2>1, StepPreserves DEF EndBegins, RestInv
<1>4. CASE JoinBegins(t, i)
  <2>1. CASE session[i].state \in {"RECONNECTING", "PAUSED"}
    <3>1. Moved
      BY <1>2, <1>4, <2>1 DEF JoinBegins, Moved
    <3> QED
      BY <1>4, <2>1, <3>1, StepPreserves DEF JoinBegins, RestInv
  <2>2. CASE session[i].state \notin {"RECONNECTING", "PAUSED"}
    <3>1. overdue' \in [Interview -> BOOLEAN]
      <4>1. \A b, c \in BOOLEAN : (b /\ c) \in BOOLEAN
        OBVIOUS
      <4>2. (session[i].state = "COMPLETING") \in BOOLEAN
        OBVIOUS
      <4> QED
        BY <1>4, <2>2, <4>1, <4>2 DEF JoinBegins, CoreInv
    <3>2. RestInv'
      BY <1>4, <2>2 DEF JoinBegins, RestInv, Kick
    <3> QED
      BY <1>4, <2>2, <3>1, <3>2, QuietPreserves DEF JoinBegins, CoreInv
  <2> QED
    BY <2>1, <2>2
<1>5. CASE AnswerBegins(t, i)
  <2>1. Moved
    BY <1>2, <1>5 DEF AnswerBegins, Moved
  <2> QED
    BY <1>5, <2>1, StepPreserves DEF AnswerBegins, RestInv
<1>6. CASE AdvanceBegins(t, i)
  <2>1. Moved
    BY <1>2, <1>6 DEF AdvanceBegins, Moved
  <2> QED
    BY <1>6, <2>1, StepPreserves DEF AdvanceBegins, RestInv
<1> QED
  BY <1>1, <1>3, <1>4, <1>5, <1>6 DEF Begins

(* A replica that dies loses its task and nothing else.                    *)
LEMMA ReplicaDiesPreserves ==
  ASSUME IInv, NEW t \in Task, ReplicaDies(t)
  PROVE  IInv'
<1>1. Moved
  BY IdleTyped DEF ReplicaDies, Moved, MayAsk
<1>2. RestInv' /\ seq' = seq
  BY DEF IInv, ReplicaDies, RestInv
<1> QED
  BY <1>1, <1>2, StepPreserves

(* Time that passes changes which deadlines are over, and nothing else.    *)
LEMMA TickPreserves ==
  ASSUME IInv, NEW i \in Interview, Tick(i)
  PROVE  IInv'
<1> USE DEF IInv
<1> DEFINE c == session[i].clock
           ticked == [session[i] EXCEPT !.clock = Ticked(@)]
<1>1. session[i] \in Session /\ StateInv(session[i]) /\ c \in Clock
  BY DEF CoreInv, SoundSession, Session
<1>2. c.active + 1 \in 0..Budget
  BY <1>1, SessionAssumption DEF Tick, isTimeUp, Clock
<1>3. Ticked(c) \in Clock /\ Ticked(c).running = c.running /\ Ticked(c).held = c.held
  BY <1>1, <1>2 DEF Ticked, Clock
<1>4. ticked \in SoundSession
  BY <1>1, <1>3 DEF SoundSession, Session, StateInv
<1>5. session' = [session EXCEPT ![i] = ticked]
  BY DEF Tick
<1> HIDE DEF ticked
<1>6. session' \in [Interview -> SoundSession]
  BY <1>4, <1>5 DEF CoreInv
<1> QED
  BY <1>6, QuietPreserves DEF Tick, CoreInv, RestInv

(* Every step of the worker and its sweep preserves the invariant.         *)
LEMMA SweepPreserves ==
  ASSUME IInv, NEW i \in Interview,
         \/ AnalysisEnds(i) \/ EvaluationCompleted(i) \/ SweepFinds(i)
         \/ SweepApplies(i) \/ SweepProcesses(i) \/ WorkerDies(i)
  PROVE  IInv'
<1> USE DEF IInv
<1>1. session[i] \in SoundSession
  BY DEF CoreInv
<1>2. [sweep[i] EXCEPT !.fresh = FALSE] \in SweepType /\ Idling \in SweepType
  BY DEF CoreInv, SweepType, Idling
<1>3. CASE AnalysisEnds(i)
  <2>1. PICK to \in {"READY", "FAILED"} :
          \E new \in transitionSession(session[i], "ROLE_ANALYSIS", to) :
            SaveWorker(i, new, [sweep[i] EXCEPT !.fresh = FALSE])
    BY <1>3 DEF AnalysisEnds
  <2>2. PICK new \in transitionSession(session[i], "ROLE_ANALYSIS", to) :
          SaveWorker(i, new, [sweep[i] EXCEPT !.fresh = FALSE])
    BY <2>1
  <2>3. new \in SoundSession
    BY <1>1, TransitionKeepsSession DEF NotStarted, PRE_START_STATES
  <2>4. SavedByWorker
    BY <1>2, <2>2, <2>3 DEF SavedByWorker
  <2> QED
    BY <1>3, <2>4, StepPreserves DEF AnalysisEnds, RestInv
<1>4. CASE EvaluationCompleted(i)
  <2>1. SavedByWorker
    BY <1>1, <1>2, <1>4, EventKeepsSession DEF EvaluationCompleted, SavedByWorker, Payers
  <2> QED
    BY <1>4, <2>1, StepPreserves DEF EvaluationCompleted, RestInv
<1>5. CASE SweepFinds(i)
  <2>1. sweep' \in [Interview -> SweepType]
    BY <1>5 DEF SweepFinds, CoreInv, SweepType
  <2> QED
    BY <1>5, <2>1, QuietPreserves DEF SweepFinds, CoreInv, RestInv
<1>6. CASE SweepApplies(i)
  <2>1. RestInv' /\ seq' = seq
    BY <1>6, ReturnedTyped DEF SweepApplies, RestInv
  <2>2. CASE \E new \in Swept(i) :
               SaveWorker(i, new,
                 IF new.state = "EXPIRED" THEN [step |-> "PROCESS", fresh |-> FALSE] ELSE Idling)
    <3>1. ASSUME NEW new \in Swept(i) PROVE new \in SoundSession
      BY <1>1, EventKeepsSession DEF Swept, SweepEvent, Payers
    <3>2. [step |-> "PROCESS", fresh |-> FALSE] \in SweepType
      BY DEF SweepType
    <3>3. SavedByWorker
      BY <1>2, <2>2, <3>1, <3>2 DEF SavedByWorker
    <3> QED
      BY <2>1, <3>3, StepPreserves
  <2>3. CASE sweep' = [sweep EXCEPT ![i] = Idling] /\ UNCHANGED <<session, overdue, task>>
    BY <1>2, <2>1, <2>3, QuietPreserves DEF CoreInv
  <2> QED
    BY <1>6, <2>2, <2>3 DEF SweepApplies
<1>7. CASE SweepProcesses(i)
  <2>1. CASE \E new \in applySessionEvent(session[i], "PROCESS", "FREE") :
               SaveWorker(i, new, Idling)
    <3>1. SavedByWorker
      BY <1>1, <1>2, <2>1, EventKeepsSession DEF SavedByWorker, Payers
    <3> QED
      BY <1>7, <3>1, StepPreserves DEF SweepProcesses, RestInv
  <2>2. CASE sweep' = [sweep EXCEPT ![i] = Idling] /\ UNCHANGED <<session, overdue, task>>
    BY <1>2, <1>7, <2>2, QuietPreserves DEF SweepProcesses, CoreInv, RestInv
  <2> QED
    BY <1>7, <2>1, <2>2 DEF SweepProcesses
<1>8. CASE WorkerDies(i)
  BY <1>2, <1>8, QuietPreserves DEF WorkerDies, CoreInv, RestInv
<1> QED
  BY <1>3, <1>4, <1>5, <1>6, <1>7, <1>8

(* Everything that happens to an interview without a task preserves it.    *)
LEMMA HappensPreserves ==
  ASSUME IInv, NEW i \in Interview, Happens(i)
  PROVE  IInv'
<1> USE DEF IInv
<1>1. CASE GetReady(i)
  BY <1>1, QuietPreserves DEF GetReady, CoreInv, RestInv
<1>2. CASE SocketCloses(i)
  <2>1. RestInv' /\ seq' = seq
    BY <1>2 DEF SocketCloses, RestInv
  <2>2. CASE \E t \in Task : IsFree(t, "GONE") /\ Goto(t, At("GONE", "FETCH", i, FALSE))
    <3>1. "GONE" \in Operation /\ "FETCH" \in Step /\ FALSE \in BOOLEAN
      BY DEF Operation, Step
    <3>2. At("GONE", "FETCH", i, FALSE) \in TaskType
          /\ At("GONE", "FETCH", i, FALSE).step = "FETCH"
      BY <3>1, AtTyped
    <3>3. Moved
      BY <2>2, <3>2 DEF Moved, MayAsk
    <3> QED
      BY <2>1, <3>3, StepPreserves
  <2>3. CASE UNCHANGED <<session, overdue, task, sweep>>
    BY <2>1, <2>3, QuietPreserves DEF CoreInv
  <2> QED
    BY <1>2, <2>2, <2>3 DEF SocketCloses
<1>3. CASE Heartbeat(i)
  <2>1. kicked' \in [Interview -> BOOLEAN]
    <3>1. \A b, c \in BOOLEAN : (b \/ c) \in BOOLEAN
      OBVIOUS
    <3>2. (lock[i] = "FREE" /\ toAdvance(session[i])) \in BOOLEAN
      OBVIOUS
    <3> QED
      BY <1>3, <3>1, <3>2 DEF Heartbeat, RestInv
  <2>2. RestInv' /\ overdue' \in [Interview -> BOOLEAN]
    BY <1>3, <2>1 DEF Heartbeat, RestInv, CoreInv
  <2> QED
    BY <1>3, <2>2, QuietPreserves DEF Heartbeat, CoreInv
<1>4. CASE AnswerResent(i)
  BY <1>4, QuietPreserves DEF AnswerResent, Kick, CoreInv, RestInv
<1>5. CASE KickLost(i)
  BY <1>5, QuietPreserves DEF KickLost, CoreInv, RestInv
<1>6. CASE Elapse(i)
  BY <1>6, QuietPreserves DEF Elapse, CoreInv, RestInv
<1>7. CASE LockExpires(i)
  BY <1>7, QuietPreserves DEF LockExpires, CoreInv, RestInv
<1> QED
  BY <1>1, <1>2, <1>3, <1>4, <1>5, <1>6, <1>7, TickPreserves, SweepPreserves DEF Happens

(* The invariant holds initially.                                          *)
LEMMA InitIInv == Init => IInv
<1> SUFFICES ASSUME Init PROVE IInv
  OBVIOUS
<1>1. \A state \in {"DRAFT", "READY"} : NewSession(state, "TEXT") \in SoundSession
  <2> SUFFICES ASSUME NEW state \in {"DRAFT", "READY"}
               PROVE  NewSession(state, "TEXT") \in SoundSession
    OBVIOUS
  <2>1. createPlanner \in Planner
    BY SessionAssumption DEF createPlanner, Planner, RoundState
  <2>2. [active |-> 0, running |-> FALSE, held |-> FALSE] \in Clock
    BY SessionAssumption DEF Clock
  <2>3. NewSession(state, "TEXT") \in Session
    BY <2>1, <2>2 DEF NewSession, Session, InterviewState, PRE_START_STATES, Mode, CreditStatus,
         ResumeTarget
  <2>4. StateInv(NewSession(state, "TEXT"))
    BY DEF StateInv, NewSession, createPlanner, NotStarted, PRE_START_STATES,
         IN_PROGRESS_STATES, LIVE_STATES
  <2> QED
    BY <2>3, <2>4 DEF SoundSession
<1>2. CoreInv
  BY <1>1, IdleTyped DEF Init, CoreInv, Idling, SweepType
<1>3. RestInv
  BY InterviewAssumption DEF Init, RestInv
<1>4. AskInv
  BY DEF Init, AskInv, MayAsk, Idle
<1> QED
  BY <1>2, <1>3, <1>4 DEF IInv

(* Every step preserves the invariant.                                     *)
LEMMA NextIInv == IInv /\ [Next]_vars => IInv'
<1> SUFFICES ASSUME IInv, [Next]_vars PROVE IInv'
  OBVIOUS
<1>1. CASE Next
  BY <1>1, PreparingPreserves, RunningPreserves, TurningPreserves, ReplicaDiesPreserves,
     BeginsPreserves, HappensPreserves DEF Next
<1>2. CASE UNCHANGED vars
  BY <1>2 DEF vars, IInv, CoreInv, RestInv, AskInv, MayAsk
<1> QED
  BY <1>1, <1>2

(* The inductive invariant holds in every reachable state, for any         *)
(* interviews, handlers, faults and bounds.                                *)
THEOREM InductiveInvariant == Spec => []IInv
<1> QED
  BY InitIInv, NextIInv, PTL DEF Spec

-------------------------------------------------------------------------------

(* Every session, handler, lock and counter always has its type.           *)
THEOREM TypeCorrect == Spec => []TypeOK
<1>1. IInv => TypeOK
  BY DEF IInv, CoreInv, RestInv, TypeOK, TaskType, SweepType, SoundSession
<1> QED
  BY <1>1, InductiveInvariant, PTL

(* Whatever replicas, sweeps and crashes do, a credit is RESERVED only by  *)
(* an interview that is in progress.                                       *)
THEOREM NoHoldLeftBehind == Spec => []HeldOnlyInProgress
<1>1. IInv => HeldOnlyInProgress
  BY DEF IInv, CoreInv, SoundSession, StateInv, HeldOnlyInProgress
<1> QED
  BY <1>1, InductiveInvariant, PTL

(* The clock runs exactly while the interview is live and nobody holds it, *)
(* in whatever order it is held, released, paused and resumed.             *)
THEOREM ClockAlwaysRight == Spec => []ClockRunsWhileLive
<1>1. IInv => ClockRunsWhileLive
  BY DEF IInv, CoreInv, SoundSession, StateInv, ClockRunsWhileLive
<1> QED
  BY <1>1, InductiveInvariant, PTL

-------------------------------------------------------------------------------
(* What an event does to the plan.                                         *)

(* At most the current round is under way, and nothing is remembered of an *)
(* interview that has not started or is live.                              *)
PlanBase(s) ==
  /\ \A r \in 1..Rounds : s.planner.rounds[r] = "ACTIVE" => r = s.planner.roundIdx
  /\ s.state \in NotStarted \cup LIVE_STATES => s.resumeTo = "NONE"

(* What PlanFollowsState says of one session.                              *)
Open(p, state) ==
  IF state = "ACTIVE" THEN p.roundIdx > 0 /\ p.rounds[p.roundIdx] = "ACTIVE"
  ELSE hasNextRound(p) /\ \A r \in 1..Rounds : p.rounds[r] # "ACTIVE"

Planned(s) ==
  /\ s.state \in LIVE_STATES => Open(s.planner, s.state)
  /\ s.state \in {"RECONNECTING", "PAUSED"} =>
       s.resumeTo # "NONE" /\ Open(s.planner, s.resumeTo)
  /\ s.state = "COMPLETING" =>
       \A r \in 1..Rounds : s.planner.rounds[r] \notin {"PENDING", "ACTIVE"}

Planning == {"START_NEXT_ROUND", "END_ROUND", "REMEMBER_RESUME_TARGET"}

Interrupted == {"RECONNECTING", "PAUSED"}

(* What the proofs need to know of what a row does to the plan.            *)
StartsRound(r) ==
  /\ r.from \in {{"READY_TO_START"}, {"ROUND_TRANSITION"}} /\ r.to = "ACTIVE"
  /\ r.event \in {"START", "NEXT_ROUND"}
  /\ r.effects \cap Planning = {"START_NEXT_ROUND"}

EndsRound(r, ctx) ==
  /\ r.from = {"ACTIVE"} /\ r.to = "ROUND_TRANSITION" /\ ctx.hasNextRound
  /\ r.effects \cap Planning = {"END_ROUND"}

EndsRounds(r) ==
  /\ r.from \subseteq IN_PROGRESS_STATES /\ r.to = "COMPLETING"
  /\ r.effects \cap Planning = {"END_ROUND"}

Interrupts(r) ==
  /\ r.from = LIVE_STATES /\ r.to = "RECONNECTING" /\ r.event = "DISCONNECTED"
  /\ r.effects \cap Planning = {"REMEMBER_RESUME_TARGET"}

Sleeps(r) ==
  /\ r.from = {"RECONNECTING"} /\ r.to = "PAUSED" /\ r.event = "GRACE_EXPIRED"
  /\ r.effects \cap Planning = {}

Resumes(r, ctx) ==
  /\ r.from \subseteq Interrupted /\ r.to = ctx.resumeTo /\ ctx.resumeTo # "NONE"
  /\ r.event \in {"RECONNECTED", "RESUME"}
  /\ r.effects \cap Planning = {}

Elsewhere(r) ==
  /\ r.to \notin IN_PROGRESS_STATES
  /\ r.effects \cap Planning = {}
  /\ r.to \in NotStarted => r.from \subseteq NotStarted \ {"CANCELLED"}
  /\ r.to = "EXPIRED" => r.event = "RESUME_WINDOW_EXPIRED"

(* Every row of the table but FAIL is of one of the seven kinds.           *)
LEMMA PlanRows ==
  ASSUME NEW ctx \in SessionContext, NEW r \in Rows(ctx), NEW state \in r.from, r.event # "FAIL"
  PROVE  \/ StartsRound(r) \/ EndsRound(r, ctx) \/ EndsRounds(r) \/ Interrupts(r)
         \/ Sleeps(r) \/ Resumes(r, ctx) \/ Elsewhere(r)
<1> USE DEF Row, When, LIVE_STATES, IN_PROGRESS_STATES, Planning
<1>1. CASE r \in PreStartRows(ctx)
  <2>1. StartsRound(r) \/ Elsewhere(r)
    BY <1>1 DEF PreStartRows, NotStarted, PRE_START_STATES, afterDeviceCheck, StartsRound,
         Elsewhere
  <2> QED
    BY <2>1
<1>2. CASE r \in LiveRows(ctx)
  BY <1>2 DEF LiveRows, Interrupted, StartsRound, EndsRound, EndsRounds, Interrupts, Sleeps,
       Resumes
<1>3. CASE r \in EndRows(ctx)
  <2>1. EndsRounds(r) \/ Elsewhere(r)
    BY <1>3 DEF EndRows, settle, NotStarted, PRE_START_STATES, EndsRounds, Elsewhere
  <2> QED
    BY <2>1
<1>4. r \notin FailRows(ctx)
  BY DEF FailRows
<1> QED
  BY <1>1, <1>2, <1>3, <1>4 DEF Rows

(* Ending the current round leaves none under way,                         *)
LEMMA RoundEnds ==
  ASSUME NEW p \in Planner, NEW outcome \in RoundState, outcome # "ACTIVE",
         \A r \in 1..Rounds : p.rounds[r] = "ACTIVE" => r = p.roundIdx
  PROVE  \A r \in 1..Rounds : endCurrentRound(p, outcome).rounds[r] # "ACTIVE"
<1>1. CASE p.roundIdx > 0 /\ p.rounds[p.roundIdx] = "ACTIVE"
  <2>1. endCurrentRound(p, outcome).rounds = [p.rounds EXCEPT ![p.roundIdx] = outcome]
    BY <1>1 DEF endCurrentRound, Planner
  <2>2. p.rounds \in [1..Rounds -> RoundState]
    BY DEF Planner
  <2> QED
    BY <2>1, <2>2
<1>2. CASE ~(p.roundIdx > 0 /\ p.rounds[p.roundIdx] = "ACTIVE")
  <2>1. endCurrentRound(p, outcome) = p
    BY <1>2 DEF endCurrentRound
  <2>2. \A r \in 1..Rounds : r > 0
    BY SessionAssumption
  <2> QED
    BY <1>2, <2>1, <2>2 
<1> QED
  BY <1>1, <1>2

(* and starting the next leaves exactly that one.                          *)
LEMMA RoundStarts ==
  ASSUME NEW p \in Planner, hasNextRound(p),
         \A r \in 1..Rounds : p.rounds[r] = "ACTIVE" => r = p.roundIdx
  PROVE  LET q == startNextRound(p)
         IN /\ q.roundIdx > 0 /\ q.rounds[q.roundIdx] = "ACTIVE"
            /\ \A r \in 1..Rounds : q.rounds[r] = "ACTIVE" => r = q.roundIdx
<1> DEFINE e == endCurrentRound(p, "COMPLETED")
           n == p.roundIdx + 1
<1>1. e \in Planner /\ \A r \in 1..Rounds : e.rounds[r] # "ACTIVE"
  BY EndRoundTyped, RoundEnds DEF RoundState
<1>2. n \in 1..Rounds
  BY SessionAssumption DEF hasNextRound, Planner
<1>3. startNextRound(p) = [e EXCEPT !.rounds[n] = "ACTIVE", !.roundIdx = n, !.thread = FALSE]
  BY DEF startNextRound
<1> HIDE DEF e, n
<1>4. /\ startNextRound(p).rounds = [e.rounds EXCEPT ![n] = "ACTIVE"]
      /\ startNextRound(p).roundIdx = n
  BY <1>1, <1>3 DEF Planner
<1>5. e.rounds \in [1..Rounds -> RoundState] /\ n > 0
  BY <1>1, <1>2, SessionAssumption DEF Planner
<1> QED
  BY <1>1, <1>2, <1>4, <1>5

(* The plan agrees with the state after any event on a session of which it *)
(* did before, or whose round its handler has just ended.                  *)
LEMMA EventKeepsPlan ==
  ASSUME NEW s \in SoundSession, NEW event, event # "FAIL", NEW payer \in Payers,
         PlanBase(s), Planned(s) \/ event = "ROUND_ENDED",
         NEW new \in applySessionEvent(s, event, payer)
  PROVE  PlanBase(new) /\ Planned(new)
<1> DEFINE ctx == sessionContext(s)
<1>0. s \in Session /\ StateInv(s) /\ s.planner \in Planner
  BY DEF SoundSession, Session
<1>1. PICK r \in transition(s.state, event, ctx) :
        new = [s EXCEPT !.state    = r.to,
                        !.credit   = creditAfter(s, r.effects, payer),
                        !.resumeTo = resumeToAfter(s, r),
                        !.planner  = plannerAfter(s, r),
                        !.clock    = clockAfter(s, r.effects)]
  BY DEF applySessionEvent
<1>2. r \in Rows(ctx) /\ r.event = event /\ s.state \in r.from
  BY <1>1 DEF transition
<1>3. \/ StartsRound(r) \/ EndsRound(r, ctx) \/ EndsRounds(r) \/ Interrupts(r)
      \/ Sleeps(r) \/ Resumes(r, ctx) \/ Elsewhere(r)
  BY <1>0, <1>2, ContextTyped, PlanRows
<1>4. new.state = r.to /\ new.resumeTo = resumeToAfter(s, r) /\ new.planner = plannerAfter(s, r)
  BY <1>0, <1>1 DEF Session
<1>5. ctx.hasNextRound <=> hasNextRound(s.planner)
  BY <1>0, ContextTyped
<1>6. ctx.resumeTo = s.resumeTo
  BY DEF sessionContext
<1> HIDE DEF ctx
<1>7. \A o \in {"TIMED_OUT", "COMPLETED"} :
        /\ endCurrentRound(s.planner, o) \in Planner
        /\ endCurrentRound(s.planner, o).roundIdx = s.planner.roundIdx
        /\ \A k \in 1..Rounds : endCurrentRound(s.planner, o).rounds[k] # "ACTIVE"
  BY <1>0, EndRoundTyped, RoundEnds DEF RoundState, PlanBase
<1>8. CASE StartsRound(r)
  <2>1. hasNextRound(s.planner) /\ s.resumeTo = "NONE"
    <3>1. CASE s.state = "READY_TO_START"
      BY <1>0, <3>1, SessionAssumption
         DEF StateInv, PlanBase, NotStarted, PRE_START_STATES, hasNextRound
    <3>2. CASE s.state = "ROUND_TRANSITION"
      <4>1. Planned(s)
        BY <1>2, <1>8 DEF StartsRound
      <4> QED
        BY <3>2, <4>1 DEF PlanBase, Planned, Open, LIVE_STATES
    <3> QED
      BY <1>2, <1>8, <3>1, <3>2 DEF StartsRound
  <2>2. new.planner = startNextRound(s.planner) /\ new.resumeTo = s.resumeTo
    BY <1>2, <1>4, <1>8
       DEF StartsRound, plannerAfter, resumeToAfter, Planning
  <2>3. LET q == startNextRound(s.planner)
        IN /\ q.roundIdx > 0 /\ q.rounds[q.roundIdx] = "ACTIVE"
           /\ \A k \in 1..Rounds : q.rounds[k] = "ACTIVE" => k = q.roundIdx
    BY <1>0, <2>1, RoundStarts DEF PlanBase
  <2> QED
    BY <1>4, <1>8, <2>1, <2>2, <2>3 DEF StartsRound, PlanBase, Planned, Open
<1>9. CASE EndsRound(r, ctx)
  <2>1. new.planner = endCurrentRound(s.planner, "COMPLETED") /\ new.resumeTo = s.resumeTo
    <3>1. r.event # "TIME_UP"
      BY <1>2, <1>9 DEF EndsRound, Rows, PreStartRows, LiveRows, EndRows, FailRows, Row, When
    <3> QED
      BY <1>2, <1>4, <1>9, <3>1 DEF EndsRound, plannerAfter, resumeToAfter, Planning
  <2>2. s.resumeTo = "NONE"
    BY <1>2, <1>9 DEF EndsRound, PlanBase, LIVE_STATES
  <2> QED
    BY <1>4, <1>5, <1>7, <1>9, <2>1, <2>2
       DEF EndsRound, PlanBase, Planned, Open, hasNextRound
<1>10. CASE EndsRounds(r)
  <2>1. PICK o \in {"TIMED_OUT", "COMPLETED"} :
          new.planner = skipRemainingRounds(endCurrentRound(s.planner, o))
    BY <1>4, <1>10 DEF EndsRounds, plannerAfter, Planning
  <2> DEFINE e == endCurrentRound(s.planner, o)
  <2>2. e \in Planner /\ \A k \in 1..Rounds : e.rounds[k] # "ACTIVE"
    BY <1>7
  <2> HIDE DEF e
  <2>3. \A k \in 1..Rounds : skipRemainingRounds(e).rounds[k] \notin {"PENDING", "ACTIVE"}
    BY <2>2 DEF skipRemainingRounds, Planner
  <2> QED
    BY <1>4, <1>10, <2>1, <2>3
       DEF EndsRounds, PlanBase, Planned, NotStarted, PRE_START_STATES, LIVE_STATES, e
<1>11. CASE Interrupts(r)
  <2>1. new.planner = s.planner /\ new.resumeTo = s.state /\ s.state \in LIVE_STATES
    <3>1. /\ "REMEMBER_RESUME_TARGET" \in r.effects /\ "START_NEXT_ROUND" \notin r.effects
          /\ "END_ROUND" \notin r.effects /\ r.to = "RECONNECTING"
      BY <1>11 DEF Interrupts, Planning
    <3>2. s.state \in LIVE_STATES
      BY <1>2, <1>11 DEF Interrupts
    <3> QED
      BY <1>4, <3>1, <3>2 DEF plannerAfter, resumeToAfter, LIVE_STATES
  <2>2. Planned(s)
    BY <1>2, <1>11 DEF Interrupts
  <2> QED
    BY <1>4, <1>11, <2>1, <2>2
       DEF Interrupts, PlanBase, Planned, NotStarted, PRE_START_STATES, LIVE_STATES
<1>12. CASE Sleeps(r)
  <2>1. new.planner = s.planner /\ new.resumeTo = s.resumeTo /\ s.state = "RECONNECTING"
    BY <1>2, <1>4, <1>12 DEF Sleeps, plannerAfter, resumeToAfter, Planning, LIVE_STATES
  <2>2. Planned(s)
    BY <1>2, <1>12 DEF Sleeps
  <2> QED
    BY <1>4, <1>12, <2>1, <2>2
       DEF Sleeps, PlanBase, Planned, NotStarted, PRE_START_STATES, LIVE_STATES
<1>13. CASE Resumes(r, ctx)
  <2>1. Planned(s) /\ s.state \in Interrupted /\ r.to = s.resumeTo /\ r.to \in LIVE_STATES
    <3>1. s.resumeTo \in ResumeTarget
      BY <1>0 DEF Session
    <3> QED
      BY <1>2, <1>6, <1>13, <3>1 DEF Resumes, ResumeTarget
  <2>2. new.planner = s.planner /\ new.resumeTo = "NONE"
    BY <1>4, <1>13, <2>1
       DEF Resumes, plannerAfter, resumeToAfter, Planning, LIVE_STATES, Interrupted
  <2> QED
    BY <1>4, <2>1, <2>2
       DEF PlanBase, Planned, NotStarted, PRE_START_STATES, LIVE_STATES, Interrupted
<1>14. CASE Elsewhere(r)
  <2>1. new.planner = s.planner /\ new.resumeTo = s.resumeTo
    BY <1>4, <1>14 DEF Elsewhere, plannerAfter, resumeToAfter, Planning, IN_PROGRESS_STATES
  <2> QED
    BY <1>2, <1>4, <1>14, <2>1
       DEF Elsewhere, PlanBase, Planned, NotStarted, PRE_START_STATES, IN_PROGRESS_STATES,
           LIVE_STATES
<1> QED
  BY <1>3, <1>8, <1>9, <1>10, <1>11, <1>12, <1>13, <1>14

-------------------------------------------------------------------------------
(* What an event does to the promise.                                      *)

(* The session new keeps the promise that s was about, or moves it on the  *)
(* way that InterviewPromise allows.                                       *)
Fits(s, new) ==
  \/ phaseOf(new) = phaseOf(s) /\ holdOf(new) = holdOf(s)
  \/ /\ phaseOf(s) = "PREPARING" /\ phaseOf(new) = "CANCELLED"
     /\ holdOf(new) = holdOf(s)
  \/ /\ phaseOf(s) = "PREPARING" /\ phaseOf(new) = "RUNNING"
     /\ holdOf(s) = "NONE" /\ holdOf(new) \in {"NONE", "RESERVED"}
  \/ /\ phaseOf(s) = "RUNNING" /\ phaseOf(new) = "OVER"
     /\ \/ holdOf(s) = "NONE" /\ holdOf(new) = "NONE"
        \/ holdOf(s) = "RESERVED" /\ holdOf(new) \in {"CONSUMED", "REFUNDED"}
  \/ /\ phaseOf(s) = "OVER" /\ phaseOf(new) = "REPORTED"
     /\ holdOf(new) = holdOf(s)

(* Every event keeps or moves the promise; only a start decides who pays;  *)
(* the sleep and the expiry each come of one event.                        *)
LEMMA EventFits ==
  ASSUME NEW s \in SoundSession, NEW event, event # "FAIL", NEW payer \in Payers,
         NEW new \in applySessionEvent(s, event, payer)
  PROVE  /\ Fits(s, new)
         /\ event = "START" => s.state = "READY_TO_START" /\ new.credit = payer
         /\ event # "START" =>
              \/ new.credit = s.credit
              \/ s.credit = "RESERVED" /\ new.credit \in {"CONSUMED", "REFUNDED"}
         /\ new.state = "PAUSED" => event = "GRACE_EXPIRED"
         /\ new.state = "EXPIRED" => event = "RESUME_WINDOW_EXPIRED"
         /\ s.state \notin {"RECONNECTING", "PAUSED"} =>
              event \notin {"GRACE_EXPIRED", "RESUME_WINDOW_EXPIRED"}
         /\ ~returnsSponsorship(s, event)
<1> DEFINE ctx == sessionContext(s)
<1>0. s \in Session /\ StateInv(s)
  BY DEF SoundSession
<1>1. PICK r \in transition(s.state, event, ctx) :
        new = [s EXCEPT !.state    = r.to,
                        !.credit   = creditAfter(s, r.effects, payer),
                        !.resumeTo = resumeToAfter(s, r),
                        !.planner  = plannerAfter(s, r),
                        !.clock    = clockAfter(s, r.effects)]
  BY DEF applySessionEvent
<1>2. r \in Rows(ctx) /\ r.event = event /\ s.state \in r.from
  BY <1>1 DEF transition
<1>3. new.state = r.to /\ new.credit = creditAfter(s, r.effects, payer)
  BY <1>0, <1>1 DEF Session
<1>4. \/ PreStartRow(r) \/ StartRow(r) \/ LiveRow(r, ctx)
      \/ EndRow(r, ctx) \/ AfterRow(r)
  BY <1>0, <1>2, ContextTyped, RowKinds
<1>5. \/ StartsRound(r) \/ EndsRound(r, ctx) \/ EndsRounds(r) \/ Interrupts(r)
      \/ Sleeps(r) \/ Resumes(r, ctx) \/ Elsewhere(r)
  BY <1>0, <1>2, ContextTyped, PlanRows
<1>6. ctx.creditReserved <=> s.credit = "RESERVED"
  BY <1>0, ContextTyped
<1>7. ctx.resumeTo = s.resumeTo /\ s.resumeTo \in ResumeTarget
  BY <1>0 DEF sessionContext, Session
<1>8. ~returnsSponsorship(s, event)
  <2> SUFFICES ASSUME NEW row \in transition(s.state, event, ctx), "REFUND_CREDIT" \in row.effects,
                      s.credit = "SPONSORED"
               PROVE  FALSE
    BY DEF returnsSponsorship
  <2>1. row \in Rows(ctx) /\ row.event = event /\ s.state \in row.from
    BY DEF transition
  <2>2. \/ PreStartRow(row) \/ StartRow(row) \/ LiveRow(row, ctx)
        \/ EndRow(row, ctx) \/ AfterRow(row)
    BY <1>0, <2>1, ContextTyped, RowKinds
  <2> HIDE DEF ctx
  <2> QED
    BY <1>6, <2>2 DEF PreStartRow, StartRow, LiveRow, EndRow, AfterRow, Settling
<1>9. event = "START" <=> StartRow(r)
  BY <1>2 DEF StartRow, Rows, PreStartRows, LiveRows, EndRows, FailRows, Row, When, settle,
       afterDeviceCheck, LIVE_STATES
<1>10. event \in {"GRACE_EXPIRED", "RESUME_WINDOW_EXPIRED"} => r.from \subseteq {"RECONNECTING", "PAUSED"}
  BY <1>2 DEF Rows, PreStartRows, LiveRows, EndRows, FailRows, Row, When
<1> HIDE DEF ctx
<1>11. /\ new.state = "PAUSED" => event = "GRACE_EXPIRED"
       /\ new.state = "EXPIRED" => event = "RESUME_WINDOW_EXPIRED"
  BY <1>2, <1>3, <1>5, <1>7
     DEF StartsRound, EndsRound, EndsRounds, Interrupts, Sleeps, Resumes, Elsewhere,
         ResumeTarget, LIVE_STATES, IN_PROGRESS_STATES
<1>12. CASE PreStartRow(r)
  <2>1. /\ s.state \in NotStarted \ {"CANCELLED"} /\ new.state \in NotStarted
        /\ new.credit = s.credit
    <3>1. new.credit = s.credit
      BY <1>3, <1>12 DEF PreStartRow, creditAfter
    <3>2. s.state # "CANCELLED"
      BY <1>2, <1>5, <1>12
         DEF PreStartRow, StartsRound, EndsRound, EndsRounds, Interrupts, Sleeps, Resumes,
             Elsewhere, Interrupted, LIVE_STATES, IN_PROGRESS_STATES
    <3> QED
      BY <1>2, <1>3, <1>12, <3>1, <3>2 DEF PreStartRow
  <2>2. Fits(s, new)
    BY <2>1 DEF Fits, phaseOf, holdOf, NotStarted, PRE_START_STATES, IN_PROGRESS_STATES,
         LIVE_STATES
  <2>3. ~StartRow(r)
    BY <1>12 DEF PreStartRow, StartRow
  <2> QED
    BY <1>2, <1>8, <1>9, <1>10, <1>11, <2>1, <2>2, <2>3
<1>13. CASE StartRow(r)
  <2>1. s.state = "READY_TO_START" /\ new.state = "ACTIVE" /\ new.credit = payer /\ s.credit = "NONE"
    BY <1>0, <1>2, <1>3, <1>13
       DEF StartRow, creditAfter, StateInv, NotStarted, PRE_START_STATES
  <2>2. Fits(s, new)
    BY <2>1 DEF Fits, phaseOf, holdOf, IN_PROGRESS_STATES, LIVE_STATES, Payers
  <2> QED
    BY <1>2, <1>8, <1>9, <1>10, <1>11, <1>13, <2>1, <2>2
<1>14. CASE LiveRow(r, ctx)
  <2>1. /\ s.state \in IN_PROGRESS_STATES /\ new.state \in IN_PROGRESS_STATES
        /\ new.credit = s.credit
    BY <1>2, <1>3, <1>14 DEF LiveRow, creditAfter, Settling
  <2>2. Fits(s, new)
    BY <2>1 DEF Fits, phaseOf, holdOf, IN_PROGRESS_STATES, LIVE_STATES
  <2>3. ~StartRow(r)
    BY <1>14 DEF LiveRow, StartRow
  <2> QED
    BY <1>2, <1>8, <1>9, <1>10, <1>11, <2>1, <2>2, <2>3
<1>15. CASE EndRow(r, ctx)
  <2>1. /\ s.state \in {"PAUSED", "COMPLETING"} /\ new.state \in {"EXPIRED", "PROCESSING"}
        /\ \/ s.credit = "RESERVED" /\ new.credit \in {"CONSUMED", "REFUNDED"}
           \/ s.credit \in {"FREE", "SPONSORED"} /\ new.credit = s.credit
    <3>1. s.state \in {"PAUSED", "COMPLETING"} /\ new.state \in {"EXPIRED", "PROCESSING"}
      BY <1>2, <1>3, <1>15 DEF EndRow
    <3>2. s.credit \in {"RESERVED", "FREE", "SPONSORED"}
      BY <1>0, <3>1 DEF StateInv, IN_PROGRESS_STATES
    <3> QED
      BY <1>3, <1>6, <1>15, <3>1, <3>2 DEF EndRow, creditAfter, Settling
  <2>2. Fits(s, new)
    BY <2>1 DEF Fits, phaseOf, holdOf, IN_PROGRESS_STATES, LIVE_STATES
  <2>3. ~StartRow(r)
    BY <1>15 DEF EndRow, StartRow
  <2> QED
    BY <1>2, <1>8, <1>9, <1>10, <1>11, <2>1, <2>2, <2>3
<1>16. CASE AfterRow(r)
  <2>1. /\ s.state \in {"EXPIRED", "PROCESSING"} /\ new.state \in {"PROCESSING", "REPORT_READY"}
        /\ new.credit = s.credit
    BY <1>2, <1>3, <1>16 DEF AfterRow, creditAfter
  <2>2. Fits(s, new)
    BY <2>1 DEF Fits, phaseOf, holdOf, IN_PROGRESS_STATES, LIVE_STATES
  <2>3. ~StartRow(r)
    BY <1>16 DEF AfterRow, StartRow
  <2> QED
    BY <1>2, <1>8, <1>9, <1>10, <1>11, <2>1, <2>2, <2>3
<1> QED
  BY <1>4, <1>12, <1>13, <1>14, <1>15, <1>16

-------------------------------------------------------------------------------
(* The second invariant: plans, decisions and finds.                       *)

(* Every interview's plan agrees with its state.                           *)
PlanInv == \A i \in Interview : PlanBase(session[i]) /\ Planned(session[i])

(* What a task has decided to do is still right while nobody has saved the *)
(* session since: a setup is of an interview that is READY, a question is  *)
(* for an active interview that has no open turn.                          *)
Grounded(x) ==
  x.fresh =>
    /\ x.op = "SETUP" /\ x.step = "DECIDED" => session[x.s].state = "READY"
    /\ x.step = "PLAN_ASK" =>
         session[x.s].state = "ACTIVE" /\ turn[x.s] \in {"NONE", "ASSESSED"}

DecidedInv == \A t \in Task : Grounded(task[t])

(* The sweep has found an interruption that is overdue, and still is.      *)
FoundInv ==
  \A i \in Interview :
    sweep[i].fresh /\ session[i].state \in Interrupted => overdue[i]

(* What a save by any handler or sweep has to do with what it replaces.    *)
Paid(s, new, c) ==
  \/ /\ used' = used
     /\ \/ new.credit = s.credit
        \/ s.credit = "RESERVED" /\ new.credit \in {"CONSUMED", "REFUNDED"}
        \/ s.credit = "NONE" /\ new.credit = "FREE"
        \/ s.credit = "NONE" /\ new.credit = "RESERVED" /\ balance(c) > 0
  \/ s.credit = "NONE" /\ new.credit = "SPONSORED" /\ used < Units /\ used' = used + 1

Follows(i, new) ==
  /\ PlanBase(new) /\ Planned(new)
  /\ Fits(session[i], new)
  /\ new.mode = session[i].mode
  /\ new.state # session[i].state /\ new.state \in {"PAUSED", "EXPIRED"} => overdue[i]
  /\ Paid(session[i], new, Owner[i])

Deciding == {"DECIDED", "PLAN_ASK"}

(* A step that saves interview i,                                          *)
Saves(i, new) ==
  /\ session' = [session EXCEPT ![i] = new]
  /\ Follows(i, new)
  /\ \A t \in Task : \/ task'[t] = task[t] /\ task[t].s # i
                     \/ ~task'[t].fresh
                     \/ task'[t].step \notin Deciding
  /\ \A j \in Interview \ {i} :
       /\ turn'[j] = turn[j] /\ seq'[j] = seq[j]
       /\ overdue'[j] = overdue[j] /\ sweep'[j] = sweep[j]
  /\ ~sweep'[i].fresh
  /\ seq'[i] # seq[i] => session[i].state = "ACTIVE" /\ turn[i] \in {"NONE", "ASSESSED"}

(* and a step that saves none, though it may choose the mode of one that   *)
(* has not started, or let its clock tick.                                 *)
Alike(s, new) ==
  /\ new.state = s.state /\ new.credit = s.credit
  /\ new.resumeTo = s.resumeTo /\ new.planner = s.planner
  /\ new.mode # s.mode => s.credit = "NONE"

Steady ==
  /\ \A i \in Interview : Alike(session[i], session'[i])
  /\ used' = used /\ seq' = seq
  /\ \A i \in Interview :
       \/ turn'[i] = turn[i] \/ turn[i] \notin {"NONE", "ASSESSED"} \/ turn'[i] = "ASSESSED"
  /\ \A t \in Task : task'[t] = task[t] \/ Grounded(task'[t])
  /\ \A i \in Interview : session[i].state \in Interrupted /\ overdue[i] => overdue'[i]
  /\ \A i \in Interview : sweep'[i] = sweep[i] \/ ~sweep'[i].fresh \/ overdue'[i]

Outcome ==
  \/ Steady
  \/ \E i \in Interview : \E new \in SoundSession : Saves(i, new)

ActingInv == IInv /\ PlanInv /\ DecidedInv /\ FoundInv

(* A task that saves and goes on without a decision.                       *)
LEMMA TaskSaves ==
  ASSUME IInv, NEW t \in Task, NEW i \in Interview, NEW new \in SoundSession, NEW next,
         next.step \notin Deciding, SaveTask(t, i, new, next), Follows(i, new),
         turn' = turn, seq' = seq
  PROVE  Outcome
<1> USE DEF IInv
<1>1. ASSUME NEW u \in Task
      PROVE  \/ task'[u] = task[u] /\ task[u].s # i
             \/ ~task'[u].fresh
             \/ task'[u].step \notin Deciding
  <2>1. CASE u = t
    BY <2>1 DEF SaveTask
  <2>2. CASE u # t
    <3>1. task'[u] = Outdated(u, i)
      BY <2>2 DEF SaveTask
    <3>2. CASE task[u].s = i
      BY <3>1, <3>2, OutdatedTyped
    <3>3. CASE task[u].s # i
      BY <3>1, <3>3 DEF Outdated
    <3> QED
      BY <3>2, <3>3
  <2> QED
    BY <2>1, <2>2
<1>2. ~sweep'[i].fresh /\ \A j \in Interview \ {i} : sweep'[j] = sweep[j]
  BY DEF SaveTask, CoreInv, SweepType
<1>3. /\ session' = [session EXCEPT ![i] = new]
      /\ \A j \in Interview \ {i} : overdue'[j] = overdue[j]
  BY DEF SaveTask, Write, CoreInv
<1> QED
  BY <1>1, <1>2, <1>3 DEF Saves, Outcome

LEMMA WorkerSaves ==
  ASSUME IInv, NEW i \in Interview, NEW new \in SoundSession, NEW next, ~next.fresh,
         SaveWorker(i, new, next), Follows(i, new), turn' = turn, seq' = seq
  PROVE  Outcome
<1> USE DEF IInv
<1>1. ASSUME NEW u \in Task
      PROVE  \/ task'[u] = task[u] /\ task[u].s # i
             \/ ~task'[u].fresh
    <3>1. task'[u] = Outdated(u, i)
      BY DEF SaveWorker
    <3>2. CASE task[u].s = i
      BY <3>1, <3>2, OutdatedTyped
    <3>3. CASE task[u].s # i
      BY <3>1, <3>3 DEF Outdated
    <3> QED
      BY <3>2, <3>3
<1>2. ~sweep'[i].fresh /\ \A j \in Interview \ {i} : sweep'[j] = sweep[j]
  BY DEF SaveWorker, CoreInv
<1>3. /\ session' = [session EXCEPT ![i] = new]
      /\ \A j \in Interview \ {i} : overdue'[j] = overdue[j]
  BY DEF SaveWorker, Write, CoreInv
<1> QED
  BY <1>1, <1>2, <1>3 DEF Saves, Outcome

(* A task that only goes on.                                               *)
LEMMA TaskGoes ==
  ASSUME IInv, NEW t \in Task, NEW next, Goto(t, next), Grounded(next), 
         turn' = turn, seq' = seq, used' = used
  PROVE  Outcome
BY DEF IInv, CoreInv, Goto, Outcome, Steady, Alike

(* A step that leaves the tasks alone.                                     *)
LEMMA NobodyMoves ==
  ASSUME IInv, session' = session, task' = task, used' = used, seq' = seq, turn' = turn,
         \A i \in Interview : session[i].state \in Interrupted /\ overdue[i] => overdue'[i],
         \A i \in Interview : sweep'[i] = sweep[i] \/ ~sweep'[i].fresh \/ overdue'[i]
  PROVE  Outcome
BY DEF Outcome, Steady, Alike

(* An event that is neither FAIL nor START and is not the sweep's follows. *)
LEMMA EventFollows ==
  ASSUME ActingInv, NEW i \in Interview, NEW event, event \notin {"FAIL", "START"},
         event \in {"GRACE_EXPIRED", "RESUME_WINDOW_EXPIRED"} => sweep[i].fresh,
         NEW payer \in Payers, NEW new \in applySessionEvent(session[i], event, payer),
         used' = used
  PROVE  new \in SoundSession /\ Follows(i, new)
<1> DEFINE s == session[i]
<1>1. /\ s \in SoundSession /\ PlanBase(s) /\ Planned(s)
      /\ sweep[i].fresh /\ s.state \in Interrupted => overdue[i]
  BY DEF ActingInv, IInv, CoreInv, PlanInv, FoundInv
<1>2. event # "FAIL" /\ event # "START" /\ new \in applySessionEvent(s, event, payer)
  OBVIOUS
<1> HIDE DEF s
<1>3. new \in SoundSession /\ new.mode = s.mode
  BY <1>1, <1>2, EventKeepsSession
<1>4. PlanBase(new) /\ Planned(new)
  BY <1>1, <1>2, EventKeepsPlan
<1>5. Fits(s, new)
  BY <1>1, <1>2, EventFits
<1>6. Paid(s, new, Owner[i])
  <2>1. \/ new.credit = s.credit
        \/ s.credit = "RESERVED" /\ new.credit \in {"CONSUMED", "REFUNDED"}
    BY <1>1, <1>2, EventFits
  <2> QED
    BY <2>1 DEF Paid
<1>7. new.state \in {"PAUSED", "EXPIRED"} => overdue[i]
  <2>1. /\ new.state = "PAUSED" => event = "GRACE_EXPIRED"
        /\ new.state = "EXPIRED" => event = "RESUME_WINDOW_EXPIRED"
        /\ s.state \notin {"RECONNECTING", "PAUSED"} =>
             event \notin {"GRACE_EXPIRED", "RESUME_WINDOW_EXPIRED"}
    BY <1>1, <1>2, EventFits
  <2> QED
    BY <1>1, <2>1 DEF Interrupted
<1> QED
  BY <1>3, <1>4, <1>5, <1>6, <1>7 DEF Follows, s

(* The counter is never given a unit back.                                 *)
LEMMA NothingReturned ==
  ASSUME IInv, NEW i \in Interview, NEW event, event # "FAIL", NEW fresh
  PROVE  Returned(i, event, fresh) = used
<1>1. session[i] \in SoundSession
  BY DEF IInv, CoreInv
<1>2. CASE applySessionEvent(session[i], event, "FREE") = {}
  <2>1. transition(session[i].state, event, sessionContext(session[i])) = {}
    BY <1>2 DEF applySessionEvent
  <2> QED
    BY <2>1 DEF Returned, returnsSponsorship
<1>3. CASE applySessionEvent(session[i], event, "FREE") # {}
  <2>1. PICK new \in applySessionEvent(session[i], event, "FREE") : TRUE
    BY <1>3
  <2>2. ~returnsSponsorship(session[i], event)
    BY <1>1, <2>1, EventFits DEF Payers
  <2> QED
    BY <2>2 DEF Returned
<1> QED
  BY <1>2, <1>3

(* A handler that applies an event, or goes on without.                    *)
LEMMA SavesOrGoes ==
  ASSUME ActingInv, NEW t \in Task, task[t].step # "IDLE", NEW event,
         event \notin {"FAIL", "START", "GRACE_EXPIRED", "RESUME_WINDOW_EXPIRED"},
         NEW done, done.step \notin Deciding, NEW skipped, skipped.step \notin Deciding,
         SaveOrSkip(t, event, done, skipped), turn' = turn, seq' = seq, used' = used
  PROVE  Outcome
<1> DEFINE i == task[t].s
<1>1. i \in Interview /\ IInv
  BY Busy DEF ActingInv, IInv
<1>2. CASE Goto(t, skipped)
  <2>1. Grounded(skipped)
    BY DEF Grounded, Deciding
  <2> QED
    BY <1>1, <1>2, <2>1, TaskGoes
<1>3. CASE \E new \in Applied(t, event) : SaveTask(t, i, new, done)
  <2>1. PICK new \in Applied(t, event) : SaveTask(t, i, new, done)
    BY <1>3
  <2>2. new \in applySessionEvent(session[i], event, "RESERVED")
    BY <2>1 DEF Applied
  <2>3. new \in SoundSession /\ Follows(i, new)
    BY <1>1, <2>2, EventFollows DEF Payers
  <2> QED
    BY <1>1, <2>1, <2>3, TaskSaves
<1> QED
  BY <1>2, <1>3 DEF SaveOrSkip

(* The direct moves before the start follow.                               *)
LEMMA MoveFollows ==
  ASSUME ActingInv, NEW i \in Interview, NEW from, NEW to \in NotStarted,
         from = "ROLE_ANALYSIS" \/ to \in {"ROLE_ANALYSIS", "CANCELLED"},
         NEW new \in transitionSession(session[i], from, to), used' = used
  PROVE  new \in SoundSession /\ Follows(i, new)
<1> DEFINE s == session[i]
<1>1. s \in SoundSession /\ PlanBase(s) /\ s \in Session /\ StateInv(s)
  BY DEF ActingInv, IInv, CoreInv, PlanInv, SoundSession
<1>2. new \in SoundSession
  BY <1>1, TransitionKeepsSession
<1>3. new = [s EXCEPT !.state = to] /\ s.state = from /\ canTransition(from, to)
  BY DEF transitionSession
<1>4. from \in NotStarted \ {"CANCELLED"}
  <2>1. CASE from = "ROLE_ANALYSIS"
    BY <2>1 DEF NotStarted
  <2>2. CASE to \in {"ROLE_ANALYSIS", "CANCELLED"}
    <3>4. PICK ctx \in SessionContext : \E r \in Rows(ctx) : from \in r.from /\ to = r.to
      BY <1>3 DEF canTransition, ALLOWED_TRANSITIONS
    <3>1. PICK r \in Rows(ctx) : from \in r.from /\ to = r.to
      BY <3>4
    <3>2. r.event # "FAIL"
      BY <2>2, <3>1 DEF Rows, PreStartRows, LiveRows, EndRows, FailRows, Row, When
    <3>3. \/ StartsRound(r) \/ EndsRound(r, ctx) \/ EndsRounds(r) \/ Interrupts(r)
          \/ Sleeps(r) \/ Resumes(r, ctx) \/ Elsewhere(r)
      BY <3>1, <3>2, PlanRows
    <3>5. ctx.resumeTo \in ResumeTarget
      BY DEF SessionContext
    <3> QED
      BY <2>2, <3>1, <3>3, <3>5
         DEF StartsRound, EndsRound, EndsRounds, Interrupts, Sleeps, Resumes, Elsewhere,
             NotStarted, IN_PROGRESS_STATES, LIVE_STATES, ResumeTarget
  <2> QED
    BY <2>1, <2>2
<1>5. /\ new.state = to /\ new.credit = s.credit /\ new.planner = s.planner
      /\ new.resumeTo = s.resumeTo /\ new.mode = s.mode
  BY <1>1, <1>3 DEF Session
<1> HIDE DEF s
<1>6. Fits(s, new)
  BY <1>3, <1>4, <1>5 DEF Fits, phaseOf, holdOf, NotStarted, PRE_START_STATES,
       IN_PROGRESS_STATES, LIVE_STATES
<1>7. PlanBase(new) /\ Planned(new)
  BY <1>1, <1>3, <1>4, <1>5
     DEF PlanBase, Planned, NotStarted, PRE_START_STATES, LIVE_STATES
<1>8. new.state \notin {"PAUSED", "EXPIRED"}
  BY <1>5 DEF NotStarted, PRE_START_STATES
<1> QED
  BY <1>2, <1>5, <1>6, <1>7, <1>8 DEF Follows, Paid, s

(* One step of the walk keeps the plan, the mode and the promise.          *)
LEMMA WalkStep ==
  ASSUME NEW s \in SoundSession, PlanBase(s), Planned(s), NEW new \in preStartStep(s)
  PROVE  /\ new \in SoundSession /\ PlanBase(new) /\ Planned(new) /\ new.mode = s.mode
         /\ new.state \in NotStarted \ {"CANCELLED"} =>
              s.state \in NotStarted \ {"CANCELLED"}
<1>1. CASE new = s
  BY <1>1
<1>2. CASE new # s
  <2>1. PICK event \in {"PREPARE", "DEVICE_CHECK_PASSED", "CONSENT_ACCEPTED"} :
          new \in applySessionEvent(s, event, "FREE")
    BY <1>2 DEF preStartStep
  <2>2. event # "FAIL" /\ event # "START" /\ event # "ROUND_ENDED" /\ "FREE" \in Payers
    BY DEF Payers
  <2>3. new \in SoundSession /\ new.mode = s.mode
    BY <2>1, <2>2, EventKeepsSession
  <2>4. PlanBase(new) /\ Planned(new)
    BY <2>1, <2>2, EventKeepsPlan
  <2>5. Fits(s, new)
    BY <2>1, <2>2, EventFits
  <2>6. new.state \in NotStarted \ {"CANCELLED"} => s.state \in NotStarted \ {"CANCELLED"}
    <3>1. s.state \in InterviewState
      BY DEF SoundSession, Session
    <3> QED
      BY <2>5, <3>1 DEF Fits, phaseOf, NotStarted, PRE_START_STATES, IN_PROGRESS_STATES,
           LIVE_STATES, InterviewState, TERMINAL_STATES
  <2> QED
    BY <2>3, <2>4, <2>6
<1> QED
  BY <1>1, <1>2

(* A start follows, whoever pays for it.                                   *)
LEMMA StartFollows ==
  ASSUME ActingInv, NEW i \in Interview, NEW payer \in payerOf(i), NEW ready \in walked(session[i]),
         NEW new \in applySessionEvent(ready, "START", payer),
         used' = IF payer = "SPONSORED" THEN used + 1 ELSE used
  PROVE  new \in SoundSession /\ Follows(i, new)
<1> DEFINE s == session[i]
<1>1. s \in SoundSession /\ PlanBase(s) /\ Planned(s)
  BY DEF ActingInv, IInv, CoreInv, PlanInv
<1>2. /\ payer \in Payers
      /\ payer = "SPONSORED" => used < Units
      /\ payer = "RESERVED" => balance(Owner[i]) > 0
  BY InterviewAssumption DEF payerOf, Payers
<1>3. PICK a \in preStartStep(s) : \E b \in preStartStep(a) : ready \in preStartStep(b)
  BY DEF walked
<1>4. PICK b \in preStartStep(a) : ready \in preStartStep(b)
  BY <1>3
<1> HIDE DEF s
<1>5. /\ a \in SoundSession /\ PlanBase(a) /\ Planned(a) /\ a.mode = s.mode
      /\ a.state \in NotStarted \ {"CANCELLED"} => s.state \in NotStarted \ {"CANCELLED"}
  BY <1>1, WalkStep
<1>6. /\ b \in SoundSession /\ PlanBase(b) /\ Planned(b) /\ b.mode = a.mode
      /\ b.state \in NotStarted \ {"CANCELLED"} => a.state \in NotStarted \ {"CANCELLED"}
  BY <1>5, WalkStep
<1>7. /\ ready \in SoundSession /\ PlanBase(ready) /\ Planned(ready) /\ ready.mode = b.mode
      /\ ready.state \in NotStarted \ {"CANCELLED"} => b.state \in NotStarted \ {"CANCELLED"}
  BY <1>4, <1>6, WalkStep
<1>8. new \in SoundSession /\ new.mode = ready.mode
  BY <1>2, <1>7, EventKeepsSession
<1>9. PlanBase(new) /\ Planned(new)
  BY <1>2, <1>7, EventKeepsPlan
<1>10. /\ Fits(ready, new) /\ ready.state = "READY_TO_START" /\ new.credit = payer
       /\ new.state \notin {"PAUSED", "EXPIRED"}
  BY <1>2, <1>7, EventFits
<1>11. s.state \in NotStarted \ {"CANCELLED"} /\ s.credit = "NONE" /\ ready.credit = "NONE"
  BY <1>1, <1>5, <1>6, <1>7, <1>10 DEF NotStarted, PRE_START_STATES, SoundSession, StateInv
<1>12. Fits(s, new)
  <2>1. phaseOf(s) = "PREPARING" /\ phaseOf(ready) = "PREPARING"
    BY <1>10, <1>11 DEF phaseOf, NotStarted, PRE_START_STATES, IN_PROGRESS_STATES, LIVE_STATES
  <2>2. holdOf(s) = "NONE" /\ holdOf(ready) = "NONE"
    BY <1>11 DEF holdOf
  <2> QED
    BY <1>10, <2>1, <2>2 DEF Fits
<1>13. Paid(s, new, Owner[i])
  BY <1>2, <1>10, <1>11 DEF Paid, Payers
<1> QED
  BY <1>5, <1>6, <1>7, <1>8, <1>9, <1>10, <1>12, <1>13 DEF Follows, s

(* So does the end of a round, which the handler records before the event. *)
LEMMA RoundEndFollows ==
  ASSUME ActingInv, NEW i \in Interview, NEW outcome \in {"COMPLETED", "TIMED_OUT"},
         NEW new \in applySessionEvent(
               [session[i] EXCEPT !.planner = endCurrentRound(@, outcome)],
               "ROUND_ENDED", "FREE"),
         used' = used
  PROVE  new \in SoundSession /\ Follows(i, new)
<1> DEFINE s == session[i]
           p == endCurrentRound(s.planner, outcome)
           ended == [s EXCEPT !.planner = p]
<1>1. s \in SoundSession /\ PlanBase(s) /\ s \in Session /\ s.planner \in Planner
  BY DEF ActingInv, IInv, CoreInv, PlanInv, SoundSession, Session
<1>2. p \in Planner /\ p.roundIdx = s.planner.roundIdx
  BY <1>1, EndRoundTyped DEF RoundState
<1>3. \A r \in 1..Rounds : p.rounds[r] # "ACTIVE"
  BY <1>1, RoundEnds DEF PlanBase, RoundState
<1> HIDE DEF p, s
<1>4. ended \in SoundSession
  BY <1>1, <1>2, PlannerSound
<1>5. /\ ended.state = s.state /\ ended.credit = s.credit /\ ended.mode = s.mode
      /\ ended.planner = p /\ ended.resumeTo = s.resumeTo
  BY <1>1 DEF Session
<1>6. new \in applySessionEvent(ended, "ROUND_ENDED", "FREE") /\ "FREE" \in Payers
  BY DEF ended, p, s, Payers
<1> HIDE DEF ended
<1>7. PlanBase(ended)
  BY <1>1, <1>3, <1>5 DEF PlanBase
<1>8. new \in SoundSession /\ new.mode = s.mode
  BY <1>4, <1>5, <1>6, EventKeepsSession
<1>9. PlanBase(new) /\ Planned(new)
  BY <1>4, <1>6, <1>7, EventKeepsPlan
<1>10. /\ Fits(ended, new)
       /\ "ROUND_ENDED" # "START" =>
            \/ new.credit = ended.credit
            \/ ended.credit = "RESERVED" /\ new.credit \in {"CONSUMED", "REFUNDED"}
       /\ new.state = "PAUSED" => "ROUND_ENDED" = "GRACE_EXPIRED"
       /\ new.state = "EXPIRED" => "ROUND_ENDED" = "RESUME_WINDOW_EXPIRED"
  BY <1>4, <1>6, EventFits
<1>11. Fits(s, new)
  BY <1>5, <1>10 DEF Fits, phaseOf, holdOf
<1>12. Paid(s, new, Owner[i])
  BY <1>5, <1>10 DEF Paid
<1> QED
  BY <1>8, <1>9, <1>10, <1>11, <1>12 DEF Follows, s

(* So does a save that changes the clock and what was answered or asked.   *)
LEMMA AlikeFollows ==
  ASSUME ActingInv, NEW i \in Interview, NEW new \in SoundSession,
         new.state = session[i].state, new.credit = session[i].credit,
         new.resumeTo = session[i].resumeTo, new.mode = session[i].mode,
         new.planner.rounds = session[i].planner.rounds,
         new.planner.roundIdx = session[i].planner.roundIdx,
         used' = used
  PROVE  Follows(i, new)
<1> DEFINE s == session[i]
<1>1. PlanBase(s) /\ Planned(s)
  BY DEF ActingInv, PlanInv
<1>2. PlanBase(new) /\ Planned(new)
  BY <1>1 DEF PlanBase, Planned, Open, hasNextRound
<1>3. Fits(s, new)
  BY DEF Fits, phaseOf, holdOf
<1>4. Paid(s, new, Owner[i])
  BY DEF Paid
<1> QED
  BY <1>2, <1>3, <1>4 DEF Follows

(* Every step of the preparation has such an outcome.                      *)
LEMMA PreparingOutcome ==
  ASSUME ActingInv, NEW t \in Task, Preparing(t)
  PROVE  Outcome
<1> DEFINE i == task[t].s
<1>1. IInv /\ Grounded(Idle) /\ Idle.step \notin Deciding
  BY DEF ActingInv, Grounded, Idle, Deciding
<1>2. i \in Interview /\ session[i] \in SoundSession
  BY <1>1, Busy DEF Preparing, GivesUp, Analyze, AnalyzeEnqueues, Cancel, updateSetup, Doing,
       IInv, CoreInv
<1>3. CASE GivesUp(t)
  BY <1>1, <1>3, TaskGoes DEF GivesUp
<1>4. CASE Analyze(t)
  <2>1. PICK new \in transitionSession(session[i], session[i].state, "ROLE_ANALYSIS") :
          SaveTask(t, i, new, Then(t, "ENQUEUE"))
    BY <1>4 DEF Analyze
  <2>2. new \in SoundSession /\ Follows(i, new)
    BY <1>2, <1>4, <2>1, MoveFollows DEF Analyze, NotStarted
  <2>3. Then(t, "ENQUEUE").step \notin Deciding
    BY <1>1, <1>4, ThenTyped DEF Analyze, Doing, Step, Deciding, IInv
  <2> QED
    BY <1>1, <1>2, <1>4, <2>1, <2>2, <2>3, TaskSaves DEF Analyze
<1>5. CASE AnalyzeEnqueues(t)
  <2>1. CASE Goto(t, Idle)
    BY <1>1, <1>5, <2>1, TaskGoes DEF AnalyzeEnqueues
  <2>2. CASE ~Goto(t, Idle)
    <3>1. PICK new \in transitionSession(session[i], "ROLE_ANALYSIS", "FAILED") :
            SaveTask(t, i, new, Idle)
      BY <1>5, <2>2 DEF AnalyzeEnqueues
    <3>2. new \in SoundSession /\ Follows(i, new)
      BY <1>2, <1>5, <3>1, MoveFollows DEF AnalyzeEnqueues, NotStarted
    <3> QED
      BY <1>1, <1>2, <1>5, <3>1, <3>2, TaskSaves DEF AnalyzeEnqueues
  <2> QED
    BY <2>1, <2>2
<1>6. CASE Cancel(t)
  <2>1. PICK new \in transitionSession(session[i], session[i].state, "CANCELLED") :
          SaveTask(t, i, new, Idle)
    BY <1>6 DEF Cancel
  <2>2. new \in SoundSession /\ Follows(i, new)
    BY <1>2, <1>6, <2>1, MoveFollows DEF Cancel, NotStarted
  <2> QED
    BY <1>1, <1>2, <1>6, <2>1, <2>2, TaskSaves DEF Cancel
<1>7. CASE updateSetup(t)
  <2>1. PICK mode \in Mode : session' = [session EXCEPT ![i].mode = mode]
    BY <1>7 DEF updateSetup
  <2>2. session[i].credit = "NONE"
    <3>1. session[i].state = "READY"
      BY <1>7 DEF ActingInv, DecidedInv, Grounded, updateSetup, Doing, Current
    <3> QED
      BY <1>2, <3>1 DEF SoundSession, StateInv, NotStarted, PRE_START_STATES
  <2>3. \A j \in Interview : Alike(session[j], session'[j])
    <3> SUFFICES ASSUME NEW j \in Interview PROVE Alike(session[j], session'[j])
      OBVIOUS
    <3>1. CASE j # i
      <4>1. session'[j] = session[j]
        BY <1>1, <2>1, <3>1 DEF IInv, CoreInv
      <4> QED
        BY <4>1 DEF Alike
    <3>2. CASE j = i
      <4>1. session'[i] = [session[i] EXCEPT !.mode = mode]
        BY <1>1, <1>2, <2>1 DEF IInv, CoreInv
      <4> QED
        BY <1>2, <2>2, <3>2, <4>1 DEF Alike, SoundSession, Session
    <3> QED
      BY <3>1, <3>2
  <2>4. \A u \in Task : task'[u] = task[u] \/ Grounded(task'[u])
    BY <1>1, <1>7 DEF updateSetup, IInv, CoreInv
  <2> QED
    BY <1>7, <2>3, <2>4 DEF updateSetup, Outcome, Steady
<1> QED
  BY <1>3, <1>4, <1>5, <1>6, <1>7 DEF Preparing

(* So has every step of start, end, join and disconnect.                   *)
LEMMA RunningOutcome ==
  ASSUME ActingInv, NEW t \in Task, Running(t)
  PROVE  Outcome
<1> DEFINE i == task[t].s
<1>1. IInv /\ Grounded(Idle) /\ Idle.step \notin Deciding
  BY DEF ActingInv, Grounded, Idle, Deciding
<1>2. task[t].step # "IDLE" /\ i \in Interview /\ session[i] \in SoundSession
  <2>1. task[t].step # "IDLE"
    BY DEF Running, Start, EndRequested, Finish, Join, JoinBusy, GoneFetches, GoneReads,
           Disconnected, Doing
  <2> QED
    BY <1>1, <2>1, Busy DEF IInv, CoreInv
<1>3. CASE Start(t)
  <2>1. CASE Goto(t, Idle) /\ UNCHANGED <<kicked, used>>
    BY <1>1, <1>3, <2>1, TaskGoes DEF Start
  <2>2. CASE ~(Goto(t, Idle) /\ UNCHANGED <<kicked, used>>)
    <3>1. PICK payer \in payerOf(i), ready \in walked(session[i]) :
            /\ \E new \in applySessionEvent(ready, "START", payer) : SaveTask(t, i, new, Idle)
            /\ used' = IF payer = "SPONSORED" THEN used + 1 ELSE used
      BY <1>3, <2>2 DEF Start
    <3>2. PICK new \in applySessionEvent(ready, "START", payer) : SaveTask(t, i, new, Idle)
      BY <3>1
    <3>3. new \in SoundSession /\ Follows(i, new)
      BY <1>2, <3>1, <3>2, StartFollows
    <3> QED
      BY <1>1, <1>2, <1>3, <3>2, <3>3, TaskSaves DEF Start
  <2> QED
    BY <2>1, <2>2
<1>4. CASE EndRequested(t)
  <2>1. Then(t, "FINISH").step \notin Deciding
    BY <1>1, <1>2, ThenTyped DEF Step, Deciding, IInv
  <2>2. SaveOrSkip(t, "END_REQUESTED", Then(t, "FINISH"), Idle)
    BY <1>4 DEF EndRequested, SaveOrSkip
  <2> QED
    BY <1>1, <1>2, <1>4, <2>1, <2>2, SavesOrGoes DEF EndRequested
<1>5. CASE Finish(t)
  <2>1. used' = used
    BY <1>1, <1>2, <1>5, NothingReturned DEF Finish
  <2> QED
    BY <1>1, <1>2, <1>5, <2>1, SavesOrGoes DEF Finish
<1>6. CASE Join(t)
  BY <1>1, <1>2, <1>6, SavesOrGoes DEF Join, ResumeEvent
<1>7. CASE JoinBusy(t)
  BY <1>1, <1>7, TaskGoes DEF JoinBusy
<1>8. CASE GoneFetches(t)
  <2>1. Grounded([task[t] EXCEPT !.step = "WAIT"])
    BY <1>1, <1>2, Busy DEF Grounded, IInv
  <2> QED
    BY <1>1, <1>8, <2>1, TaskGoes DEF GoneFetches
<1>9. CASE GoneReads(t)
  <2>1. Grounded(Then(t, "DECIDED"))
    <3>1. Then(t, "DECIDED").step = "DECIDED"
      BY <1>1, <1>2, ThenTyped DEF Step, IInv
    <3>2. Then(t, "DECIDED").op = "GONE"
      BY <1>1, <1>2, <1>9, Busy DEF Then, IInv, GoneReads, Doing
    <3> QED
      BY <3>1, <3>2 DEF Grounded
  <2> QED
    BY <1>1, <1>9, <2>1, TaskGoes DEF GoneReads
<1>10. CASE Disconnected(t)
  BY <1>1, <1>2, <1>10, SavesOrGoes DEF Disconnected
<1> QED
  BY <1>3, <1>4, <1>5, <1>6, <1>7, <1>8, <1>9, <1>10 DEF Running

(* A save of the clock or the counted answers leaves the rest alone.       *)
LEMMA ClockAlike ==
  ASSUME NEW s \in Session, NEW c, NEW p \in Planner,
         p.rounds = s.planner.rounds, p.roundIdx = s.planner.roundIdx,
         NEW new \in {[s EXCEPT !.clock = c], [s EXCEPT !.planner = p],
                      [s EXCEPT !.planner = p, !.clock = c]}
  PROVE  /\ new.state = s.state /\ new.credit = s.credit /\ new.resumeTo = s.resumeTo
         /\ new.mode = s.mode /\ new.planner.rounds = s.planner.rounds
         /\ new.planner.roundIdx = s.planner.roundIdx
BY DEF Session

(* So has every step of an answer,                                         *)
LEMMA AnsweringOutcome ==
  ASSUME ActingInv, NEW t \in Task,
         AnswerResumes(t) \/ AnswerSaves(t) \/ HoldReads(t) \/ HoldSaves(t)
  PROVE  Outcome
<1> DEFINE i == task[t].s
<1>1. IInv /\ Grounded(Idle) /\ Idle.step \notin Deciding
  BY DEF ActingInv, Grounded, Idle, Deciding
<1>2. task[t].step # "IDLE" /\ i \in Interview /\ session[i] \in SoundSession
  <2>1. task[t].step # "IDLE"
    BY DEF AnswerResumes, AnswerSaves, HoldReads, HoldSaves, Doing
  <2> QED
    BY <1>1, <2>1, Busy DEF IInv, CoreInv
<1>3. \A step \in Step : Then(t, step).step = step
  BY <1>1, <1>2, ThenTyped DEF IInv
<1>4. AfterHold(t).step \notin Deciding /\ Grounded(AfterHold(t))
  BY <1>1, <1>3 DEF AfterHold, Deciding, Grounded, Step
<1>5. CASE AnswerResumes(t)
  <2>1. CASE Goto(t, Idle)
    BY <1>1, <1>5, <2>1, TaskGoes DEF AnswerResumes
  <2>2. CASE ~Goto(t, Idle)
    <3>1. PICK new \in Applied(t, "RECONNECTED") :
            \E next \in {Then(t, "SAVE_ANSWER"), Idle} : SaveTask(t, i, new, next)
      BY <1>5, <2>2 DEF AnswerResumes
    <3>2. PICK next \in {Then(t, "SAVE_ANSWER"), Idle} : SaveTask(t, i, new, next)
      BY <3>1
    <3>3. new \in applySessionEvent(session[i], "RECONNECTED", "RESERVED")
      BY DEF Applied
    <3>4. new \in SoundSession /\ Follows(i, new)
      BY <1>2, <1>5, <3>3, EventFollows DEF Payers, AnswerResumes
    <3>5. next.step \notin Deciding
      BY <1>1, <1>3 DEF Deciding, Step
    <3> QED
      BY <1>1, <1>2, <1>5, <3>2, <3>4, <3>5, TaskSaves DEF AnswerResumes
  <2> QED
    BY <2>1, <2>2
<1>6. CASE AnswerSaves(t)
  <2>1. CASE Goto(t, Idle) /\ UNCHANGED turn
    BY <1>1, <1>6, <2>1, TaskGoes DEF AnswerSaves
  <2>2. CASE ~(Goto(t, Idle) /\ UNCHANGED turn)
    <3>1. /\ turn[i] = "ASKED" /\ turn' = [turn EXCEPT ![i] = "ANSWERED"]
          /\ overdue' = [overdue EXCEPT ![i] = @ /\ session[i].state \in {"RECONNECTING", "PAUSED"}]
          /\ task' = [task EXCEPT ![t].step = "HOLD"]
          /\ session' = session /\ sweep' = sweep /\ seq' = seq /\ used' = used
      BY <1>6, <2>2 DEF AnswerSaves
    <3>2. \A u \in Task : task'[u] = task[u] \/ Grounded(task'[u])
      <4>1. task'[t].step = "HOLD"
        BY <1>1, <1>2, <3>1, Busy DEF IInv, CoreInv
      <4>2. \A u \in Task : u # t => task'[u] = task[u]
        BY <1>1, <3>1 DEF IInv, CoreInv
      <4> QED
        BY <4>1, <4>2 DEF Grounded
    <3>3. \A j \in Interview : session[j].state \in Interrupted /\ overdue[j] => overdue'[j]
      BY <1>1, <1>2, <3>1 DEF IInv, CoreInv, Interrupted
    <3>4. \A j \in Interview :
            \/ turn'[j] = turn[j] \/ turn[j] \notin {"NONE", "ASSESSED"} \/ turn'[j] = "ASSESSED"
      BY <1>1, <3>1 DEF IInv, RestInv
    <3> QED
      BY <3>1, <3>2, <3>3, <3>4 DEF Outcome, Steady, Alike
  <2> QED
    BY <2>1, <2>2
<1>7. CASE HoldReads(t)
  <2>1. Grounded([task[t] EXCEPT !.step = "HOLDING", !.fresh = TRUE])
    BY <1>1, <1>2, Busy DEF Grounded, IInv
  <2> QED
    BY <1>1, <1>4, <1>7, <2>1, TaskGoes DEF HoldReads
<1>8. CASE HoldSaves(t)
  <2>1. CASE Current(t)
    <3> DEFINE new == [session[i] EXCEPT !.clock = holdClock(@)]
    <3>1. SaveTask(t, i, new, AfterHold(t))
      BY <1>8, <2>1 DEF HoldSaves
    <3>2. new \in SoundSession
      BY <1>2, HeldSound
    <3>3. Follows(i, new)
      <4>1. session[i] \in Session /\ session[i].planner \in Planner
        BY <1>2 DEF SoundSession, Session
      <4>2. new = [session[i] EXCEPT !.clock = holdClock(session[i].clock)]
        OBVIOUS
      <4> HIDE DEF new
      <4>3. /\ new.state = session[i].state /\ new.credit = session[i].credit
            /\ new.resumeTo = session[i].resumeTo
            /\ new.mode = session[i].mode /\ new.planner.rounds = session[i].planner.rounds
            /\ new.planner.roundIdx = session[i].planner.roundIdx
        BY <4>1, <4>2 DEF Session
      <4> QED
        BY <1>2, <1>8, <3>2, <4>3, AlikeFollows DEF HoldSaves
    <3> HIDE DEF new
    <3> QED
      BY <1>1, <1>2, <1>4, <1>8, <3>1, <3>2, <3>3, TaskSaves DEF HoldSaves
  <2>2. CASE ~Current(t)
    <3>1. Grounded([task[t] EXCEPT !.step = "HOLD", !.tries = @ + 1])
      BY <1>1, <1>2, Busy DEF Grounded, IInv
    <3> QED
      BY <1>1, <1>4, <1>8, <2>2, <3>1, TaskGoes DEF HoldSaves, TriesAgain
  <2> QED
    BY <2>1, <2>2
<1> QED
  BY <1>5, <1>6, <1>7, <1>8

(* of an advance,                                                          *)
LEMMA AdvancingOutcome ==
  ASSUME ActingInv, NEW t \in Task,
         \/ AdvanceReads(t) \/ NextRound(t) \/ TimeUp(t) \/ RoundEnded(t)
         \/ StrayHoldReleased(t)
  PROVE  Outcome
<1> DEFINE i == task[t].s
<1>1. IInv /\ Grounded(Idle) /\ Idle.step \notin Deciding
  BY DEF ActingInv, Grounded, Idle, Deciding
<1>2. task[t].step # "IDLE" /\ i \in Interview /\ session[i] \in SoundSession
  <2>1. task[t].step # "IDLE"
    BY DEF AdvanceReads, NextRound, TimeUp, RoundEnded, StrayHoldReleased, AdvanceFires, Doing
  <2> QED
    BY <1>1, <2>1, Busy DEF IInv, CoreInv
<1>3. \A step \in Step : Then(t, step).step = step /\ Then(t, step).s = i
  BY <1>1, <1>2, ThenTyped DEF IInv
<1>4. Then(t, "READ").step \notin Deciding /\ Grounded(Then(t, "READ"))
  BY <1>3 DEF Deciding, Grounded, Step
<1>5. CASE AdvanceReads(t)
  <2>1. PICK move \in moves(i) :
          IF move = "STOP" THEN Goto(t, Idle) /\ lock' = Unlocked(t, i)
          ELSE Goto(t, Then(t, move)) /\ UNCHANGED lock
    BY <1>5 DEF AdvanceReads
  <2>2. CASE move = "STOP"
    BY <1>1, <1>5, <2>1, <2>2, TaskGoes DEF AdvanceReads
  <2>3. CASE move # "STOP"
    <3>1. move \in Step /\ move # "DECIDED"
      BY <2>3 DEF moves, Step
    <3>2. move = "PLAN_ASK" =>
            session[i].state = "ACTIVE" /\ turn[i] \notin {"ASKED", "ANSWERED"}
      BY DEF moves
    <3>3. turn[i] \in {"NONE", "ASKED", "ANSWERED", "ASSESSED"}
      BY <1>1, <1>2 DEF IInv, RestInv
    <3>4. Grounded(Then(t, move))
      BY <1>3, <3>1, <3>2, <3>3 DEF Grounded
    <3> QED
      BY <1>1, <1>5, <2>1, <2>3, <3>4, TaskGoes DEF AdvanceReads
  <2> QED
    BY <2>2, <2>3
<1>6. CASE NextRound(t) \/ TimeUp(t)
  BY <1>2, <1>4, <1>6, SavesOrGoes DEF NextRound, TimeUp, AdvanceFires
<1>7. CASE RoundEnded(t)
  <2>1. CASE Current(t)
    <3>1. PICK outcome \in {"COMPLETED", "TIMED_OUT"} :
            \E new \in applySessionEvent(
                  [session[i] EXCEPT !.planner = endCurrentRound(@, outcome)],
                  "ROUND_ENDED", "FREE") :
              SaveTask(t, i, new, Then(t, "READ"))
      BY <1>7, <2>1 DEF RoundEnded
    <3>2. PICK new \in applySessionEvent(
                  [session[i] EXCEPT !.planner = endCurrentRound(@, outcome)],
                  "ROUND_ENDED", "FREE") :
              SaveTask(t, i, new, Then(t, "READ"))
      BY <3>1
    <3>3. new \in SoundSession /\ Follows(i, new)
      BY <1>2, <1>7, <3>2, RoundEndFollows DEF RoundEnded
    <3> QED
      BY <1>1, <1>2, <1>4, <1>7, <3>2, <3>3, TaskSaves DEF RoundEnded
  <2>2. CASE ~Current(t)
    BY <1>1, <1>4, <1>7, <2>2, TaskGoes DEF RoundEnded
  <2> QED
    BY <2>1, <2>2
<1>8. CASE StrayHoldReleased(t)
  <2>1. CASE Current(t)
    <3> DEFINE c == releasedSessionClock(session[i])
               new == [session[i] EXCEPT !.clock = c]
    <3>1. SaveTask(t, i, new, Idle)
      BY <1>8, <2>1 DEF StrayHoldReleased
    <3>2. new \in SoundSession
      BY <1>2, ReleasedSound
    <3> HIDE DEF c
    <3>3. /\ new.state = session[i].state /\ new.credit = session[i].credit
          /\ new.resumeTo = session[i].resumeTo
          /\ new.mode = session[i].mode /\ new.planner.rounds = session[i].planner.rounds
          /\ new.planner.roundIdx = session[i].planner.roundIdx
      BY <1>2 DEF SoundSession, Session
    <3> HIDE DEF new
    <3>4. Follows(i, new)
      BY <1>2, <1>8, <3>2, <3>3, AlikeFollows DEF StrayHoldReleased
    <3> QED
      BY <1>1, <1>2, <1>8, <3>1, <3>2, <3>4, TaskSaves DEF StrayHoldReleased
  <2>2. CASE ~Current(t)
    BY <1>1, <1>8, <2>2, TaskGoes DEF StrayHoldReleased
  <2> QED
    BY <2>1, <2>2
<1> QED
  BY <1>5, <1>6, <1>7, <1>8

(* of an assessment,                                                       *)
LEMMA AssessingOutcome ==
  ASSUME ActingInv, NEW t \in Task, Assess(t) \/ CountReads(t) \/ CountSaves(t)
  PROVE  Outcome
<1> DEFINE i == task[t].s
<1>1. IInv
  BY DEF ActingInv
<1>2. task[t].step # "IDLE" /\ i \in Interview /\ session[i] \in SoundSession
  <2>1. task[t].step # "IDLE"
    BY DEF Assess, CountReads, CountSaves, Doing
  <2> QED
    BY <1>1, <2>1, Busy DEF IInv, CoreInv
<1>3. Then(t, "READ").step \notin Deciding /\ Grounded(Then(t, "READ"))
  <2>1. Then(t, "READ").step = "READ"
    BY <1>1, <1>2, ThenTyped DEF IInv, Step
  <2> QED
    BY <2>1 DEF Deciding, Grounded
<1>4. CASE Assess(t)
  <2>1. /\ task' = [task EXCEPT ![t] = [task[t] EXCEPT !.step = "COUNT"]]
        /\ turn' = [turn EXCEPT ![i] = assessed(t, i)]
        /\ session' = session /\ overdue' = overdue /\ sweep' = sweep /\ seq' = seq
        /\ used' = used
    BY <1>4 DEF Assess, Goto
  <2>2. \A u \in Task : task'[u] = task[u] \/ Grounded(task'[u])
    <3>1. [task[t] EXCEPT !.step = "COUNT"].step = "COUNT"
      BY <1>1, <1>2, Busy DEF IInv
    <3>2. \A u \in Task : task'[u] = IF u = t THEN [task[t] EXCEPT !.step = "COUNT"] ELSE task[u]
      BY <1>1, <2>1 DEF IInv, CoreInv
    <3> QED
      BY <3>1, <3>2 DEF Grounded
  <2>3. \A j \in Interview : turn'[j] = turn[j] \/ turn'[j] = "ASSESSED"
    BY <1>1, <2>1 DEF assessed, IInv, RestInv
  <2> QED
    BY <2>1, <2>2, <2>3 DEF Outcome, Steady, Alike
<1>5. CASE CountReads(t)
  <2>1. Grounded([task[t] EXCEPT !.step = "COUNTING", !.fresh = TRUE])
    BY <1>1, <1>2, Busy DEF Grounded, IInv
  <2> QED
    BY <1>1, <1>3, <1>5, <2>1, TaskGoes DEF CountReads
<1>6. CASE CountSaves(t)
  <2>1. CASE Current(t)
    <3>1. PICK counts \in BOOLEAN :
            SaveTask(t, i, [session[i] EXCEPT !.planner = recordAssessment(@, counts)],
                     Then(t, "READ"))
      BY <1>6, <2>1 DEF CountSaves
    <3> DEFINE p == recordAssessment(session[i].planner, counts)
               new == [session[i] EXCEPT !.planner = p]
    <3>2. session[i].planner \in Planner /\ session[i] \in Session
      BY <1>2 DEF SoundSession, Session
    <3>3. /\ p \in Planner /\ p.roundIdx = session[i].planner.roundIdx
          /\ p.rounds = session[i].planner.rounds
      BY <3>2, CountTyped DEF recordAssessment, Planner
    <3>4. SaveTask(t, i, new, Then(t, "READ"))
      BY <3>1
    <3> HIDE DEF p
    <3>5. new \in SoundSession
      BY <1>2, <3>3, PlannerSound
    <3>6. /\ new.state = session[i].state /\ new.credit = session[i].credit
          /\ new.resumeTo = session[i].resumeTo
          /\ new.mode = session[i].mode /\ new.planner.rounds = session[i].planner.rounds
          /\ new.planner.roundIdx = session[i].planner.roundIdx
      BY <3>2, <3>3 DEF Session
    <3> HIDE DEF new
    <3>7. Follows(i, new)
      BY <1>2, <1>6, <3>5, <3>6, AlikeFollows DEF CountSaves
    <3> QED
      BY <1>1, <1>2, <1>3, <1>6, <3>4, <3>5, <3>7, TaskSaves DEF CountSaves
  <2>2. CASE ~Current(t)
    <3>1. Grounded([task[t] EXCEPT !.step = "COUNT", !.tries = @ + 1])
      BY <1>1, <1>2, Busy DEF Grounded, IInv
    <3> QED
      BY <1>1, <1>3, <1>6, <2>2, <3>1, TaskGoes DEF CountSaves, TriesAgain
  <2> QED
    BY <2>1, <2>2
<1> QED
  BY <1>4, <1>5, <1>6

(* and of a question.                                                      *)
LEMMA AsksOutcome ==
  ASSUME ActingInv, NEW t \in Task, Asks(t)
  PROVE  Outcome
<1> DEFINE i == task[t].s
           asking == [session[i] EXCEPT !.planner.thread = TRUE,
                                        !.clock = releasedSessionClock(session[i])]
<1>1. IInv
  BY DEF ActingInv
<1>2. task[t].step # "IDLE" /\ i \in Interview /\ session[i] \in SoundSession
  BY <1>1, Busy DEF Asks, Doing, IInv, CoreInv
<1>3. CASE Current(t)
  <2>1. asking \in SoundSession /\ asking.planner.rounds = session[i].planner.rounds
        /\ asking.planner.roundIdx = session[i].planner.roundIdx
        /\ asking.state = session[i].state /\ asking.credit = session[i].credit
        /\ asking.resumeTo = session[i].resumeTo /\ asking.mode = session[i].mode
    <3> DEFINE p == [session[i].planner EXCEPT !.thread = TRUE]
               c == releasedSessionClock(session[i])
    <3>0. session[i] \in Session /\ session[i].planner \in Planner
      BY <1>2 DEF SoundSession, Session
    <3>1. p \in Planner /\ p.roundIdx = session[i].planner.roundIdx
          /\ p.rounds = session[i].planner.rounds
      BY <3>0 DEF Planner
    <3>2. [session[i] EXCEPT !.clock = c] \in SoundSession
      BY <1>2, ReleasedSound
    <3>3. asking = [[session[i] EXCEPT !.clock = c] EXCEPT !.planner = p]
      BY <3>0 DEF Session
    <3> HIDE DEF c, p, asking
    <3>4. [session[i] EXCEPT !.clock = c].planner = session[i].planner
      BY <3>0 DEF Session
    <3>5. asking \in SoundSession
      BY <3>1, <3>2, <3>3, <3>4, PlannerSound
    <3> QED
      BY <3>0, <3>1, <3>3, <3>5 DEF Session
  <2>2. /\ SaveTask(t, i, asking, Idle) /\ used' = used
        /\ turn' = [turn EXCEPT ![i] = "ASKED"] /\ seq' = [seq EXCEPT ![i] = @ + 1]
    BY <1>3 DEF Asks
  <2>3. session[i].state = "ACTIVE" /\ turn[i] \in {"NONE", "ASSESSED"}
    BY <1>3 DEF Asks, Doing, Current, ActingInv, DecidedInv, Grounded
  <2> HIDE DEF asking, i
  <2>4. Follows(i, asking)
    BY <1>2, <2>1, <2>2, AlikeFollows
  <2>5. \A u \in Task : \/ task'[u] = task[u] /\ task[u].s # i
                        \/ ~task'[u].fresh
                        \/ task'[u].step \notin Deciding
    <3> SUFFICES ASSUME NEW u \in Task
                 PROVE  (task'[u] = task[u] /\ task[u].s # i) \/ ~task'[u].fresh
      OBVIOUS
    <3>1. task'[u] = IF u = t THEN Idle ELSE Outdated(u, i)
      BY <2>2 DEF SaveTask
    <3>2. ~Idle.fresh
      BY DEF Idle
    <3>3. Outdated(u, i).fresh => task[u].s # i
      BY <1>1, <1>2, OutdatedTyped DEF IInv
    <3>4. task[u].s # i => Outdated(u, i) = task[u]
      BY DEF Outdated
    <3> QED
      BY <3>1, <3>2, <3>3, <3>4
  <2>6. ~sweep'[i].fresh /\ \A j \in Interview \ {i} : sweep'[j] = sweep[j]
    BY <1>1, <1>2, <2>2 DEF SaveTask, IInv, CoreInv, SweepType
  <2>7. /\ session' = [session EXCEPT ![i] = asking]
        /\ \A j \in Interview \ {i} : overdue'[j] = overdue[j]
    BY <1>1, <2>2 DEF SaveTask, Write, IInv, CoreInv
  <2>8. \A j \in Interview \ {i} : turn'[j] = turn[j] /\ seq'[j] = seq[j]
    BY <1>1, <2>2 DEF IInv, RestInv
  <2> QED
    BY <1>2, <2>1, <2>3, <2>4, <2>5, <2>6, <2>7, <2>8 DEF Saves, Outcome
<1>4. CASE ~Current(t)
  <2>1. Then(t, "READ").step = "READ"
    BY <1>1, <1>2, ThenTyped DEF IInv, Step
  <2>2. Grounded(Then(t, "READ"))
    BY <2>1 DEF Grounded
  <2> QED
    BY <1>1, <1>4, <2>2, TaskGoes DEF Asks
<1> QED
  BY <1>3, <1>4

(* So have the requests that begin,                                        *)
LEMMA BeginsOutcome ==
  ASSUME ActingInv, NEW t \in Task, NEW i \in Interview, Begins(t, i)
  PROVE  Outcome
<1>1. IInv
  BY DEF ActingInv
<1>2. ASSUME NEW op, NEW step, step # "PLAN_ASK",
             op = "SETUP" => session[i].state = "READY"
      PROVE  Grounded(At(op, step, i, TRUE))
  <2>1. /\ At(op, step, i, TRUE).op = op /\ At(op, step, i, TRUE).step = step
        /\ At(op, step, i, TRUE).s = i
    BY DEF At
  <2> QED
    BY <1>2, <2>1 DEF Grounded
<1>3. CASE AnalyzeBegins(t, i) \/ CancelBegins(t, i) \/ SetupBegins(t, i) \/ StartBegins(t, i)
  <2>1. PICK op \in {"ANALYZE", "CANCEL", "SETUP", "START"} :
          RequestBegins(t, i, op) /\ (op = "SETUP" => session[i].state = "READY")
    BY <1>3 DEF AnalyzeBegins, CancelBegins, SetupBegins, StartBegins
  <2>2. Grounded(At(op, "DECIDED", i, TRUE))
    BY <1>2, <2>1
  <2> QED
    BY <1>1, <2>1, <2>2, TaskGoes DEF RequestBegins
<1>4. \A op \in {"END", "JOIN", "ANSWER", "ADVANCE"},
         step \in {"FINISH", "DECIDED", "SAVE_ANSWER", "READ"} : Grounded(At(op, step, i, TRUE))
  BY <1>2
<1>5. CASE EndBegins(t, i)
  BY <1>1, <1>4, <1>5, TaskGoes DEF EndBegins
<1>6. CASE JoinBegins(t, i)
  <2>1. CASE session[i].state \in {"RECONNECTING", "PAUSED"}
    BY <1>1, <1>4, <1>6, <2>1, TaskGoes DEF JoinBegins
  <2>2. CASE session[i].state \notin {"RECONNECTING", "PAUSED"}
    <3>1. \A j \in Interview : session[j].state \in Interrupted => overdue'[j] = overdue[j]
      BY <1>1, <1>6, <2>2 DEF JoinBegins, IInv, CoreInv, Interrupted
    <3> QED
      BY <1>1, <1>6, <2>2, <3>1, NobodyMoves DEF JoinBegins
  <2> QED
    BY <2>1, <2>2
<1>7. CASE AnswerBegins(t, i)
  BY <1>1, <1>4, <1>7, TaskGoes DEF AnswerBegins
<1>8. CASE AdvanceBegins(t, i)
  BY <1>1, <1>4, <1>8, TaskGoes DEF AdvanceBegins
<1> QED
  BY <1>3, <1>5, <1>6, <1>7, <1>8 DEF Begins

(* and all that happens without a task: sockets, time, the worker.         *)
LEMMA HappensOutcome ==
  ASSUME ActingInv, NEW i \in Interview, Happens(i)
  PROVE  Outcome
<1>1. IInv /\ session[i] \in SoundSession /\ session[i] \in Session
  BY DEF ActingInv, IInv, CoreInv, SoundSession
<1>2. CASE AnalysisEnds(i)
  <2>1. PICK to \in {"READY", "FAILED"} :
          \E new \in transitionSession(session[i], "ROLE_ANALYSIS", to) :
            SaveWorker(i, new, [sweep[i] EXCEPT !.fresh = FALSE])
    BY <1>2 DEF AnalysisEnds
  <2>2. PICK new \in transitionSession(session[i], "ROLE_ANALYSIS", to) :
          SaveWorker(i, new, [sweep[i] EXCEPT !.fresh = FALSE])
    BY <2>1
  <2>3. new \in SoundSession /\ Follows(i, new)
    BY <1>2, MoveFollows DEF NotStarted, PRE_START_STATES, AnalysisEnds
  <2>4. ~[sweep[i] EXCEPT !.fresh = FALSE].fresh
    BY <1>1 DEF IInv, CoreInv, SweepType
  <2> QED
    BY <1>1, <1>2, <2>2, <2>3, <2>4, WorkerSaves DEF AnalysisEnds
<1>3. CASE GetReady(i)
  BY <1>1, <1>3, NobodyMoves DEF GetReady
<1>4. CASE EvaluationCompleted(i)
  <2>1. PICK new \in applySessionEvent(session[i], "EVALUATION_COMPLETED", "FREE") :
          SaveWorker(i, new, [sweep[i] EXCEPT !.fresh = FALSE])
    BY <1>4 DEF EvaluationCompleted
  <2>2. new \in SoundSession /\ Follows(i, new)
    BY <1>4, EventFollows DEF EvaluationCompleted, Payers
  <2>3. ~[sweep[i] EXCEPT !.fresh = FALSE].fresh
    BY <1>1 DEF IInv, CoreInv, SweepType
  <2> QED
    BY <1>1, <1>4, <2>1, <2>2, <2>3, WorkerSaves DEF EvaluationCompleted
<1>5. CASE SocketCloses(i)
  <2>1. CASE \E t \in Task : IsFree(t, "GONE") /\ Goto(t, At("GONE", "FETCH", i, FALSE))
    <3>1. Grounded(At("GONE", "FETCH", i, FALSE))
      BY DEF Grounded, At
    <3> QED
      BY <1>1, <1>5, <2>1, <3>1, TaskGoes DEF SocketCloses
  <2>2. CASE UNCHANGED <<session, overdue, task, sweep>>
    BY <1>1, <1>5, <2>2, NobodyMoves DEF SocketCloses
  <2> QED
    BY <1>5, <2>1, <2>2 DEF SocketCloses
<1>6. CASE Heartbeat(i)
  <2>1. \A j \in Interview : session[j].state \in Interrupted => overdue'[j] = overdue[j]
    BY <1>1, <1>6 DEF Heartbeat, IInv, CoreInv, Interrupted, LIVE_STATES
  <2> QED
    BY <1>1, <1>6, <2>1, NobodyMoves DEF Heartbeat
<1>7. CASE AnswerResent(i)
  BY <1>1, <1>7, NobodyMoves DEF AnswerResent
<1>8. CASE KickLost(i)
  BY <1>1, <1>8, NobodyMoves DEF KickLost
<1>9. CASE Tick(i)
  <2>1. \A j \in Interview : Alike(session[j], session'[j])
    <3> SUFFICES ASSUME NEW j \in Interview PROVE Alike(session[j], session'[j])
      OBVIOUS
    <3>1. CASE j # i
      <4>1. session'[j] = session[j]
        BY <1>1, <1>9, <3>1 DEF Tick, IInv, CoreInv
      <4> QED
        BY <4>1 DEF Alike
    <3>2. CASE j = i
      <4> DEFINE c == Ticked(session[i].clock)
      <4>1. session'[i] = [session[i] EXCEPT !.clock = c]
        BY <1>1, <1>9 DEF Tick, IInv, CoreInv
      <4> HIDE DEF c
      <4> QED
        BY <1>1, <3>2, <4>1 DEF Alike, Session
    <3> QED
      BY <3>1, <3>2
  <2> QED
    BY <1>9, <2>1 DEF Tick, Outcome, Steady
<1>10. CASE Elapse(i)
  <2>1. \A j \in Interview : overdue[j] => overdue'[j]
    BY <1>1, <1>10 DEF Elapse, IInv, CoreInv
  <2> QED
    BY <1>1, <1>10, <2>1, NobodyMoves DEF Elapse
<1>11. CASE SweepFinds(i)
  <2>1. \A j \in Interview : sweep'[j] = sweep[j] \/ overdue'[j]
    BY <1>1, <1>11 DEF SweepFinds, toSweep, IInv, CoreInv
  <2> QED
    BY <1>1, <1>11, <2>1, NobodyMoves DEF SweepFinds
<1>12. CASE SweepApplies(i)
  <2>0. SweepEvent(session[i].state) # "FAIL" /\ SweepEvent(session[i].state) # "START"
    BY DEF SweepEvent
  <2>1. used' = used
    BY <1>1, <1>12, <2>0, NothingReturned DEF SweepApplies
  <2>2. CASE \E new \in Swept(i) :
               SaveWorker(i, new,
                 IF new.state = "EXPIRED" THEN [step |-> "PROCESS", fresh |-> FALSE] ELSE Idling)
    <3>1. PICK new \in Swept(i) :
               SaveWorker(i, new,
                 IF new.state = "EXPIRED" THEN [step |-> "PROCESS", fresh |-> FALSE] ELSE Idling)
      BY <2>2
    <3>2. /\ sweep[i].fresh
          /\ new \in applySessionEvent(session[i], SweepEvent(session[i].state), "FREE")
      BY DEF Swept
    <3>3. new \in SoundSession /\ Follows(i, new)
      BY <2>0, <2>1, <3>2, EventFollows DEF Payers
    <3> DEFINE next ==
                 IF new.state = "EXPIRED" THEN [step |-> "PROCESS", fresh |-> FALSE] ELSE Idling
    <3>4. ~next.fresh
      BY DEF Idling
    <3>5. SaveWorker(i, new, next)
      BY <3>1
    <3> HIDE DEF next
    <3> QED
      BY <1>1, <1>12, <3>3, <3>4, <3>5, WorkerSaves DEF SweepApplies
  <2>3. CASE sweep' = [sweep EXCEPT ![i] = Idling] /\ UNCHANGED <<session, overdue, task>>
    <3>1. \A j \in Interview : sweep'[j] = sweep[j] \/ ~sweep'[j].fresh
      BY <1>1, <2>3 DEF IInv, CoreInv, Idling
    <3> QED
      BY <1>1, <1>12, <2>1, <2>3, <3>1, NobodyMoves DEF SweepApplies
  <2> QED
    BY <1>12, <2>2, <2>3 DEF SweepApplies
<1>13. CASE SweepProcesses(i)
  <2>1. CASE \E new \in applySessionEvent(session[i], "PROCESS", "FREE") :
               SaveWorker(i, new, Idling)
    <3>1. PICK new \in applySessionEvent(session[i], "PROCESS", "FREE") :
               SaveWorker(i, new, Idling)
      BY <2>1
    <3>2. new \in SoundSession /\ Follows(i, new)
      BY <1>13, EventFollows DEF SweepProcesses, Payers
    <3>3. ~Idling.fresh
      BY DEF Idling
    <3> QED
      BY <1>1, <1>13, <3>1, <3>2, <3>3, WorkerSaves DEF SweepProcesses
  <2>2. CASE sweep' = [sweep EXCEPT ![i] = Idling] /\ UNCHANGED <<session, overdue, task>>
    <3>1. \A j \in Interview : sweep'[j] = sweep[j] \/ ~sweep'[j].fresh
      BY <1>1, <2>2 DEF IInv, CoreInv, Idling
    <3> QED
      BY <1>1, <1>13, <2>2, <3>1, NobodyMoves DEF SweepProcesses
  <2> QED
    BY <1>13, <2>1, <2>2 DEF SweepProcesses
<1>14. CASE WorkerDies(i)
  <2>1. \A j \in Interview : sweep'[j] = sweep[j] \/ ~sweep'[j].fresh
    BY <1>1, <1>14 DEF WorkerDies, IInv, CoreInv, Idling
  <2> QED
    BY <1>1, <1>14, <2>1, NobodyMoves DEF WorkerDies
<1>15. CASE LockExpires(i)
  BY <1>1, <1>15, NobodyMoves DEF LockExpires
<1> QED
  BY <1>2, <1>3, <1>4, <1>5, <1>6, <1>7, <1>8, <1>9, <1>10, <1>11, <1>12, <1>13, <1>14, <1>15
     DEF Happens

(* Every step saves one interview as it should, or none.                   *)
LEMMA NextOutcome ==
  ASSUME ActingInv, Next
  PROVE  Outcome
<1>1. IInv /\ Grounded(Idle)
  BY DEF ActingInv, Grounded, Idle
<1>2. ASSUME NEW t \in Task, Turning(t) PROVE Outcome
  BY <1>2, AnsweringOutcome, AdvancingOutcome, AssessingOutcome, AsksOutcome DEF Turning
<1>3. ASSUME NEW t \in Task, ReplicaDies(t) PROVE Outcome
  BY <1>1, <1>3, TaskGoes DEF ReplicaDies
<1> QED
  BY <1>2, <1>3, PreparingOutcome, RunningOutcome, BeginsOutcome, HappensOutcome DEF Next

-------------------------------------------------------------------------------
(* What the outcomes preserve.                                             *)

(* Campaign's units and candidates' credits are spent as they are counted. *)
Sponsored == {i \in Interview : session[i].credit = "SPONSORED"}

Spent(c) == {i \in Interview : Owner[i] = c /\ session[i].credit \in {"RESERVED", "CONSUMED"}}

SpentInv ==
  /\ IsFiniteSet(Sponsored) /\ used = Cardinality(Sponsored)
  /\ \A c \in Candidate : IsFiniteSet(Spent(c)) /\ balance(c) >= 0

(* A step that saves none preserves the second invariant,                  *)
LEMMA SteadyPreserves ==
  ASSUME ActingInv, IInv', Steady
  PROVE  PlanInv' /\ DecidedInv' /\ FoundInv'
<1>1. PlanInv'
  BY DEF ActingInv, PlanInv, Steady, Alike, PlanBase, Planned
<1>2. DecidedInv'
  <2> SUFFICES ASSUME NEW t \in Task, task'[t].fresh PROVE Grounded(task[t])'
    BY DEF DecidedInv, Grounded
  <2> DEFINE x == task'[t]
  <2>1. x.s \in Interview
    BY DEF IInv, CoreInv, TaskType, Idle
  <2>2. Grounded(x)
    BY DEF ActingInv, DecidedInv, Steady
  <2>3. session'[x.s].state = session[x.s].state
    BY <2>1 DEF Steady, Alike
  <2>4. turn[x.s] \in {"NONE", "ASSESSED"} => turn'[x.s] \in {"NONE", "ASSESSED"}
    BY <2>1 DEF Steady
  <2> QED
    BY <2>2, <2>3, <2>4 DEF Grounded
<1>3. FoundInv'
  BY DEF ActingInv, FoundInv, Steady, Alike
<1> QED
  BY <1>1, <1>2, <1>3

(* and so does one that saves an interview as it should.                   *)
LEMMA SavesPreserve ==
  ASSUME ActingInv, IInv', NEW i \in Interview, NEW new \in SoundSession, Saves(i, new)
  PROVE  PlanInv' /\ DecidedInv' /\ FoundInv'
<1>1. /\ session'[i] = new
      /\ \A j \in Interview \ {i} : session'[j] = session[j]
  BY DEF ActingInv, IInv, CoreInv, Saves
<1>2. PlanInv'
  BY <1>1 DEF ActingInv, PlanInv, Saves, Follows
<1>3. DecidedInv'
  <2> SUFFICES ASSUME NEW t \in Task, task'[t].fresh, task'[t].step \in Deciding
               PROVE  Grounded(task[t])'
    BY DEF DecidedInv, Grounded, Deciding
  <2>1. task'[t].s \in Interview
    BY DEF IInv, CoreInv, TaskType, Idle
  <2>2. task'[t] = task[t] /\ task[t].s # i
    BY DEF Saves
  <2>3. session'[task[t].s] = session[task[t].s] /\ turn'[task[t].s] = turn[task[t].s]
    BY <1>1, <2>1, <2>2 DEF Saves
  <2> QED
    BY <2>2, <2>3 DEF ActingInv, DecidedInv, Grounded
<1>4. FoundInv'
  BY <1>1 DEF ActingInv, FoundInv, Saves
<1> QED
  BY <1>2, <1>3, <1>4

(* The second invariant holds initially,                                   *)
LEMMA InitActing == Init => ActingInv
<1> SUFFICES ASSUME Init PROVE ActingInv
  OBVIOUS
<1>1. PlanInv
  BY DEF Init, PlanInv, NewSession, createPlanner, PlanBase, Planned, LIVE_STATES
<1>2. DecidedInv
  BY DEF Init, DecidedInv, Grounded, Idle
<1>3. FoundInv
  BY DEF Init, FoundInv, Idling
<1> QED
  BY <1>1, <1>2, <1>3, InitIInv DEF ActingInv

(* and every step preserves it.                                            *)
LEMMA NextActing == ActingInv /\ [Next]_vars => ActingInv'
<1> SUFFICES ASSUME ActingInv, [Next]_vars PROVE ActingInv'
  OBVIOUS
<1>1. IInv'
  BY NextIInv DEF ActingInv
<1>2. CASE Next
  <2>1. Outcome
    BY <1>2, NextOutcome
  <2> QED
    BY <1>1, <2>1, SteadyPreserves, SavesPreserve DEF Outcome, ActingInv
<1>3. CASE UNCHANGED vars
  BY <1>1, <1>3 DEF vars, ActingInv, PlanInv, DecidedInv, Grounded, FoundInv
<1> QED
  BY <1>2, <1>3

(* Plans, decisions and finds are right in every reachable state.          *)
THEOREM ActingInvariant == Spec => []ActingInv
<1> QED
  BY InitActing, NextActing, PTL DEF Spec

(* Every step of the system saves one interview as it should, or none.     *)
LEMMA Steps ==
  ASSUME ActingInv, [Next]_vars
  PROVE  Outcome
<1>1. CASE UNCHANGED vars
  BY <1>1 DEF vars, Outcome, Steady, Alike
<1> QED
  BY <1>1, NextOutcome

-------------------------------------------------------------------------------

(* An interview's rounds agree with its state after every step of every    *)
(* handler: the round that is under way is the current one, none is open   *)
(* between rounds or at the end, and an interruption knows where to resume.*)
THEOREM PlanAlwaysFollows == Spec => []PlanFollowsState
<1>1. ActingInv => PlanFollowsState
  BY DEF ActingInv, PlanInv, PlanBase, Planned, Open, PlanFollowsState
<1> QED
  BY <1>1, ActingInvariant, PTL

(* No interview is put to sleep or expired before its limit has passed,    *)
(* whoever joins or leaves between the sweep's find and its save.          *)
THEOREM NeverTooEarlyAlways == Spec => NeverTooEarly
<1>1. ActingInv /\ [Next]_vars =>
        [\A i \in Interview :
           session'[i].state # session[i].state /\ session'[i].state \in {"PAUSED", "EXPIRED"}
             => overdue[i]]_vars
  <2> SUFFICES ASSUME ActingInv, [Next]_vars, NEW i \in Interview,
                      session'[i].state # session[i].state,
                      session'[i].state \in {"PAUSED", "EXPIRED"}
               PROVE  overdue[i]
    OBVIOUS
  <2>1. CASE Steady
    BY <2>1 DEF Steady, Alike
  <2>2. CASE \E j \in Interview : \E new \in SoundSession : Saves(j, new)
    <3>1. PICK j \in Interview, new \in SoundSession : Saves(j, new)
      BY <2>2
    <3>2. session'[i] = IF i = j THEN new ELSE session[i]
      BY <3>1 DEF ActingInv, IInv, CoreInv, Saves
    <3> QED
      BY <3>1, <3>2 DEF Saves, Follows
  <2> QED
    BY <2>1, <2>2, Steps DEF Outcome
<1> QED
  BY <1>1, ActingInvariant, PTL DEF Spec, NeverTooEarly

(* The mode of an interview does not change once it has started, although  *)
(* choosing it does not increment the version it compares.                 *)
THEOREM ModeAlwaysFixed == Spec => ModeFixedAtStart
<1>1. ActingInv /\ [Next]_vars =>
        [\A i \in Interview :
           session[i].credit # "NONE" => session'[i].mode = session[i].mode]_vars
  <2> SUFFICES ASSUME ActingInv, [Next]_vars, NEW i \in Interview, session[i].credit # "NONE"
               PROVE  session'[i].mode = session[i].mode
    OBVIOUS
  <2>1. CASE Steady
    BY <2>1 DEF Steady, Alike
  <2>2. CASE \E j \in Interview : \E new \in SoundSession : Saves(j, new)
    <3>1. PICK j \in Interview, new \in SoundSession : Saves(j, new)
      BY <2>2
    <3>2. session'[i] = IF i = j THEN new ELSE session[i]
      BY <3>1 DEF ActingInv, IInv, CoreInv, Saves
    <3> QED
      BY <3>1, <3>2 DEF Saves, Follows
  <2> QED
    BY <2>1, <2>2, Steps DEF Outcome
<1> QED
  BY <1>1, ActingInvariant, PTL DEF Spec, ModeFixedAtStart

(* A question is asked of an active interview whose last turn has been     *)
(* assessed, even when two handlers plan it because one outlived its lock. *)
THEOREM OneQuestionAlways == Spec => OneQuestionAtATime
<1>1. ActingInv /\ [Next]_vars =>
        [\A i \in Interview :
           seq'[i] # seq[i] => /\ turn[i] \in {"NONE", "ASSESSED"}
                               /\ session[i].state = "ACTIVE"]_vars
  <2> SUFFICES ASSUME ActingInv, [Next]_vars, NEW i \in Interview, seq'[i] # seq[i]
               PROVE  turn[i] \in {"NONE", "ASSESSED"} /\ session[i].state = "ACTIVE"
    OBVIOUS
  <2>1. CASE Steady
    BY <2>1 DEF Steady
  <2>2. CASE \E j \in Interview : \E new \in SoundSession : Saves(j, new)
    <3>1. PICK j \in Interview, new \in SoundSession : Saves(j, new)
      BY <2>2
    <3>2. i = j
      BY <3>1 DEF Saves
    <3> QED
      BY <3>1, <3>2 DEF Saves
  <2> QED
    BY <2>1, <2>2, Steps DEF Outcome
<1> QED
  BY <1>1, ActingInvariant, PTL DEF Spec, OneQuestionAtATime

(* The whole lifecycle, with its handlers, sweeps, crashes and lost locks, *)
(* implements the promise of InterviewPromise: every step of it is one of  *)
(* the promise's steps about one interview, or none.                       *)
THEOREM PromiseAlwaysKept == Spec => PromiseKept
<1>1. Init => Promise!PInit
  BY DEF Init, NewSession, Promise!PInit, phaseOf, holdOf, IN_PROGRESS_STATES, LIVE_STATES
<1>2. ActingInv /\ [Next]_vars => [Promise!PNext]_(Promise!promiseVars)
  <2> SUFFICES ASSUME ActingInv, [Next]_vars
               PROVE  [Promise!PNext]_(Promise!promiseVars)
    OBVIOUS
  <2> DEFINE phase == [i \in Interview |-> phaseOf(session[i])]
             hold == [i \in Interview |-> holdOf(session[i])]
             phase1 == [i \in Interview |-> phaseOf(session'[i])]
             hold1 == [i \in Interview |-> holdOf(session'[i])]
  <2>1. CASE Steady
    <3>1. \A i \in Interview : /\ session'[i].state = session[i].state
                               /\ session'[i].credit = session[i].credit
      BY <2>1 DEF Steady, Alike
    <3>2. \A i \in Interview : /\ phaseOf(session'[i]) = phaseOf(session[i])
                               /\ holdOf(session'[i]) = holdOf(session[i])
      BY <3>1 DEF phaseOf, holdOf
    <3>3. phase1 = phase /\ hold1 = hold
      BY <3>2
    <3> QED
      BY <3>3 DEF Promise!promiseVars
  <2>2. CASE \E j \in Interview : \E new \in SoundSession : Saves(j, new)
    <3>1. PICK j \in Interview, new \in SoundSession : Saves(j, new)
      BY <2>2
    <3>2. \A i \in Interview : session'[i] = IF i = j THEN new ELSE session[i]
      BY <3>1 DEF ActingInv, IInv, CoreInv, Saves
    <3>3. Fits(session[j], new)
      BY <3>1 DEF Saves, Follows
    <3>4. /\ phase1 = [phase EXCEPT ![j] = phaseOf(new)]
          /\ hold1 = [hold EXCEPT ![j] = holdOf(new)]
          /\ phase[j] = phaseOf(session[j]) /\ hold[j] = holdOf(session[j])
      BY <3>2
    <3>5. /\ phase1 = phase \/ phase1[j] # phase[j]
          /\ holdOf(new) = holdOf(session[j]) => hold1 = hold
      BY <3>4
    <3>6. \/ phase1 = phase /\ hold1 = hold
          \/ Promise!PCancel(j) \/ Promise!PStart(j) \/ Promise!PEnd(j) \/ Promise!PReport(j)
      BY <3>3, <3>4, <3>5
         DEF Fits, Promise!PCancel, Promise!PStart, Promise!PEnd, Promise!PReport, Promise!Moves
    <3> QED
      BY <3>6 DEF Promise!PNext, Promise!promiseVars
  <2> QED
    BY <2>1, <2>2, Steps DEF Outcome
<1> QED
  BY <1>1, <1>2, ActingInvariant, PTL DEF Spec, PromiseKept, Promise!PSpec

(* A step that saves no interview spends nothing,                          *)
LEMMA SpentSame ==
  ASSUME ActingInv, SpentInv, Steady
  PROVE  SpentInv'
<1>1. Sponsored' = Sponsored
  BY DEF Sponsored, Steady, Alike
<1>2. \A c \in Candidate : Spent(c)' = Spent(c)
  BY DEF Spent, Steady, Alike
<1>3. \A c \in Candidate : balance(c) = Credit[c] - Cardinality(Spent(c))
  BY DEF balance, Spent
<1>4. \A c \in Candidate : balance(c)' = Credit[c] - Cardinality(Spent(c)')
  BY DEF balance, Spent
<1>5. used' = used
  BY DEF Steady
<1> QED
  BY <1>1, <1>2, <1>3, <1>4, <1>5 DEF SpentInv

(* and a step that saves one spends what it may, and counts it.            *)
LEMMA SpentSaved ==
  ASSUME ActingInv, SpentInv, NEW i \in Interview, NEW new \in SoundSession, Saves(i, new)
  PROVE  SpentInv'
<1>1. \A j \in Interview : session'[j] = IF j = i THEN new ELSE session[j]
  BY DEF ActingInv, IInv, CoreInv, Saves
<1>2. Paid(session[i], new, Owner[i])
  BY DEF Saves, Follows
<1>3. IsFiniteSet(Sponsored') /\ used' = Cardinality(Sponsored')
  <2>1. CASE used' = used
    <3>1. Sponsored' = Sponsored
      BY <1>1, <1>2, <2>1 DEF Sponsored, Paid, SpentInv, ActingInv, IInv, RestInv
    <3> QED
      BY <2>1, <3>1 DEF SpentInv
  <2>2. CASE used' # used
    <3>1. Sponsored' = Sponsored \cup {i} /\ i \notin Sponsored /\ used' = used + 1
      BY <1>1, <1>2, <2>2 DEF Sponsored, Paid
    <3>2. IsFiniteSet(Sponsored) /\ used = Cardinality(Sponsored)
      BY DEF SpentInv
    <3> HIDE DEF Sponsored
    <3> QED
      BY <3>1, <3>2, FS_AddElement
  <2> QED
    BY <2>1, <2>2
<1>4. ASSUME NEW c \in Candidate PROVE IsFiniteSet(Spent(c)') /\ balance(c)' >= 0
  <2>1. IsFiniteSet(Spent(c)) /\ balance(c) >= 0
    BY DEF SpentInv
  <2>2. balance(c) = Credit[c] - Cardinality(Spent(c))
    BY DEF balance, Spent
  <2>3. balance(c)' = Credit[c] - Cardinality(Spent(c)')
    BY DEF balance, Spent
  <2>4. Credit[c] \in Nat
    BY InterviewAssumption
  <2>5. CASE Spent(c)' \subseteq Spent(c)
    <3>1. IsFiniteSet(Spent(c)') /\ Cardinality(Spent(c)') <= Cardinality(Spent(c))
      BY <2>1, <2>5, FS_Subset
    <3>2. Cardinality(Spent(c)') \in Nat /\ Cardinality(Spent(c)) \in Nat
      BY <2>1, <3>1, FS_CardinalityType
    <3> QED
      BY <2>1, <2>2, <2>3, <2>4, <3>1, <3>2
  <2>6. CASE ~(Spent(c)' \subseteq Spent(c))
    <3>1. /\ Owner[i] = c /\ balance(c) > 0
          /\ Spent(c)' = Spent(c) \cup {i} /\ i \notin Spent(c)
      BY <1>1, <1>2, <2>6 DEF Spent, Paid
    <3>2. IsFiniteSet(Spent(c)') /\ Cardinality(Spent(c)') = Cardinality(Spent(c)) + 1
      BY <2>1, <3>1, FS_AddElement
    <3>3. Cardinality(Spent(c)) \in Nat
      BY <2>1, FS_CardinalityType
    <3> QED
      BY <2>2, <2>3, <2>4, <3>1, <3>2, <3>3
  <2> QED
    BY <2>5, <2>6
<1> QED
  BY <1>3, <1>4 DEF SpentInv

(* A campaign's budget and the candidates' credits are never overspent,    *)
(* and the campaign counts exactly the interviews it pays for.             *)
THEOREM PaidOnceAlways == Spec => []PaidOnce
<1>1. Init => SpentInv
  <2> SUFFICES ASSUME Init PROVE SpentInv
    OBVIOUS
  <2>1. \A i \in Interview : session[i].credit = "NONE"
    BY DEF Init, NewSession
  <2>2. Sponsored = {} /\ \A c \in Candidate : Spent(c) = {}
    BY <2>1 DEF Sponsored, Spent
  <2>3. \A c \in Candidate : balance(c) = Credit[c] - Cardinality(Spent(c))
    BY DEF balance, Spent
  <2>4. IsFiniteSet({}) /\ Cardinality({}) = 0
    BY FS_EmptySet
  <2>5. ASSUME NEW c \in Candidate PROVE balance(c) >= 0
    <3>1. Credit[c] \in Nat
      BY InterviewAssumption
    <3> QED
      BY <2>2, <2>3, <2>4, <3>1
  <2> QED
    BY <2>2, <2>4, <2>5 DEF SpentInv, Init
<1>2. ActingInv /\ SpentInv /\ [Next]_vars => SpentInv'
  BY Steps, SpentSame, SpentSaved DEF Outcome
<1>3. ActingInv /\ SpentInv => PaidOnce
  BY InterviewAssumption DEF ActingInv, IInv, RestInv, SpentInv, PaidOnce, Sponsored
<1> QED
  BY <1>1, <1>2, <1>3, ActingInvariant, PTL DEF Spec

-------------------------------------------------------------------------------
(* Turns, while no handler outlives the lock.                              *)

(* A task at one of these steps has the lock of its interview.             *)
Locks(x) ==
  \/ x.op \in {"END", "ANSWER", "ADVANCE"}
  \/ x.op = "GONE" /\ x.step = "DECIDED"

Counted(s) == s.planner.answeredCount

(* What a task relies on of the interview it is at work on, and of the     *)
(* state and the number of its last question: an answer and an advance are *)
(* of an interview that has started, a stray hold is of a question on      *)
(* screen; an answer is assessed once, and not counted before it is.       *)
Working == {"HOLD", "HOLDING", "RELEASE", "ASSESS", "COUNT", "COUNTING", "PLAN_ASK"}

Relying(x, s, last, number) ==
  /\ x.op = "ANSWER" \/ x.step \in Working => s.credit # "NONE"
  /\ x.step \in {"RELEASE", "ASSESS", "COUNT", "COUNTING"} => x.op = "ADVANCE"
  /\ x.step = "RELEASE" => last = "ASKED"
  /\ x.step = "ASSESS" => last = "ANSWERED" /\ x.q = number
  /\ x.step \in {"COUNT", "COUNTING"} =>
       last = "ASSESSED" /\ x.q = number /\ Counted(s) < number

Relies(x) == Relying(x, session[x.s], turn[x.s], seq[x.s])

LockInv == \A t \in Task : Locks(task[t]) => lock[task[t].s] = t

ReliesInv == \A t \in Task : task[t] # Idle => Relies(task[t])

CountInv ==
  \A i \in Interview :
    /\ Counted(session[i]) <= seq[i]
    /\ turn[i] \in {"ASKED", "ANSWERED"} => Counted(session[i]) < seq[i]

HeldInv == \A i \in Interview : session[i].credit = "NONE" => ~session[i].clock.held

TurnInv == IInv /\ LockInv /\ ReliesInv /\ CountInv /\ HeldInv

(* A session new that counts what s counted, holds the clock if s held it, *)
(* and has been started if s has.                                          *)
Keeps(s, new) ==
  /\ Counted(new) = Counted(s)
  /\ s.clock.held => new.clock.held
  /\ new.credit = "NONE" => s.credit = "NONE" /\ (new.clock.held => s.clock.held)

(* An event keeps all three.                                               *)
LEMMA EventKeepsTurn ==
  ASSUME NEW s \in SoundSession, s.credit = "NONE" => ~s.clock.held,
         NEW event, event # "FAIL", NEW payer \in Payers,
         NEW new \in applySessionEvent(s, event, payer)
  PROVE  Keeps(s, new)
<1> DEFINE ctx == sessionContext(s)
<1>0. s \in Session /\ StateInv(s) /\ s.planner \in Planner /\ s.clock \in Clock
  BY DEF SoundSession, Session
<1>1. PICK r \in transition(s.state, event, ctx) :
        new = [s EXCEPT !.state    = r.to,
                        !.credit   = creditAfter(s, r.effects, payer),
                        !.resumeTo = resumeToAfter(s, r),
                        !.planner  = plannerAfter(s, r),
                        !.clock    = clockAfter(s, r.effects)]
  BY DEF applySessionEvent
<1>2. r \in Rows(ctx) /\ r.event = event /\ s.state \in r.from
  BY <1>1 DEF transition
<1>3. /\ new.credit = creditAfter(s, r.effects, payer) /\ new.planner = plannerAfter(s, r)
      /\ new.clock = clockAfter(s, r.effects)
  BY <1>0, <1>1 DEF Session
<1>4. \/ PreStartRow(r) \/ StartRow(r) \/ LiveRow(r, ctx)
      \/ EndRow(r, ctx) \/ AfterRow(r)
  BY <1>0, <1>2, ContextTyped, RowKinds
<1> HIDE DEF ctx
<1>5. Counted(new) = Counted(s)
  <2>1. \A p \in Planner, o \in {"COMPLETED", "TIMED_OUT"} :
          endCurrentRound(p, o).answeredCount = p.answeredCount
    BY DEF endCurrentRound, Planner
  <2>2. \A p \in Planner : startNextRound(p).answeredCount = p.answeredCount
    <3> SUFFICES ASSUME NEW p \in Planner
                 PROVE  startNextRound(p).answeredCount = p.answeredCount
      OBVIOUS
    <3> DEFINE e == endCurrentRound(p, "COMPLETED")
    <3>1. e \in Planner /\ e.answeredCount = p.answeredCount
      BY <2>1, EndRoundTyped DEF RoundState
    <3>2. startNextRound(p) = [e EXCEPT !.rounds[p.roundIdx + 1] = "ACTIVE",
                                        !.roundIdx = p.roundIdx + 1, !.thread = FALSE]
      BY DEF startNextRound
    <3> HIDE DEF e
    <3> QED
      BY <3>1, <3>2 DEF Planner
  <2>3. \A p \in Planner : skipRemainingRounds(p).answeredCount = p.answeredCount
    BY DEF skipRemainingRounds, Planner
  <2>4. ASSUME NEW p \in Planner, p.answeredCount = s.planner.answeredCount,
               new.planner \in {p, skipRemainingRounds(p)}
        PROVE  Counted(new) = Counted(s)
    BY <2>3, <2>4 DEF Counted
  <2>5. CASE "START_NEXT_ROUND" \in r.effects
    <3>1. hasNextRound(s.planner)
      BY <1>0, <1>2, <1>4, <2>5, ContextTyped, SessionAssumption
         DEF PreStartRow, StartRow, LiveRow, EndRow, AfterRow, StateInv, NotStarted, Settling,
             PRE_START_STATES, hasNextRound, ctx
    <3>2. startNextRound(s.planner) \in Planner
      BY <1>0, <3>1, StartRoundTyped
    <3> QED
      BY <1>0, <1>3, <2>2, <2>4, <2>5, <3>2 DEF plannerAfter
  <2>6. CASE "START_NEXT_ROUND" \notin r.effects /\ "END_ROUND" \in r.effects
    <3> DEFINE o == IF r.event = "TIME_UP" THEN "TIMED_OUT" ELSE "COMPLETED"
    <3>1. o \in {"COMPLETED", "TIMED_OUT"} /\ o \in RoundState
      BY DEF RoundState
    <3>2. new.planner \in {endCurrentRound(s.planner, o),
                           skipRemainingRounds(endCurrentRound(s.planner, o))}
      BY <1>3, <2>6 DEF plannerAfter
    <3> HIDE DEF o
    <3> QED
      BY <1>0, <2>1, <2>4, <3>1, <3>2, EndRoundTyped
  <2>7. CASE "START_NEXT_ROUND" \notin r.effects /\ "END_ROUND" \notin r.effects
    BY <1>0, <1>3, <2>4, <2>7 DEF plannerAfter
  <2> QED
    BY <2>5, <2>6, <2>7
<1>6. CASE StartRow(r)
  <2>1. s.credit = "NONE" /\ new.credit = payer
    BY <1>0, <1>2, <1>3, <1>6 DEF StartRow, creditAfter, StateInv, NotStarted, PRE_START_STATES
  <2> QED
    BY <1>5, <2>1 DEF Keeps, Payers
<1>7. CASE ~StartRow(r)
  <2>1. "START_CLOCK" \notin r.effects /\ "RESERVE_CREDIT" \notin r.effects
    BY <1>4, <1>7 DEF PreStartRow, LiveRow, EndRow, AfterRow, Settling
  <2>2. new.clock \in {s.clock, pauseClock(s.clock), resumeClock(s.clock)}
    BY <1>3, <2>1 DEF clockAfter
  <2>3. new.clock.held = s.clock.held
    BY <1>0, <2>2 DEF pauseClock, resumeClock, Clock
  <2>4. new.credit = "NONE" => s.credit = "NONE"
    BY <1>3, <2>1 DEF creditAfter
  <2> QED
    BY <1>5, <2>3, <2>4 DEF Keeps
<1> QED
  BY <1>5, <1>6, <1>7 DEF Keeps

(* So does a direct move before the start.                                 *)
LEMMA MoveKeepsTurn ==
  ASSUME NEW s \in SoundSession, NEW from, NEW to, NEW new \in transitionSession(s, from, to)
  PROVE  Keeps(s, new)
BY DEF transitionSession, SoundSession, Session, Keeps, Counted

LEMMA KeepsTwice ==
  ASSUME NEW a, NEW b, NEW c, Keeps(a, b), Keeps(b, c)
  PROVE  Keeps(a, c)
BY DEF Keeps

(* and a start.                                                            *)
LEMMA StartKeepsTurn ==
  ASSUME NEW s \in SoundSession, s.credit = "NONE" => ~s.clock.held,
         NEW ready \in walked(s), NEW payer \in Payers,
         NEW new \in applySessionEvent(ready, "START", payer)
  PROVE  Keeps(s, new)
<1>1. ASSUME NEW a \in SoundSession, a.credit = "NONE" => ~a.clock.held, NEW b \in preStartStep(a)
      PROVE  b \in SoundSession /\ (b.credit = "NONE" => ~b.clock.held) /\ Keeps(a, b)
  <2>1. b \in SoundSession
    BY <1>1, PreStartKeepsSession
  <2>2. Keeps(a, b)
    <3>1. CASE b = a
      BY <3>1 DEF Keeps
    <3>2. CASE b # a
      <4>1. PICK event \in {"PREPARE", "DEVICE_CHECK_PASSED", "CONSENT_ACCEPTED"} :
              b \in applySessionEvent(a, event, "FREE")
        BY <1>1, <3>2 DEF preStartStep
      <4>2. event # "FAIL" /\ "FREE" \in Payers
        BY DEF Payers
      <4> QED
        BY <1>1, <4>1, <4>2, EventKeepsTurn
    <3> QED
      BY <3>1, <3>2
  <2> QED
    BY <1>1, <2>1, <2>2 DEF Keeps
<1>2. PICK a \in preStartStep(s) : \E b \in preStartStep(a) : ready \in preStartStep(b)
  BY DEF walked
<1>3. PICK b \in preStartStep(a) : ready \in preStartStep(b)
  BY <1>2
<1>4. a \in SoundSession /\ (a.credit = "NONE" => ~a.clock.held) /\ Keeps(s, a)
  BY <1>1
<1>5. b \in SoundSession /\ (b.credit = "NONE" => ~b.clock.held) /\ Keeps(a, b)
  BY <1>1, <1>4
<1>6. ready \in SoundSession /\ (ready.credit = "NONE" => ~ready.clock.held) /\ Keeps(b, ready)
  BY <1>1, <1>3, <1>5
<1>7. Keeps(ready, new)
  BY <1>6, EventKeepsTurn
<1> QED
  BY <1>4, <1>5, <1>6, <1>7, KeepsTwice

(* The same task, whether or not its read is still current.                *)
SameWork(x, y) == y.op = x.op /\ y.step = x.step /\ y.s = x.s /\ y.q = x.q

(* The locks that a task may change: those it has, and those nobody has.   *)
LocksOf(t) == {i \in Interview : lock[i] \in {t, "FREE", "DEAD"}}

(* A step keeps interview i and its last question as they were,            *)
Kept(i) ==
  /\ turn'[i] = turn[i] /\ seq'[i] = seq[i]
  /\ Keeps(session[i], session'[i])

(* or changes them under the lock, in accord with the invariant.           *)
Owns(t, i) ==
  /\ lock[i] = t
  /\ session'[i].credit # "NONE"
  /\ Counted(session'[i]) <= seq'[i]
  /\ turn'[i] \in {"ASKED", "ANSWERED"} => Counted(session'[i]) < seq'[i]
  /\ session[i].clock.held => session'[i].clock.held \/ turn'[i] = "ASKED"

(* Task t goes on as next; what the others rely on is left alone.          *)
Works(t, next) ==
  /\ task'[t] = next
  /\ \A u \in Task \ {t} : SameWork(task[u], task'[u])
  /\ \A i \in Interview : Kept(i) \/ Owns(t, i)

Still(next) ==
  next # Idle => Relying(next, session'[next.s], turn'[next.s], seq'[next.s])

(* A clock that was held is held, or the question is on screen.            *)
HoldsOn ==
  \A i \in Interview :
    session[i].clock.held => session'[i].clock.held \/ turn'[i] = "ASKED"

(* A task's step preserves the invariant if the task has the locks that it *)
(* changes and needs.                                                      *)
LEMMA WorkKeepsTurn ==
  ASSUME TurnInv, IInv', NEW t \in Task, NEW next, Works(t, next), Still(next),
         \A i \in Interview : lock'[i] = lock[i] \/ i \in LocksOf(t),
         Locks(next) => lock'[next.s] = t
  PROVE  TurnInv' /\ HoldsOn
<1>1. ASSUME NEW u \in Task, u # t, task[u] # Idle
      PROVE  task[u].s \in Interview
  BY <1>1 DEF TurnInv, IInv, CoreInv, TaskType
<1>2. ASSUME NEW u \in Task, u # t, Locks(task[u])
      PROVE  lock[task[u].s] = u /\ task[u].s \in Interview /\ lock'[task[u].s] = u
  <2>1. task[u] # Idle
    BY <1>2 DEF Locks, Idle
  <2>2. lock[task[u].s] = u /\ task[u].s \in Interview
    BY <1>1, <1>2, <2>1 DEF TurnInv, LockInv
  <2>3. task[u].s \notin LocksOf(t)
    BY <1>2, <2>2, InterviewAssumption DEF LocksOf
  <2> QED
    BY <2>2, <2>3
<1>3. LockInv'
  <2> SUFFICES ASSUME NEW u \in Task, Locks(task'[u]) PROVE lock'[task'[u].s] = u
    BY DEF LockInv, Locks
  <2>1. CASE u # t
    <3>1. SameWork(task[u], task'[u])
      BY <2>1 DEF Works
    <3>2. Locks(task[u]) /\ task'[u].s = task[u].s
      BY <3>1 DEF SameWork, Locks
    <3> QED
      BY <1>2, <2>1, <3>2
  <2> QED
    BY <2>1 DEF Works
<1>4. ReliesInv'
  <2> SUFFICES ASSUME NEW u \in Task, task'[u] # Idle
               PROVE  Relying(task'[u], session'[task'[u].s], turn'[task'[u].s], seq'[task'[u].s])
    BY DEF ReliesInv, Relies, Relying, Counted
  <2>1. CASE u = t
    BY <2>1 DEF Works, Still
  <2>2. CASE u # t
    <3>1. SameWork(task[u], task'[u])
      BY <2>2 DEF Works
    <3>2. task[u] # Idle
      <4>1. SUFFICES ASSUME task[u] = Idle PROVE FALSE
        OBVIOUS
      <4>2. task'[u].step = "IDLE"
        BY <3>1, <4>1 DEF SameWork, Idle
      <4> QED
        BY <4>2 DEF IInv, CoreInv, TaskType, Step
    <3> DEFINE i == task[u].s
    <3>3. Relying(task[u], session[i], turn[i], seq[i]) /\ i \in Interview
      BY <1>1, <2>2, <3>2 DEF TurnInv, ReliesInv, Relies
    <3>4. task'[u].s = i /\ (Kept(i) \/ Owns(t, i))
      BY <3>1, <3>3 DEF Works, SameWork
    <3> HIDE DEF i
    <3>5. CASE Kept(i)
      BY <3>1, <3>3, <3>4, <3>5 DEF SameWork, Relying, Kept, Keeps
    <3>6. CASE Owns(t, i)
      <4>1. ~Locks(task[u])
        BY <1>2, <2>2, <3>6 DEF Owns, i
      <4>2. task[u].step \notin {"RELEASE", "ASSESS", "COUNT", "COUNTING"}
        BY <3>3, <4>1 DEF Relying, Locks
      <4> QED
        BY <3>1, <3>4, <3>6, <4>2 DEF SameWork, Relying, Owns
    <3> QED
      BY <3>4, <3>5, <3>6
  <2> QED
    BY <2>1, <2>2
<1>5. CountInv' /\ HeldInv' /\ HoldsOn
  <2>1. ASSUME NEW i \in Interview
        PROVE  /\ Counted(session'[i]) <= seq'[i]
               /\ turn'[i] \in {"ASKED", "ANSWERED"} => Counted(session'[i]) < seq'[i]
               /\ session'[i].credit = "NONE" => ~session'[i].clock.held
               /\ session[i].clock.held => session'[i].clock.held \/ turn'[i] = "ASKED"
    <3>1. CASE Kept(i)
      BY <3>1 DEF Kept, Keeps, TurnInv, CountInv, HeldInv
    <3>2. CASE Owns(t, i)
      BY <3>2 DEF Owns
    <3> QED
      BY <3>1, <3>2 DEF Works
  <2> QED
    BY <2>1 DEF CountInv, HeldInv, HoldsOn, Counted
<1> QED
  BY <1>3, <1>4, <1>5 DEF TurnInv

-------------------------------------------------------------------------------
(* The ways in which a step changes tasks and locks.                       *)

(* What the invariant says of a task at work.                              *)
LEMMA AtWork ==
  ASSUME TurnInv, NEW t \in Task, task[t].step # "IDLE"
  PROVE  LET i == task[t].s
         IN /\ i \in Interview
            /\ session[i] \in SoundSession /\ session[i] \in Session
            /\ session[i].credit = "NONE" => ~session[i].clock.held
            /\ Relying(task[t], session[i], turn[i], seq[i])
            /\ Locks(task[t]) => lock[i] = t
            /\ task[t] \in [op : Operation, step : Step, s : Interview, fresh : BOOLEAN,
                            q : 0..MaxQuestions, tries : 0..(Retries - 1)]
<1>1. IInv /\ CoreInv /\ task[t] # Idle
  BY DEF TurnInv, IInv, Idle
<1>2. task[t].s \in Interview
  BY <1>1, Busy
<1> QED
  BY <1>1, <1>2, Busy DEF TurnInv, IInv, CoreInv, SoundSession, ReliesInv, Relies, LockInv, HeldInv

(* A task that goes on is at the step it goes to, for the same interview.  *)
LEMMA ThenWorks ==
  ASSUME TurnInv, NEW t \in Task, task[t].step # "IDLE", NEW step
  PROVE  /\ Then(t, step).op = task[t].op /\ Then(t, step).step = step
         /\ Then(t, step).s = task[t].s /\ Then(t, step).q = seq[task[t].s]
BY AtWork DEF Then

(* A session that is kept is relied on as before.                          *)
LEMMA StillRelied ==
  ASSUME NEW next, Kept(next.s), Relying(next, session[next.s], turn[next.s], seq[next.s])
  PROVE  Still(next)
BY DEF Kept, Keeps, Relying, Still

(* A save or a move that keeps the sessions.                               *)
LEMMA SaveWorks ==
  ASSUME IInv, NEW t \in Task, NEW i \in Interview, NEW new, NEW next,
         SaveTask(t, i, new, next), Keeps(session[i], new), turn' = turn, seq' = seq
  PROVE  Works(t, next) /\ \A j \in Interview : Kept(j)
<1> USE DEF IInv
<1>1. task'[t] = next
  BY DEF SaveTask
<1>2. ASSUME NEW u \in Task \ {t}
      PROVE  SameWork(task[u], task'[u])
  <2>1. task'[u] = Outdated(u, i)
    BY DEF SaveTask
  <2>2. CASE task[u].s # i
    BY <2>1, <2>2 DEF Outdated, SameWork
  <2>3. CASE task[u].s = i
    <3>1. task[u] # Idle
      BY <2>3, InterviewAssumption DEF Idle
    <3> QED
      BY <2>1, <2>3, <3>1 DEF Outdated, SameWork, CoreInv, TaskType
  <2> QED
    BY <2>2, <2>3
<1>3. \A j \in Interview : Kept(j)
  BY DEF Kept, SaveTask, Write, CoreInv, Keeps
<1> QED
  BY <1>1, <1>2, <1>3 DEF Works

LEMMA GoWorks ==
  ASSUME IInv, NEW t \in Task, NEW next, Goto(t, next), turn' = turn, seq' = seq
  PROVE  Works(t, next) /\ \A j \in Interview : Kept(j)
BY DEF IInv, CoreInv, Goto, Works, SameWork, Kept, Keeps

(* A task that ends, whether or not it had a lock to release,              *)
LEMMA WorkEnds ==
  ASSUME TurnInv, IInv', NEW t \in Task, NEW i, Works(t, Idle), lock' \in {lock, Unlocked(t, i)}
  PROVE  TurnInv' /\ HoldsOn
<1>1. Still(Idle) /\ ~Locks(Idle)
  BY DEF Still, Locks, Idle
<1>2. \A j \in Interview : lock'[j] = lock[j] \/ j \in LocksOf(t)
  BY DEF TurnInv, IInv, RestInv, Unlocked, LocksOf
<1> QED
  BY <1>1, <1>2, WorkKeepsTurn

(* that goes on with its operation,                                        *)
LEMMA WorkGoesOn ==
  ASSUME TurnInv, IInv', NEW t \in Task, task[t].step # "IDLE", NEW next, Works(t, next),
         next.op = task[t].op, next.s = task[t].s, next.step # "DECIDED", Still(next),
         lock' = lock
  PROVE  TurnInv' /\ HoldsOn
<1>1. Locks(next) => lock'[next.s] = t
  BY AtWork DEF Locks
<1> QED
  BY <1>1, WorkKeepsTurn

(* that takes the lock,                                                    *)
LEMMA WorkTakes ==
  ASSUME TurnInv, IInv', NEW t \in Task, NEW i \in Interview, NEW next, Works(t, next),
         next.s = i, Still(next), lock[i] = "FREE", lock' = [lock EXCEPT ![i] = t]
  PROVE  TurnInv' /\ HoldsOn
<1>1. lock'[i] = t /\ \A j \in Interview : lock'[j] = lock[j] \/ j \in LocksOf(t)
  BY DEF TurnInv, IInv, RestInv, LocksOf
<1> QED
  BY <1>1, WorkKeepsTurn

(* or that works without it.                                               *)
LEMMA WorkNeedsNone ==
  ASSUME TurnInv, IInv', NEW t \in Task, NEW next, Works(t, next),
         ~Locks(next), Still(next), lock' = lock
  PROVE  TurnInv' /\ HoldsOn
BY WorkKeepsTurn

(* A step of nobody: the tasks and the locks that tasks have stay.         *)
LEMMA NobodyWorks ==
  ASSUME TurnInv, IInv', \A u \in Task : SameWork(task[u], task'[u]),
         \A i \in Interview : Kept(i),
         \A i \in Interview : lock'[i] = lock[i] \/ lock[i] = "DEAD"
  PROVE  TurnInv' /\ HoldsOn
<1>1. CASE Task = {}
  BY <1>1 DEF TurnInv, LockInv, ReliesInv, CountInv, HeldInv, HoldsOn, Kept, Keeps, Counted
<1>2. ASSUME NEW t \in Task
      PROVE  TurnInv' /\ HoldsOn
  <2> DEFINE next == task'[t]
  <2>1. SameWork(task[t], next) /\ next \in TaskType
    BY DEF IInv, CoreInv
  <2>2. Works(t, next)
    BY DEF Works
  <2>3. \A i \in Interview : lock'[i] = lock[i] \/ i \in LocksOf(t)
    BY DEF LocksOf
  <2>4. CASE next = Idle
    <3>1. ~Locks(next) /\ Still(next)
      BY <2>4 DEF Locks, Still, Idle
    <3> QED
      BY <2>2, <2>3, <3>1, WorkKeepsTurn
  <2>5. CASE next # Idle
    <3>1. task[t].step # "IDLE"
      BY <2>1, <2>5 DEF SameWork, TaskType, Step
    <3>2. Still(next)
      <4>1. Relying(next, session[next.s], turn[next.s], seq[next.s]) /\ next.s \in Interview
        BY <2>1, <3>1, AtWork DEF SameWork, Relying
      <4> HIDE DEF next
      <4> QED
        BY <4>1, StillRelied
    <3>3. Locks(next) => lock'[next.s] = t
      BY <2>1, <3>1, AtWork, InterviewAssumption DEF SameWork, Locks
    <3> QED
      BY <2>2, <2>3, <3>2, <3>3, WorkKeepsTurn
  <2> QED
    BY <2>4, <2>5
<1> QED
  BY <1>1, <1>2

-------------------------------------------------------------------------------
(* Every action.                                                           *)

(* An event that a task applies keeps the session it is applied to.        *)
LEMMA AppliedKeeps ==
  ASSUME TurnInv, NEW t \in Task, task[t].step # "IDLE", NEW event, event # "FAIL",
         NEW new \in Applied(t, event)
  PROVE  Keeps(session[task[t].s], new)
<1> DEFINE s == session[task[t].s]
<1>1. s \in SoundSession /\ (s.credit = "NONE" => ~s.clock.held)
  BY AtWork
<1>2. new \in applySessionEvent(s, event, "RESERVED") /\ "RESERVED" \in Payers
  BY DEF Applied, Payers
<1> HIDE DEF s
<1> QED
  BY <1>1, <1>2, EventKeepsTurn DEF s

LEMMA SaveOrSkipWorks ==
  ASSUME TurnInv, NEW t \in Task, task[t].step # "IDLE", NEW event, event # "FAIL",
         NEW next, SaveOrSkip(t, event, next, next), turn' = turn, seq' = seq
  PROVE  Works(t, next) /\ \A j \in Interview : Kept(j)
<1>1. IInv /\ task[t].s \in Interview
  BY AtWork DEF TurnInv
<1>2. CASE Goto(t, next)
  BY <1>1, <1>2, GoWorks
<1>3. CASE \E new \in Applied(t, event) : SaveTask(t, task[t].s, new, next)
  BY <1>1, <1>3, AppliedKeeps, SaveWorks
<1> QED
  BY <1>2, <1>3 DEF SaveOrSkip

LEMMA PreparingKeepsTurn ==
  ASSUME TurnInv, IInv', NEW t \in Task, Preparing(t)
  PROVE  TurnInv' /\ HoldsOn
<1> DEFINE i == task[t].s
<1>0. IInv /\ task[t].step # "IDLE"
  BY DEF TurnInv, Preparing, GivesUp, Analyze, AnalyzeEnqueues, Cancel, updateSetup, Doing
<1>1. /\ i \in Interview /\ session[i] \in SoundSession
      /\ Relying(task[t], session[i], turn[i], seq[i])
  BY <1>0, AtWork
<1>2. CASE GivesUp(t)
  BY <1>0, <1>2, GoWorks, WorkEnds DEF GivesUp
<1>3. CASE Analyze(t)
  <2>1. PICK new \in transitionSession(session[i], session[i].state, "ROLE_ANALYSIS") :
          SaveTask(t, i, new, Then(t, "ENQUEUE"))
    BY <1>3 DEF Analyze
  <2>2. Keeps(session[i], new)
    BY <1>1, MoveKeepsTurn
  <2> DEFINE next == Then(t, "ENQUEUE")
  <2>3. next.step = "ENQUEUE" /\ next.op = "ANALYZE"
    BY <1>0, <1>3, ThenWorks DEF Analyze, Doing
  <2>4. SaveTask(t, i, new, next)
    BY <2>1
  <2> HIDE DEF next
  <2>5. Works(t, next)
    BY <1>0, <1>1, <1>3, <2>2, <2>4, SaveWorks DEF Analyze
  <2>6. ~Locks(next) /\ Still(next)
    BY <2>3 DEF Locks, Still, Relying, Working
  <2> QED
    BY <1>3, <2>5, <2>6, WorkNeedsNone DEF Analyze
<1>4. CASE AnalyzeEnqueues(t)
  <2>1. Works(t, Idle)
    <3>1. CASE Goto(t, Idle)
      BY <1>0, <1>4, <3>1, GoWorks DEF AnalyzeEnqueues
    <3>2. CASE ~Goto(t, Idle)
      <4>1. PICK new \in transitionSession(session[i], "ROLE_ANALYSIS", "FAILED") :
              SaveTask(t, i, new, Idle)
        BY <1>4, <3>2 DEF AnalyzeEnqueues
      <4>2. Keeps(session[i], new)
        BY <1>1, MoveKeepsTurn
      <4> QED
        BY <1>0, <1>1, <1>4, <4>1, <4>2, SaveWorks DEF AnalyzeEnqueues
    <3> QED
      BY <3>1, <3>2
  <2> QED
    BY <1>4, <2>1, WorkEnds DEF AnalyzeEnqueues
<1>5. CASE Cancel(t)
  <2>1. PICK new \in transitionSession(session[i], session[i].state, "CANCELLED") :
          SaveTask(t, i, new, Idle)
    BY <1>5 DEF Cancel
  <2>2. Keeps(session[i], new)
    BY <1>1, MoveKeepsTurn
  <2>3. Works(t, Idle)
    BY <1>0, <1>1, <1>5, <2>1, <2>2, SaveWorks DEF Cancel
  <2> QED
    BY <1>5, <2>3, WorkEnds DEF Cancel
<1>6. CASE updateSetup(t)
  <2>1. PICK mode \in Mode : session' = [session EXCEPT ![i].mode = mode]
    BY <1>6 DEF updateSetup
  <2>2. ASSUME NEW j \in Interview
        PROVE  Keeps(session[j], session'[j])
    <3>1. session[j] \in Session
      BY <1>0 DEF IInv, CoreInv, SoundSession
    <3>2. session'[j] = IF j = i THEN [session[j] EXCEPT !.mode = mode] ELSE session[j]
      BY <1>0, <2>1 DEF IInv, CoreInv
    <3> QED
      BY <3>1, <3>2 DEF Keeps, Counted, Session
  <2>3. \A u \in Task : task'[u] = IF u = t THEN Idle ELSE task[u]
    BY <1>0, <1>6 DEF updateSetup, IInv, CoreInv
  <2>4. Works(t, Idle)
    BY <1>6, <2>2, <2>3 DEF updateSetup, Works, SameWork, Kept
  <2> QED
    BY <1>6, <2>4, WorkEnds DEF updateSetup
<1> QED
  BY <1>2, <1>3, <1>4, <1>5, <1>6 DEF Preparing

LEMMA RunningKeepsTurn ==
  ASSUME TurnInv, IInv', NEW t \in Task, Running(t)
  PROVE  TurnInv' /\ HoldsOn
<1> DEFINE i == task[t].s
<1>0. IInv /\ task[t].step # "IDLE"
  BY DEF TurnInv, Running, Start, EndRequested, Finish, Join, JoinBusy, GoneFetches,
         GoneReads, Disconnected, Doing
<1>1. /\ i \in Interview /\ session[i] \in SoundSession
      /\ session[i].credit = "NONE" => ~session[i].clock.held
  BY <1>0, AtWork
<1>2. CASE Start(t)
  <2>1. Works(t, Idle)
    <3>1. CASE Goto(t, Idle)
      BY <1>0, <1>2, <3>1, GoWorks DEF Start
    <3>2. CASE ~Goto(t, Idle)
      <4>1. PICK payer \in payerOf(i), ready \in walked(session[i]) :
              \E new \in applySessionEvent(ready, "START", payer) : SaveTask(t, i, new, Idle)
        BY <1>2, <3>2 DEF Start
      <4>2. PICK new \in applySessionEvent(ready, "START", payer) : SaveTask(t, i, new, Idle)
        BY <4>1
      <4>3. payer \in Payers
        BY <1>1, InterviewAssumption DEF payerOf, Payers
      <4>4. Keeps(session[i], new)
        <5> DEFINE s == session[i]
        <5>1. s \in SoundSession /\ (s.credit = "NONE" => ~s.clock.held) /\ ready \in walked(s)
          BY <1>1, <4>1
        <5> HIDE DEF s
        <5> QED
          BY <4>2, <4>3, <5>1, StartKeepsTurn DEF s
      <4> QED
        BY <1>0, <1>1, <1>2, <4>2, <4>4, SaveWorks DEF Start
    <3> QED
      BY <3>1, <3>2
  <2> QED
    BY <1>2, <2>1, WorkEnds DEF Start
<1>3. CASE EndRequested(t)
  <2>1. CASE Goto(t, Idle) /\ lock' = Unlocked(t, i)
    BY <1>0, <1>3, <2>1, GoWorks, WorkEnds DEF EndRequested
  <2>2. CASE ~(Goto(t, Idle) /\ lock' = Unlocked(t, i))
    <3> DEFINE next == Then(t, "FINISH")
    <3>1. PICK new \in Applied(t, "END_REQUESTED") : SaveTask(t, i, new, next)
      BY <1>3, <2>2 DEF EndRequested
    <3>2. lock' = lock
      BY <1>3, <2>2 DEF EndRequested
    <3>3. next.step = "FINISH" /\ next.op = "END" /\ next.s = i /\ task[t].op = "END"
      BY <1>0, <1>3, ThenWorks DEF EndRequested, Doing
    <3> HIDE DEF next
    <3>4. Works(t, next)
      BY <1>0, <1>1, <1>3, <3>1, AppliedKeeps, SaveWorks DEF EndRequested
    <3>5. Still(next)
      BY <3>3 DEF Still, Relying, Working
    <3> QED
      BY <1>0, <3>2, <3>3, <3>4, <3>5, WorkGoesOn
  <2> QED
    BY <2>1, <2>2
<1>4. CASE Finish(t)
  BY <1>0, <1>4, SaveOrSkipWorks, WorkEnds DEF Finish
<1>5. CASE Join(t)
  BY <1>0, <1>5, SaveOrSkipWorks, WorkEnds DEF Join, ResumeEvent
<1>6. CASE JoinBusy(t)
  BY <1>0, <1>6, GoWorks, WorkEnds DEF JoinBusy
<1>7. CASE GoneFetches(t)
  <2>1. CASE Goto(t, Idle)
    BY <1>0, <1>7, <2>1, GoWorks, WorkEnds DEF GoneFetches
  <2>2. CASE ~Goto(t, Idle)
    <3> DEFINE next == [task[t] EXCEPT !.step = "WAIT"]
    <3>1. Goto(t, next)
      BY <1>7, <2>2 DEF GoneFetches
    <3>2. next.step = "WAIT" /\ next.op = "GONE"
      BY <1>0, <1>7, AtWork DEF GoneFetches, Doing
    <3> HIDE DEF next
    <3>3. ~Locks(next) /\ Still(next)
      BY <3>2 DEF Locks, Still, Relying, Working
    <3> QED
      BY <1>0, <1>7, <3>1, <3>3, GoWorks, WorkNeedsNone DEF GoneFetches
  <2> QED
    BY <2>1, <2>2
<1>8. CASE GoneReads(t)
  <2>1. CASE Goto(t, Idle) /\ lock' = lock
    BY <1>0, <1>8, <2>1, GoWorks, WorkEnds DEF GoneReads
  <2>2. CASE ~(Goto(t, Idle) /\ lock' = lock)
    <3> DEFINE next == Then(t, "DECIDED")
    <3>1. Goto(t, next) /\ lock[i] = "FREE" /\ lock' = [lock EXCEPT ![i] = t]
      BY <1>8, <2>2 DEF GoneReads
    <3>2. next.step = "DECIDED" /\ next.op = "GONE" /\ next.s = i
      BY <1>0, <1>8, ThenWorks DEF GoneReads, Doing
    <3> HIDE DEF next
    <3>3. Still(next)
      BY <3>2 DEF Still, Relying, Working
    <3>4. Works(t, next)
      BY <1>0, <1>8, <3>1, GoWorks DEF GoneReads
    <3> QED
      BY <1>1, <3>1, <3>2, <3>3, <3>4, WorkTakes
  <2> QED
    BY <2>1, <2>2
<1>9. CASE Disconnected(t)
  BY <1>0, <1>9, SaveOrSkipWorks, WorkEnds DEF Disconnected
<1> QED
  BY <1>2, <1>3, <1>4, <1>5, <1>6, <1>7, <1>8, <1>9 DEF Running

(* A save under the lock that changes more than Keeps allows.              *)
LEMMA OwnSaveWorks ==
  ASSUME IInv, NEW t \in Task, NEW i \in Interview, NEW new, NEW next,
         SaveTask(t, i, new, next), Owns(t, i),
         \A j \in Interview \ {i} : turn'[j] = turn[j] /\ seq'[j] = seq[j]
  PROVE  Works(t, next)
<1> USE DEF IInv
<1>1. task'[t] = next
  BY DEF SaveTask
<1>2. ASSUME NEW u \in Task \ {t}
      PROVE  SameWork(task[u], task'[u])
  <2>1. task'[u] = Outdated(u, i)
    BY DEF SaveTask
  <2>2. CASE task[u].s # i
    BY <2>1, <2>2 DEF Outdated, SameWork
  <2>3. CASE task[u].s = i
    <3>1. task[u] # Idle
      BY <2>3, InterviewAssumption DEF Idle
    <3> QED
      BY <2>1, <2>3, <3>1 DEF Outdated, SameWork, CoreInv, TaskType
  <2> QED
    BY <2>2, <2>3
<1>3. \A j \in Interview : j # i => Kept(j)
  BY DEF Kept, SaveTask, Write, CoreInv, Keeps
<1> QED
  BY <1>1, <1>2, <1>3 DEF Works

(* What follows a hold.                                                    *)
LEMMA HoldEndsKeepsTurn ==
  ASSUME TurnInv, IInv', NEW t \in Task, task[t].step # "IDLE",
         Works(t, AfterHold(t)), HoldEnds(t)
  PROVE  TurnInv' /\ HoldsOn
<1>1. CASE task[t].op = "ANSWER"
  BY <1>1, WorkEnds DEF AfterHold, HoldEnds
<1>2. CASE task[t].op # "ANSWER"
  <2> DEFINE next == Then(t, "READ")
  <2>1. Works(t, next) /\ lock' = lock
    BY <1>2 DEF AfterHold, HoldEnds
  <2>2. next.op = task[t].op /\ next.step = "READ" /\ next.s = task[t].s
    BY ThenWorks
  <2> HIDE DEF next
  <2>3. Still(next)
    BY <1>2, <2>2 DEF Still, Relying, Working
  <2> QED
    BY <2>1, <2>2, <2>3, WorkGoesOn
<1> QED
  BY <1>1, <1>2

LEMMA AnsweringKeepsTurn ==
  ASSUME TurnInv, IInv', NEW t \in Task,
         AnswerResumes(t) \/ AnswerSaves(t) \/ HoldReads(t) \/ HoldSaves(t)
  PROVE  TurnInv' /\ HoldsOn
<1> DEFINE i == task[t].s
<1>0. IInv /\ task[t].step # "IDLE"
  BY DEF TurnInv, AnswerResumes, AnswerSaves, HoldReads, HoldSaves, Doing
<1>1. /\ i \in Interview /\ session[i] \in SoundSession /\ session[i] \in Session
      /\ Relying(task[t], session[i], turn[i], seq[i])
      /\ Locks(task[t]) => lock[i] = t
      /\ task[t] \in [op : Operation, step : Step, s : Interview, fresh : BOOLEAN,
                      q : 0..MaxQuestions, tries : 0..(Retries - 1)]
  BY <1>0, AtWork
<1>2. CASE AnswerResumes(t)
  <2> DEFINE next == Then(t, "SAVE_ANSWER")
  <2>1. /\ next.op = "ANSWER" /\ task[t].op = "ANSWER" /\ next.step = "SAVE_ANSWER"
        /\ next.s = i
    BY <1>0, <1>2, ThenWorks DEF AnswerResumes, Doing
  <2>2. \/ /\ lock' = Unlocked(t, i)
           /\ \/ Goto(t, Idle)
              \/ \E new \in Applied(t, "RECONNECTED") : SaveTask(t, i, new, Idle)
        \/ lock' = lock /\ \E new \in Applied(t, "RECONNECTED") : SaveTask(t, i, new, next)
    BY <1>2 DEF AnswerResumes
  <2> HIDE DEF next
  <2>3. CASE lock' = Unlocked(t, i) /\ Goto(t, Idle)
    BY <1>0, <1>2, <2>3, GoWorks, WorkEnds DEF AnswerResumes
  <2>4. CASE /\ lock' = Unlocked(t, i)
             /\ \E new \in Applied(t, "RECONNECTED") : SaveTask(t, i, new, Idle)
    <3>1. Works(t, Idle)
      BY <1>0, <1>1, <1>2, <2>4, AppliedKeeps, SaveWorks DEF AnswerResumes
    <3> QED
      BY <2>4, <3>1, WorkEnds
  <2>5. CASE lock' = lock /\ \E new \in Applied(t, "RECONNECTED") : SaveTask(t, i, new, next)
    <3>1. Works(t, next) /\ Kept(i)
      BY <1>0, <1>1, <1>2, <2>5, AppliedKeeps, SaveWorks DEF AnswerResumes
    <3>2. Still(next)
      BY <1>1, <2>1, <3>1, StillRelied DEF Relying, Working
    <3> QED
      BY <1>0, <2>1, <2>5, <3>1, <3>2, WorkGoesOn
  <2> QED
    BY <2>2, <2>3, <2>4, <2>5
<1>3. CASE AnswerSaves(t)
  <2>1. CASE Goto(t, Idle) /\ UNCHANGED turn
    BY <1>0, <1>3, <2>1, GoWorks, WorkEnds DEF AnswerSaves
  <2>2. CASE ~(Goto(t, Idle) /\ UNCHANGED turn)
    <3> DEFINE next == [task[t] EXCEPT !.step = "HOLD"]
    <3>1. /\ turn[i] = "ASKED" /\ turn' = [turn EXCEPT ![i] = "ANSWERED"]
          /\ task' = [task EXCEPT ![t] = next]
          /\ session' = session /\ seq' = seq /\ lock' = lock
      BY <1>3, <2>2 DEF AnswerSaves
    <3>2. /\ next.step = "HOLD" /\ next.op = "ANSWER" /\ task[t].op = "ANSWER" /\ next.s = i
      BY <1>1, <1>3 DEF AnswerSaves, Doing
    <3> HIDE DEF next
    <3>3. session[i].credit # "NONE" /\ lock[i] = t
      BY <1>1, <3>2 DEF Relying, Locks
    <3>4. Owns(t, i)
      <4>1. turn'[i] = "ANSWERED"
        BY <1>0, <1>1, <3>1 DEF IInv, RestInv
      <4>2. Counted(session[i]) <= seq[i] /\ Counted(session[i]) < seq[i]
        BY <1>1, <3>1 DEF TurnInv, CountInv
      <4> QED
        BY <3>1, <3>3, <4>1, <4>2 DEF Owns
    <3>5. Works(t, next)
      <4>1. \A u \in Task : task'[u] = IF u = t THEN next ELSE task[u]
        BY <1>0, <3>1 DEF IInv, CoreInv
      <4>2. \A j \in Interview \ {i} : Kept(j)
        BY <1>0, <3>1 DEF IInv, RestInv, Kept, Keeps
      <4> QED
        BY <3>4, <4>1, <4>2 DEF Works, SameWork
    <3>6. Still(next)
      BY <3>1, <3>2, <3>3 DEF Still, Relying, Working
    <3> QED
      BY <1>0, <3>1, <3>2, <3>5, <3>6, WorkGoesOn
  <2> QED
    BY <2>1, <2>2
<1>4. CASE HoldReads(t)
  <2>1. CASE Goto(t, AfterHold(t)) /\ HoldEnds(t)
    BY <1>0, <1>4, <2>1, GoWorks, HoldEndsKeepsTurn DEF HoldReads
  <2>2. CASE ~(Goto(t, AfterHold(t)) /\ HoldEnds(t))
    <3> DEFINE next == [task[t] EXCEPT !.step = "HOLDING", !.fresh = TRUE]
    <3>1. Goto(t, next) /\ lock' = lock /\ task[t].step = "HOLD"
      BY <1>4, <2>2 DEF HoldReads
    <3>2. next.step = "HOLDING" /\ next.op = task[t].op /\ next.s = i
      BY <1>1
    <3> HIDE DEF next
    <3>3. Works(t, next) /\ Kept(i)
      BY <1>0, <1>1, <1>4, <3>1, GoWorks DEF HoldReads
    <3>4. Still(next)
      BY <1>1, <3>1, <3>2, <3>3, StillRelied DEF Relying, Working
    <3> QED
      BY <1>0, <3>1, <3>2, <3>3, <3>4, WorkGoesOn
  <2> QED
    BY <2>1, <2>2
<1>5. CASE HoldSaves(t)
  <2>0. session[i].credit # "NONE" /\ task[t].step = "HOLDING"
    BY <1>1, <1>5 DEF HoldSaves, Relying, Working
  <2>1. CASE Current(t)
    <3> DEFINE c == holdClock(session[i].clock)
               new == [session[i] EXCEPT !.clock = c]
    <3>1. SaveTask(t, i, new, AfterHold(t)) /\ HoldEnds(t)
      BY <1>5, <2>1 DEF HoldSaves
    <3>2. c.held
      BY <1>1 DEF holdClock, Session, Clock
    <3> HIDE DEF c
    <3>3. Keeps(session[i], new)
      BY <1>1, <2>0, <3>2 DEF Keeps, Counted, Session
    <3> HIDE DEF new
    <3>4. Works(t, AfterHold(t))
      BY <1>0, <1>1, <1>5, <3>1, <3>3, SaveWorks DEF HoldSaves
    <3> QED
      BY <1>0, <3>1, <3>4, HoldEndsKeepsTurn
  <2>2. CASE Goto(t, AfterHold(t)) /\ HoldEnds(t)
    BY <1>0, <1>5, <2>2, GoWorks, HoldEndsKeepsTurn DEF HoldSaves
  <2>3. CASE TriesAgain(t, "HOLD") /\ UNCHANGED <<kicked, lock>>
    <3> DEFINE next == [task[t] EXCEPT !.step = "HOLD", !.tries = @ + 1]
    <3>1. Goto(t, next) /\ lock' = lock
      BY <2>3 DEF TriesAgain
    <3>2. next.step = "HOLD" /\ next.op = task[t].op /\ next.s = i
      BY <1>1
    <3> HIDE DEF next
    <3>3. Works(t, next) /\ Kept(i)
      BY <1>0, <1>1, <1>5, <3>1, GoWorks DEF HoldSaves
    <3>4. Still(next)
      BY <2>0, <3>2, <3>3, StillRelied DEF Relying, Working
    <3> QED
      BY <1>0, <3>1, <3>2, <3>3, <3>4, WorkGoesOn
  <2> QED
    BY <1>5, <2>1, <2>2, <2>3 DEF HoldSaves
<1> QED
  BY <1>2, <1>3, <1>4, <1>5

LEMMA AdvancingKeepsTurn ==
  ASSUME TurnInv, IInv', NEW t \in Task,
         \/ AdvanceReads(t) \/ NextRound(t) \/ TimeUp(t) \/ RoundEnded(t)
         \/ StrayHoldReleased(t)
  PROVE  TurnInv' /\ HoldsOn
<1> DEFINE i == task[t].s
           read == Then(t, "READ")
<1>0. IInv /\ task[t].step # "IDLE" /\ task[t].op = "ADVANCE"
  <2>1. IInv /\ task[t].step # "IDLE"
    BY DEF TurnInv, AdvanceReads, NextRound, TimeUp, RoundEnded, StrayHoldReleased,
           AdvanceFires, Doing
  <2>2. task[t].op = "ADVANCE"
    BY DEF AdvanceReads, NextRound, TimeUp, RoundEnded, StrayHoldReleased, AdvanceFires, Doing
  <2> QED
    BY <2>1, <2>2
<1>1. /\ i \in Interview /\ session[i] \in SoundSession /\ session[i] \in Session
      /\ session[i].credit = "NONE" => ~session[i].clock.held
      /\ Relying(task[t], session[i], turn[i], seq[i])
      /\ lock[i] = t
  BY <1>0, AtWork DEF Locks
<1>2. read.op = "ADVANCE" /\ read.s = i /\ read.step = "READ"
  BY <1>0, ThenWorks
<1>3. Still(read)
  BY <1>2 DEF Still, Relying, Working
<1> HIDE DEF read
<1>4. CASE AdvanceReads(t)
  <2>1. PICK move \in moves(i) :
          IF move = "STOP" THEN Goto(t, Idle) /\ lock' = Unlocked(t, i)
          ELSE Goto(t, Then(t, move)) /\ UNCHANGED lock
    BY <1>4 DEF AdvanceReads
  <2>2. CASE move = "STOP"
    BY <1>0, <1>4, <2>1, <2>2, GoWorks, WorkEnds DEF AdvanceReads
  <2>3. CASE move # "STOP"
    <3> DEFINE next == Then(t, move)
    <3>1. Goto(t, next) /\ lock' = lock
      BY <2>1, <2>3
    <3>2. next.op = "ADVANCE" /\ next.s = i /\ next.step = move /\ next.q = seq[i]
      BY <1>0, ThenWorks
    <3>3. move \notin {"DECIDED", "COUNT", "COUNTING"}
          /\ (move \in Working => session[i].state = "ACTIVE")
      BY DEF moves, Working
    <3>4. (move = "RELEASE" => turn[i] = "ASKED") /\ (move = "ASSESS" => turn[i] = "ANSWERED")
      BY DEF moves
    <3>5. session[i].state = "ACTIVE" => session[i].credit # "NONE"
      BY <1>1 DEF SoundSession, StateInv, IN_PROGRESS_STATES, LIVE_STATES
    <3> HIDE DEF next
    <3>6. Works(t, next) /\ Kept(i)
      BY <1>0, <1>1, <1>4, <3>1, GoWorks DEF AdvanceReads
    <3>7. Still(next)
      BY <3>2, <3>3, <3>4, <3>5, <3>6, StillRelied DEF Relying
    <3> QED
      BY <1>0, <3>1, <3>2, <3>3, <3>6, <3>7, WorkGoesOn
  <2> QED
    BY <2>2, <2>3
<1>5. CASE NextRound(t) \/ TimeUp(t)
  <2>1. PICK event \in {"NEXT_ROUND", "TIME_UP"} :
          SaveOrSkip(t, event, read, read) /\ UNCHANGED <<turn, seq, lock>>
    BY <1>5 DEF NextRound, TimeUp, AdvanceFires, read
  <2>2. Works(t, read)
    BY <1>0, <2>1, SaveOrSkipWorks
  <2> QED
    BY <1>0, <1>2, <1>3, <2>1, <2>2, WorkGoesOn
<1>6. CASE RoundEnded(t)
  <2>0. turn' = turn /\ seq' = seq /\ lock' = lock
    BY <1>6 DEF RoundEnded
  <2>1. Works(t, read)
    <3>1. CASE Goto(t, read)
      BY <1>0, <2>0, <3>1, GoWorks
    <3>2. CASE ~Goto(t, read)
      <4> DEFINE ended(outcome) ==
                   [session[i] EXCEPT !.planner = endCurrentRound(@, outcome)]
      <4>1. PICK outcome \in {"COMPLETED", "TIMED_OUT"} :
              \E new \in applySessionEvent(ended(outcome), "ROUND_ENDED", "FREE") :
                SaveTask(t, i, new, read)
        BY <1>6, <3>2 DEF RoundEnded, read
      <4> DEFINE s == ended(outcome)
      <4>2. PICK new \in applySessionEvent(s, "ROUND_ENDED", "FREE") : SaveTask(t, i, new, read)
        BY <4>1
      <4>3. s \in SoundSession
        BY <1>1, EndRoundTyped, PlannerSound DEF RoundState, Session
      <4>4. /\ Keeps(session[i], s) /\ s.credit = session[i].credit /\ s.clock = session[i].clock
        BY <1>1 DEF Keeps, Counted, Session, Planner, endCurrentRound
      <4> HIDE DEF ended, s
      <4>5. Keeps(s, new)
        BY <1>1, <4>2, <4>3, <4>4, EventKeepsTurn DEF Payers
      <4>6. Keeps(session[i], new)
        BY <4>4, <4>5, KeepsTwice
      <4> QED
        BY <1>0, <1>1, <2>0, <4>2, <4>6, SaveWorks
    <3> QED
      BY <3>1, <3>2
  <2> QED
    BY <1>0, <1>2, <1>3, <2>0, <2>1, WorkGoesOn
<1>7. CASE StrayHoldReleased(t)
  <2>0. turn' = turn /\ seq' = seq /\ lock' = Unlocked(t, i) /\ task[t].step = "RELEASE"
    BY <1>7 DEF StrayHoldReleased, Doing
  <2>1. Works(t, Idle)
    <3>1. CASE Goto(t, Idle)
      BY <1>0, <2>0, <3>1, GoWorks
    <3>2. CASE ~Goto(t, Idle)
      <4> DEFINE c == releasedSessionClock(session[i])
                 new == [session[i] EXCEPT !.clock = c]
      <4>1. SaveTask(t, i, new, Idle)
        BY <1>7, <3>2 DEF StrayHoldReleased
      <4>2. session'[i] = new
        BY <1>0, <1>1, <4>1 DEF SaveTask, Write, IInv, CoreInv
      <4> HIDE DEF c
      <4>3. Counted(new) = Counted(session[i]) /\ new.credit = session[i].credit
        BY <1>1 DEF Counted, Session
      <4>4. turn[i] = "ASKED" /\ session[i].credit # "NONE"
        BY <1>1, <2>0 DEF Relying, Working
      <4>5. Counted(session[i]) <= seq[i] /\ Counted(session[i]) < seq[i]
        BY <1>1, <4>4 DEF TurnInv, CountInv
      <4> HIDE DEF new
      <4>6. Owns(t, i)
        BY <1>1, <2>0, <4>2, <4>3, <4>4, <4>5 DEF Owns
      <4> QED
        BY <1>0, <1>1, <2>0, <4>1, <4>6, OwnSaveWorks
    <3> QED
      BY <3>1, <3>2
  <2> QED
    BY <2>0, <2>1, WorkEnds
<1> QED
  BY <1>4, <1>5, <1>6, <1>7

LEMMA AssessingKeepsTurn ==
  ASSUME TurnInv, IInv', NEW t \in Task,
         Assess(t) \/ CountReads(t) \/ CountSaves(t) \/ Asks(t)
  PROVE  TurnInv' /\ HoldsOn
<1> DEFINE i == task[t].s
           read == Then(t, "READ")
<1>0. IInv /\ task[t].step # "IDLE" /\ task[t].op = "ADVANCE"
  BY DEF TurnInv, Assess, CountReads, CountSaves, Asks, Doing
<1>1. /\ i \in Interview /\ session[i] \in SoundSession /\ session[i] \in Session
      /\ Relying(task[t], session[i], turn[i], seq[i])
      /\ lock[i] = t
      /\ task[t] \in [op : Operation, step : Step, s : Interview, fresh : BOOLEAN,
                      q : 0..MaxQuestions, tries : 0..(Retries - 1)]
  BY <1>0, AtWork DEF Locks
<1>2. read.op = "ADVANCE" /\ read.s = i /\ read.step = "READ"
  BY <1>0, ThenWorks
<1>3. Still(read)
  BY <1>2 DEF Still, Relying, Working
<1>4. seq[i] \in Nat /\ Counted(session[i]) \in Nat /\ Counted(session[i]) <= seq[i]
  BY <1>0, <1>1, InterviewAssumption, SessionAssumption
     DEF TurnInv, CountInv, Counted, IInv, RestInv, Session, Planner
<1> HIDE DEF read
<1>5. ASSUME Goto(t, read), turn' = turn, seq' = seq, lock' = lock
      PROVE  TurnInv' /\ HoldsOn
  BY <1>0, <1>2, <1>3, <1>5, GoWorks, WorkGoesOn
<1>6. CASE Assess(t)
  <2> DEFINE next == [task[t] EXCEPT !.step = "COUNT"]
  <2>1. /\ Goto(t, next) /\ turn' = [turn EXCEPT ![i] = assessed(t, i)]
        /\ seq' = seq /\ lock' = lock /\ task[t].step = "ASSESS"
    BY <1>6 DEF Assess, Doing
  <2>2. /\ next.step = "COUNT" /\ next.op = "ADVANCE" /\ next.s = i /\ next.q = task[t].q
    BY <1>0, <1>1
  <2> HIDE DEF next
  <2>3. session[i].credit # "NONE" /\ turn[i] = "ANSWERED" /\ task[t].q = seq[i]
    BY <1>1, <2>1 DEF Relying, Working
  <2>4. turn'[i] = "ASSESSED" /\ \A j \in Interview \ {i} : turn'[j] = turn[j]
    BY <1>0, <1>1, <2>1, <2>3 DEF assessed, IInv, RestInv
  <2>5. Counted(session[i]) < seq[i]
    BY <1>1, <2>3 DEF TurnInv, CountInv
  <2>6. session' = session
    BY <2>1 DEF Goto
  <2>7. Owns(t, i)
    BY <1>1, <1>4, <2>1, <2>3, <2>4, <2>6 DEF Owns
  <2>8. Works(t, next)
    <3>1. \A u \in Task : task'[u] = IF u = t THEN next ELSE task[u]
      BY <1>0, <2>1 DEF IInv, CoreInv, Goto
    <3>2. \A j \in Interview \ {i} : Kept(j)
      BY <2>1, <2>4, <2>6 DEF Kept, Keeps
    <3> QED
      BY <2>7, <3>1, <3>2 DEF Works, SameWork
  <2>9. Still(next)
    BY <2>1, <2>2, <2>3, <2>4, <2>5, <2>6 DEF Still, Relying, Working
  <2> QED
    BY <1>0, <2>1, <2>2, <2>8, <2>9, WorkGoesOn
<1>7. CASE CountReads(t)
  <2>0. turn' = turn /\ seq' = seq /\ lock' = lock /\ task[t].step = "COUNT"
    BY <1>7 DEF CountReads, Doing
  <2>1. CASE Goto(t, read)
    BY <1>5, <2>0, <2>1
  <2>2. CASE ~Goto(t, read)
    <3> DEFINE next == [task[t] EXCEPT !.step = "COUNTING", !.fresh = TRUE]
    <3>1. Goto(t, next)
      BY <1>7, <2>2 DEF CountReads, read
    <3>2. /\ next.step = "COUNTING" /\ next.op = "ADVANCE" /\ next.s = i /\ next.q = task[t].q
      BY <1>0, <1>1
    <3> HIDE DEF next
    <3>3. Works(t, next) /\ Kept(i)
      BY <1>0, <1>1, <2>0, <3>1, GoWorks
    <3>4. Still(next)
      BY <1>1, <2>0, <3>2, <3>3, StillRelied DEF Relying, Working
    <3> QED
      BY <1>0, <2>0, <3>2, <3>3, <3>4, WorkGoesOn
  <2> QED
    BY <2>1, <2>2
<1>8. CASE CountSaves(t)
  <2>0. turn' = turn /\ seq' = seq /\ lock' = lock /\ task[t].step = "COUNTING"
    BY <1>8 DEF CountSaves, Doing
  <2>1. CASE Current(t)
    <3>1. PICK counts \in BOOLEAN :
            SaveTask(t, i, [session[i] EXCEPT !.planner = recordAssessment(@, counts)], read)
      BY <1>8, <2>1 DEF CountSaves, read
    <3> DEFINE p == recordAssessment(session[i].planner, counts)
               new == [session[i] EXCEPT !.planner = p]
    <3>2. SaveTask(t, i, new, read)
      BY <3>1
    <3>3. p.answeredCount <= Counted(session[i]) + 1
      BY <1>1, <1>4 DEF recordAssessment, Counted, Session, Planner
    <3> HIDE DEF p
    <3>4. /\ Counted(new) = p.answeredCount
          /\ new.credit = session[i].credit /\ new.clock = session[i].clock
      BY <1>1 DEF Counted, Session
    <3>5. session'[i] = new
      BY <1>0, <1>1, <3>2 DEF SaveTask, Write, IInv, CoreInv
    <3>6. p.answeredCount \in Nat
      <4>1. session'[i] \in Session
        BY <1>1 DEF IInv, CoreInv, SoundSession
      <4> QED
        BY <3>4, <3>5, <4>1, SessionAssumption DEF Session, Planner, Counted
    <3> HIDE DEF new
    <3>7. session[i].credit # "NONE" /\ turn[i] = "ASSESSED" /\ Counted(session[i]) < seq[i]
      BY <1>1, <2>0 DEF Relying, Working
    <3>8. Owns(t, i)
      BY <1>1, <1>4, <2>0, <3>3, <3>4, <3>5, <3>6, <3>7 DEF Owns
    <3>9. Works(t, read)
      BY <1>0, <1>1, <2>0, <3>2, <3>8, OwnSaveWorks
    <3> QED
      BY <1>0, <1>2, <1>3, <2>0, <3>9, WorkGoesOn
  <2>2. CASE Goto(t, read)
    BY <1>5, <2>0, <2>2
  <2>3. CASE TriesAgain(t, "COUNT")
    <3> DEFINE next == [task[t] EXCEPT !.step = "COUNT", !.tries = @ + 1]
    <3>1. Goto(t, next)
      BY <2>3 DEF TriesAgain
    <3>2. next.step = "COUNT" /\ next.op = "ADVANCE" /\ next.s = i /\ next.q = task[t].q
      BY <1>0, <1>1
    <3> HIDE DEF next
    <3>3. Works(t, next) /\ Kept(i)
      BY <1>0, <1>1, <2>0, <3>1, GoWorks
    <3>4. Still(next)
      BY <1>1, <2>0, <3>2, <3>3, StillRelied DEF Relying, Working
    <3> QED
      BY <1>0, <2>0, <3>2, <3>3, <3>4, WorkGoesOn
  <2> QED
    BY <1>8, <2>1, <2>2, <2>3 DEF CountSaves, read
<1>9. CASE Asks(t)
  <2>1. CASE Current(t)
    <3> DEFINE c == releasedSessionClock(session[i])
               p == [session[i].planner EXCEPT !.thread = TRUE]
               new == [session[i] EXCEPT !.planner = p, !.clock = c]
    <3>1. /\ turn' = [turn EXCEPT ![i] = "ASKED"] /\ seq' = [seq EXCEPT ![i] = @ + 1]
          /\ lock' = Unlocked(t, i) /\ task[t].step = "PLAN_ASK"
      BY <1>9, <2>1 DEF Asks, Doing
    <3>2. SaveTask(t, i, new, Idle)
      <4>1. SaveTask(t, i, [session[i] EXCEPT !.planner.thread = TRUE, !.clock = c], Idle)
        BY <1>9, <2>1 DEF Asks
      <4> QED
        BY <4>1
    <3>3. p.answeredCount = Counted(session[i])
      BY <1>1 DEF Counted, Session, Planner
    <3> HIDE DEF p, c
    <3>4. Counted(new) = Counted(session[i]) /\ new.credit = session[i].credit
      BY <1>1, <3>3 DEF Counted, Session
    <3> HIDE DEF new
    <3>5. session'[i] = new
      BY <1>0, <1>1, <3>2 DEF SaveTask, Write, IInv, CoreInv
    <3>6. session[i].credit # "NONE"
      BY <1>1, <3>1 DEF Relying, Working
    <3>7. turn'[i] = "ASKED" /\ seq'[i] = seq[i] + 1
      BY <1>0, <1>1, <3>1 DEF IInv, RestInv
    <3>8. Owns(t, i)
      BY <1>1, <1>4, <3>4, <3>5, <3>6, <3>7 DEF Owns
    <3>9. \A j \in Interview \ {i} : turn'[j] = turn[j] /\ seq'[j] = seq[j]
      BY <1>0, <3>1 DEF IInv, RestInv
    <3>10. Works(t, Idle)
      BY <1>0, <1>1, <3>2, <3>8, <3>9, OwnSaveWorks
    <3> QED
      BY <3>1, <3>10, WorkEnds
  <2>2. CASE ~Current(t)
    BY <1>5, <1>9, <2>2 DEF Asks, read
  <2> QED
    BY <2>1, <2>2
<1> QED
  BY <1>6, <1>7, <1>8, <1>9

LEMMA BeginsKeepsTurn ==
  ASSUME TurnInv, IInv', NEW t \in Task, NEW i \in Interview, Begins(t, i)
  PROVE  TurnInv' /\ HoldsOn
<1>1. IInv /\ session[i] \in SoundSession
  BY DEF TurnInv, IInv, CoreInv
<1>2. \A op, step, fresh :
        /\ At(op, step, i, fresh).op = op /\ At(op, step, i, fresh).step = step
        /\ At(op, step, i, fresh).s = i
  BY DEF At
<1>3. CASE AnalyzeBegins(t, i) \/ CancelBegins(t, i) \/ SetupBegins(t, i) \/ StartBegins(t, i)
  <2>1. PICK op \in {"ANALYZE", "CANCEL", "SETUP", "START"} : RequestBegins(t, i, op)
    BY <1>3 DEF AnalyzeBegins, CancelBegins, SetupBegins, StartBegins
  <2> DEFINE next == At(op, "DECIDED", i, TRUE)
  <2>2. Goto(t, next) /\ next.op = op /\ next.step = "DECIDED"
    BY <1>2, <2>1 DEF RequestBegins
  <2> HIDE DEF next
  <2>3. ~Locks(next) /\ Still(next)
    BY <2>2 DEF Locks, Still, Relying, Working
  <2> QED
    BY <1>1, <2>1, <2>2, <2>3, GoWorks, WorkNeedsNone DEF RequestBegins
<1>4. ASSUME NEW next, Goto(t, next), next.s = i, Still(next), turn' = turn, seq' = seq,
             lock[i] = "FREE", lock' = [lock EXCEPT ![i] = t]
      PROVE  TurnInv' /\ HoldsOn
  BY <1>1, <1>4, GoWorks, WorkTakes
<1>5. CASE EndBegins(t, i)
  <2> DEFINE next == At("END", IF session[i].state = "COMPLETING" THEN "FINISH" ELSE "DECIDED",
                        i, TRUE)
  <2>1. next.op = "END" /\ next.s = i /\ next.step \in {"FINISH", "DECIDED"}
    BY DEF At
  <2>2. Goto(t, next)
    BY <1>5 DEF EndBegins
  <2> HIDE DEF next
  <2>3. Still(next)
    BY <2>1 DEF Still, Relying, Working
  <2> QED
    BY <1>4, <1>5, <2>1, <2>2, <2>3 DEF EndBegins
<1>6. CASE JoinBegins(t, i)
  <2>1. CASE session[i].state \in {"RECONNECTING", "PAUSED"}
    <3> DEFINE next == At("JOIN", "DECIDED", i, TRUE)
    <3>1. Goto(t, next) /\ next.op = "JOIN" /\ next.step = "DECIDED"
      BY <1>6, <2>1 DEF JoinBegins, At
    <3> HIDE DEF next
    <3>2. ~Locks(next) /\ Still(next)
      BY <3>1 DEF Locks, Still, Relying, Working
    <3> QED
      BY <1>1, <1>6, <3>1, <3>2, GoWorks, WorkNeedsNone DEF JoinBegins
  <2>2. CASE session[i].state \notin {"RECONNECTING", "PAUSED"}
    BY <1>6, <2>2, NobodyWorks DEF JoinBegins, SameWork, Kept, Keeps
  <2> QED
    BY <2>1, <2>2
<1>7. CASE AnswerBegins(t, i)
  <2> DEFINE next == At("ANSWER", IF session[i].state = "ACTIVE" THEN "SAVE_ANSWER"
                                  ELSE "DECIDED", i, TRUE)
  <2>1. next.op = "ANSWER" /\ next.s = i /\ next.step \in {"SAVE_ANSWER", "DECIDED"}
    BY DEF At
  <2>2. Goto(t, next)
    BY <1>7 DEF AnswerBegins
  <2>3. session'[i].credit # "NONE"
    BY <1>1, <1>7
       DEF AnswerBegins, Goto, ANSWERABLE_STATES, SoundSession, StateInv, IN_PROGRESS_STATES,
           LIVE_STATES
  <2> HIDE DEF next
  <2>4. Still(next)
    BY <2>1, <2>3 DEF Still, Relying, Working
  <2> QED
    BY <1>4, <1>7, <2>1, <2>2, <2>4 DEF AnswerBegins
<1>8. CASE AdvanceBegins(t, i)
  <2> DEFINE next == At("ADVANCE", "READ", i, TRUE)
  <2>1. next.op = "ADVANCE" /\ next.s = i /\ next.step = "READ"
    BY <1>2
  <2>2. Goto(t, next)
    BY <1>8 DEF AdvanceBegins
  <2> HIDE DEF next
  <2>3. Still(next)
    BY <2>1 DEF Still, Relying, Working
  <2> QED
    BY <1>4, <1>8, <2>1, <2>2, <2>3 DEF AdvanceBegins
<1> QED
  BY <1>3, <1>5, <1>6, <1>7, <1>8 DEF Begins

(* A save by the worker is a step of nobody.                               *)
LEMMA WorkerKeepsTurn ==
  ASSUME TurnInv, IInv', NEW i \in Interview, NEW new, NEW next, SaveWorker(i, new, next),
         Keeps(session[i], new), turn' = turn, seq' = seq, lock' = lock
  PROVE  TurnInv' /\ HoldsOn
<1>1. IInv
  BY DEF TurnInv
<1>2. ASSUME NEW u \in Task
      PROVE  SameWork(task[u], task'[u])
  <2>1. task'[u] = Outdated(u, i)
    BY DEF SaveWorker
  <2>2. CASE task[u].s # i
    BY <2>1, <2>2 DEF Outdated, SameWork
  <2>3. CASE task[u].s = i
    <3>1. task[u] # Idle
      BY <2>3, InterviewAssumption DEF Idle
    <3> QED
      BY <1>1, <2>1, <2>3, <3>1 DEF Outdated, SameWork, IInv, CoreInv, TaskType
  <2> QED
    BY <2>2, <2>3
<1>3. \A j \in Interview : Kept(j)
  BY <1>1 DEF Kept, SaveWorker, Write, IInv, CoreInv, Keeps
<1> QED
  BY <1>2, <1>3, NobodyWorks

LEMMA HappensKeepsTurn ==
  ASSUME TurnInv, IInv', "SLOW" \notin Faults, NEW i \in Interview, Happens(i)
  PROVE  TurnInv' /\ HoldsOn
<1>1. /\ IInv /\ session[i] \in SoundSession /\ session[i] \in Session
      /\ session[i].credit = "NONE" => ~session[i].clock.held
  BY DEF TurnInv, IInv, CoreInv, SoundSession, HeldInv
<1>2. ASSUME session' = session, task' = task, turn' = turn, seq' = seq, lock' = lock
      PROVE  TurnInv' /\ HoldsOn
  BY <1>2, NobodyWorks DEF SameWork, Kept, Keeps
<1>3. ASSUME NEW event, event # "FAIL",
             NEW new \in applySessionEvent(session[i], event, "FREE")
      PROVE  Keeps(session[i], new)
  <2> DEFINE s == session[i]
  <2>1. s \in SoundSession /\ (s.credit = "NONE" => ~s.clock.held)
        /\ new \in applySessionEvent(s, event, "FREE") /\ "FREE" \in Payers
    BY <1>1 DEF Payers
  <2> HIDE DEF s
  <2> QED
    BY <1>3, <2>1, EventKeepsTurn DEF s
<1>4. CASE AnalysisEnds(i)
  <2>1. PICK to \in {"READY", "FAILED"} :
          \E new \in transitionSession(session[i], "ROLE_ANALYSIS", to) :
            SaveWorker(i, new, [sweep[i] EXCEPT !.fresh = FALSE])
    BY <1>4 DEF AnalysisEnds
  <2>2. PICK new \in transitionSession(session[i], "ROLE_ANALYSIS", to) :
          SaveWorker(i, new, [sweep[i] EXCEPT !.fresh = FALSE])
    BY <2>1
  <2>3. Keeps(session[i], new)
    BY <1>1, MoveKeepsTurn
  <2> QED
    BY <1>4, <2>2, <2>3, WorkerKeepsTurn DEF AnalysisEnds
<1>5. CASE EvaluationCompleted(i)
  BY <1>3, <1>5, WorkerKeepsTurn DEF EvaluationCompleted
<1>6. CASE SocketCloses(i)
  <2>1. CASE \E t \in Task : IsFree(t, "GONE") /\ Goto(t, At("GONE", "FETCH", i, FALSE))
    <3>1. PICK t \in Task : Goto(t, At("GONE", "FETCH", i, FALSE))
      BY <2>1
    <3> DEFINE next == At("GONE", "FETCH", i, FALSE)
    <3>2. Goto(t, next) /\ next.op = "GONE" /\ next.step = "FETCH"
      BY <3>1 DEF At
    <3> HIDE DEF next
    <3>3. ~Locks(next) /\ Still(next)
      BY <3>2 DEF Locks, Still, Relying, Working
    <3> QED
      BY <1>1, <1>6, <3>2, <3>3, GoWorks, WorkNeedsNone DEF SocketCloses
  <2>2. CASE UNCHANGED <<session, overdue, task, sweep>>
    BY <1>2, <1>6, <2>2 DEF SocketCloses
  <2> QED
    BY <1>6, <2>1, <2>2 DEF SocketCloses
<1>7. CASE GetReady(i) \/ Heartbeat(i) \/ AnswerResent(i) \/ KickLost(i) \/ Elapse(i)
           \/ SweepFinds(i) \/ WorkerDies(i)
  BY <1>2, <1>7
     DEF GetReady, Heartbeat, AnswerResent, KickLost, Elapse, SweepFinds, WorkerDies
<1>8. CASE Tick(i)
  <2> DEFINE c == Ticked(session[i].clock)
  <2>1. c.held = session[i].clock.held
    BY <1>1 DEF Ticked, Session, Clock
  <2>2. session' = [session EXCEPT ![i] = [session[i] EXCEPT !.clock = c]]
    BY <1>8 DEF Tick
  <2> HIDE DEF c
  <2>3. Keeps(session[i], [session[i] EXCEPT !.clock = c])
    BY <1>1, <2>1 DEF Keeps, Counted, Session
  <2>4. \A j \in Interview : Keeps(session[j], session'[j])
    BY <1>1, <2>2, <2>3 DEF Keeps, IInv, CoreInv
  <2> QED
    BY <1>8, <2>4, NobodyWorks DEF Tick, SameWork, Kept
<1>9. CASE SweepApplies(i)
  <2>1. CASE \E new \in Swept(i) :
               SaveWorker(i, new,
                 IF new.state = "EXPIRED" THEN [step |-> "PROCESS", fresh |-> FALSE] ELSE Idling)
    <3>1. PICK new \in Swept(i) :
               SaveWorker(i, new,
                 IF new.state = "EXPIRED" THEN [step |-> "PROCESS", fresh |-> FALSE] ELSE Idling)
      BY <2>1
    <3>2. Keeps(session[i], new)
      <4>1. /\ new \in applySessionEvent(session[i], SweepEvent(session[i].state), "FREE")
            /\ SweepEvent(session[i].state) # "FAIL"
        BY DEF Swept, SweepEvent
      <4> QED
        BY <1>3, <4>1
    <3> QED
      BY <1>9, <3>1, <3>2, WorkerKeepsTurn DEF SweepApplies
  <2>2. CASE UNCHANGED <<session, overdue, task>>
    BY <1>2, <1>9, <2>2 DEF SweepApplies
  <2> QED
    BY <1>9, <2>1, <2>2 DEF SweepApplies
<1>10. CASE SweepProcesses(i)
  <2>1. CASE \E new \in applySessionEvent(session[i], "PROCESS", "FREE") :
               SaveWorker(i, new, Idling)
    BY <1>3, <1>10, <2>1, WorkerKeepsTurn DEF SweepProcesses
  <2>2. CASE UNCHANGED <<session, overdue, task>>
    BY <1>2, <1>10, <2>2 DEF SweepProcesses
  <2> QED
    BY <1>10, <2>1, <2>2 DEF SweepProcesses
<1>11. CASE LockExpires(i)
  <2>1. \A j \in Interview : lock'[j] = lock[j] \/ lock[j] = "DEAD"
    BY <1>1, <1>11 DEF LockExpires, IInv, RestInv
  <2> QED
    BY <1>11, <2>1, NobodyWorks DEF LockExpires, SameWork, Kept, Keeps
<1> QED
  BY <1>4, <1>5, <1>6, <1>7, <1>8, <1>9, <1>10, <1>11 DEF Happens

(* While no handler outlives the lock, every step preserves the invariant. *)
LEMMA NextKeepsTurn ==
  ASSUME TurnInv, "SLOW" \notin Faults, [Next]_vars
  PROVE  TurnInv' /\ HoldsOn
<1>1. IInv' /\ IInv
  BY NextIInv DEF TurnInv
<1>2. ASSUME NEW t \in Task, ReplicaDies(t)
      PROVE  TurnInv' /\ HoldsOn
  <2>1. Works(t, Idle)
    BY <1>1, <1>2, GoWorks DEF ReplicaDies
  <2>2. Still(Idle) /\ ~Locks(Idle)
    BY DEF Still, Locks, Idle
  <2>3. \A j \in Interview : lock'[j] = lock[j] \/ j \in LocksOf(t)
    BY <1>1, <1>2 DEF ReplicaDies, IInv, RestInv, LocksOf
  <2> QED
    BY <1>1, <2>1, <2>2, <2>3, WorkKeepsTurn
<1>3. ASSUME NEW t \in Task, Turning(t)
      PROVE  TurnInv' /\ HoldsOn
  BY <1>1, <1>3, AnsweringKeepsTurn, AdvancingKeepsTurn, AssessingKeepsTurn DEF Turning
<1>4. CASE UNCHANGED vars
  BY <1>1, <1>4, NobodyWorks DEF vars, SameWork, Kept, Keeps
<1>5. CASE Next
  BY <1>1, <1>2, <1>3, <1>5, PreparingKeepsTurn, RunningKeepsTurn, BeginsKeepsTurn,
     HappensKeepsTurn DEF Next
<1> QED
  BY <1>4, <1>5

LEMMA InitTurn == Init => TurnInv
<1> SUFFICES ASSUME Init PROVE TurnInv
  OBVIOUS
<1>1. IInv
  BY InitIInv
<1>2. LockInv /\ ReliesInv
  BY DEF Init, LockInv, ReliesInv, Locks, Idle
<1>3. ASSUME NEW i \in Interview
      PROVE  Counted(session[i]) = 0 /\ session[i].clock.held = FALSE
  <2>1. \E state : session[i] = NewSession(state, "TEXT")
    BY <1>3 DEF Init
  <2> QED
    BY <2>1 DEF NewSession, createPlanner, Counted
<1>4. \A i \in Interview : turn[i] = "NONE" /\ seq[i] = 0
  BY DEF Init
<1>5. CountInv
  <2> SUFFICES ASSUME NEW i \in Interview
               PROVE  /\ Counted(session[i]) <= seq[i]
                      /\ turn[i] \in {"ASKED", "ANSWERED"} => Counted(session[i]) < seq[i]
    BY DEF CountInv
  <2>1. Counted(session[i]) = 0 /\ turn[i] = "NONE" /\ seq[i] = 0
    BY <1>3, <1>4
  <2> QED
    BY <2>1
<1>6. HeldInv
  BY <1>3 DEF HeldInv
<1> QED
  BY <1>1, <1>2, <1>5, <1>6 DEF TurnInv

(* Without SLOW, what the tasks rely on always holds.                      *)
THEOREM TurnInvariant == "SLOW" \notin Faults => (Spec => []TurnInv)
<1> SUFFICES ASSUME "SLOW" \notin Faults PROVE Spec => []TurnInv
  OBVIOUS
<1>1. TurnInv /\ [Next]_vars => TurnInv'
  BY NextKeepsTurn
<1> QED
  BY <1>1, InitTurn, PTL DEF Spec

(* An answer that was saved, assessed and counted is not counted again: a  *)
(* task counts only what it assessed itself, under a lock that nobody else *)
(* takes from it, and what it counts is less than the questions asked.     *)
(* With SLOW this fails: two handlers may then assess the same answer, and *)
(* the one whose save conflicts counts it again when it retries.           *)
THEOREM CountedOnceAlways == "SLOW" \notin Faults => (Spec => []CountedOnce)
<1> SUFFICES ASSUME "SLOW" \notin Faults PROVE Spec => []CountedOnce
  OBVIOUS
<1>1. TurnInv => CountedOnce
  <2> SUFFICES ASSUME TurnInv, NEW i \in Interview
               PROVE  Counted(session[i]) <= seq[i] - (IF turn[i] = "ASKED" THEN 1 ELSE 0)
    BY DEF CountedOnce, Counted
  <2>1. seq[i] \in Nat /\ Counted(session[i]) \in Nat
    BY InterviewAssumption, SessionAssumption
       DEF TurnInv, IInv, CoreInv, RestInv, SoundSession, Session, Planner, Counted
  <2>2. /\ Counted(session[i]) <= seq[i]
        /\ turn[i] = "ASKED" => Counted(session[i]) < seq[i]
    BY DEF TurnInv, CountInv
  <2> QED
    BY <2>1, <2>2
<1> QED
  BY <1>1, TurnInvariant, PTL

(* A clock held for the work on an answer is released only with the next   *)
(* question, or by the task that finds a question on screen under the lock.*)
THEOREM HeldUntilAskedAlways == "SLOW" \notin Faults => (Spec => HeldUntilAsked)
<1> SUFFICES ASSUME "SLOW" \notin Faults PROVE Spec => HeldUntilAsked
  OBVIOUS
<1> DEFINE Holding == \A i \in Interview :
             session[i].clock.held /\ session'[i].clock.running => turn'[i] = "ASKED"
<1>1. TurnInv /\ [Next]_vars => [Holding]_vars
  <2> SUFFICES ASSUME TurnInv, [Next]_vars, NEW i \in Interview,
                      session[i].clock.held, session'[i].clock.running
               PROVE  turn'[i] = "ASKED"
    OBVIOUS
  <2>1. HoldsOn /\ TurnInv'
    BY NextKeepsTurn
  <2>2. session'[i] \in SoundSession
    BY <2>1 DEF TurnInv, IInv, CoreInv
  <2>3. ~session'[i].clock.held
    BY <2>2 DEF SoundSession, StateInv
  <2> QED
    BY <2>1, <2>3 DEF HoldsOn
<1>2. Spec => [][Holding]_vars
  BY <1>1, TurnInvariant, PTL DEF Spec
<1> QED
  BY <1>2 DEF HeldUntilAsked
===============================================================================
