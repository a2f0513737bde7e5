------------------------------ MODULE SessionStore -----------------------------
(***************************************************************************)
(* A persisted interview session and what one engine event does to it:     *)
(* applySessionEvent of packages/db/src/interview-state.ts together with   *)
(* the clock, usage and round operations of packages/interview-engine that *)
(* its effects call.  Pure operators; the modules that use them decide     *)
(* when an event is applied and to which version of the session.           *)
(*                                                                         *)
(* Time is the interview clock's reading in units of the bound Budget.  A  *)
(* running clock's reading (elapsedMs) is kept in active as time passes,   *)
(* so stopping it needs no folding.                                        *)
(***************************************************************************)
EXTENDS SessionMachine, Naturals

CONSTANTS
  Rounds,      \* number of rounds of the interview's plan
  Budget,      \* the clock reading at which the time is up
  MinTime,     \* minBudgetFraction of the budget
  MinAnswers,  \* assessed answers that make an interview meaningful
  MaxAnswers   \* bound: assessed answers counted

ASSUME SessionAssumption ==
  /\ Rounds \in Nat \ {0}
  /\ Budget \in Nat \ {0}
  /\ MinTime \in 0..Budget
  /\ MinAnswers \in Nat \ {0}
  /\ MaxAnswers \in Nat

Mode == {"TEXT", "VOICE"}

(* Who pays: the candidate's credits, a campaign, or nobody (a drill).     *)
CreditStatus ==
  {"NONE", "FREE", "SPONSORED", "RESERVED", "CONSUMED", "REFUNDED"}

RoundState == {"PENDING", "ACTIVE", "COMPLETED", "TIMED_OUT", "SKIPPED"}

(* roundIdx 0 is the code's -1; thread says that a question has been asked *)
(* in the current round (planner.thread is not null).                      *)
Planner ==
  [roundIdx : 0..Rounds, rounds : [1..Rounds -> RoundState],
   answeredCount : 0..MaxAnswers, thread : BOOLEAN]

Clock == [active : 0..Budget, running : BOOLEAN, held : BOOLEAN]

Session ==
  [state : InterviewState, mode : Mode, credit : CreditStatus,
   resumeTo : ResumeTarget, planner : Planner, clock : Clock]

createPlanner ==
  [roundIdx |-> 0, rounds |-> [i \in 1..Rounds |-> "PENDING"],
   answeredCount |-> 0, thread |-> FALSE]

NewSession(state, mode) ==
  [state |-> state, mode |-> mode, credit |-> "NONE", resumeTo |-> "NONE",
   planner |-> createPlanner,
   clock |-> [active |-> 0, running |-> FALSE, held |-> FALSE]]

-------------------------------------------------------------------------------
(* The clock.                                                              *)

startClock == [active |-> 0, running |-> TRUE, held |-> FALSE]

pauseClock(c) == [c EXCEPT !.running = FALSE]

(* Mutant: a rejoin runs the clock although it is held.                    *)
resumeClock_IgnoresHold(c) == [c EXCEPT !.running = TRUE]

resumeClock(c) == [c EXCEPT !.running = c.running \/ ~c.held]

holdClock(c) == [c EXCEPT !.running = FALSE, !.held = TRUE]

releaseClock(c, running) ==
  [c EXCEPT !.held = FALSE, !.running = c.running \/ running]

releasedSessionClock(s) == releaseClock(s.clock, s.state \in LIVE_STATES)

isTimeUp(s) == s.clock.active = Budget

(* One unit of time passes for a running clock.                            *)
Ticked(c) == [c EXCEPT !.active = c.active + 1]

-------------------------------------------------------------------------------
(* Rounds.                                                                 *)

hasNextRound(p) == p.roundIdx < Rounds

endCurrentRound(p, outcome) ==
  IF p.roundIdx > 0 /\ p.rounds[p.roundIdx] = "ACTIVE"
  THEN [p EXCEPT !.rounds[p.roundIdx] = outcome, !.thread = FALSE]
  ELSE p

startNextRound(p) ==
  LET ended == endCurrentRound(p, "COMPLETED")
      next  == p.roundIdx + 1
  IN [ended EXCEPT !.rounds[next] = "ACTIVE", !.roundIdx = next,
                   !.thread = FALSE]

skipRemainingRounds(p) ==
  [p EXCEPT !.thread = FALSE,
            !.rounds = [i \in 1..Rounds |->
                          IF p.rounds[i] = "PENDING" THEN "SKIPPED"
                          ELSE p.rounds[i]]]

-------------------------------------------------------------------------------
(* Events.                                                                 *)

isMeaningfulUsage(s) ==
  /\ s.planner.answeredCount > 0
  /\ \/ s.planner.answeredCount >= MinAnswers
     \/ s.clock.active >= MinTime

(* The engine's view of a session.  startedAt and credit are set together. *)
sessionContext(s) ==
  [needsDeviceCheck |-> s.mode # "TEXT",
   needsConsent     |-> s.mode # "TEXT",
   started          |-> s.credit # "NONE",
   creditReserved   |-> s.credit = "RESERVED",
   hasNextRound     |-> hasNextRound(s.planner),
   resumeTo         |-> s.resumeTo,
   meaningful       |-> isMeaningfulUsage(s)]

clockAfter(s, effects) ==
  CASE "START_CLOCK" \in effects  -> startClock
    [] "PAUSE_CLOCK" \in effects  -> pauseClock(s.clock)
    [] "RESUME_CLOCK" \in effects -> resumeClock(s.clock)
    [] OTHER                      -> s.clock

(* Mutant: rounds that never ran stay pending when the interview ends.     *)
plannerAfter_NoSkip(s, row) ==
  IF "START_NEXT_ROUND" \in row.effects THEN startNextRound(s.planner)
  ELSE IF "END_ROUND" \in row.effects
       THEN endCurrentRound(s.planner,
              IF row.event = "TIME_UP" THEN "TIMED_OUT" ELSE "COMPLETED")
       ELSE s.planner

plannerAfter(s, row) ==
  LET p == IF "START_NEXT_ROUND" \in row.effects THEN startNextRound(s.planner)
           ELSE IF "END_ROUND" \in row.effects
                THEN endCurrentRound(s.planner,
                       IF row.event = "TIME_UP" THEN "TIMED_OUT" ELSE "COMPLETED")
                ELSE s.planner
  IN IF row.to = "COMPLETING" THEN skipRemainingRounds(p) ELSE p

(* payer is what a start records: FREE, SPONSORED or RESERVED.  A credit   *)
(* that a drill or a campaign stands for is never settled.                 *)
creditAfter(s, effects, payer) ==
  CASE "RESERVE_CREDIT" \in effects -> payer
    [] "CONSUME_CREDIT" \in effects /\ s.credit \notin {"FREE", "SPONSORED"} -> "CONSUMED"
    [] "REFUND_CREDIT" \in effects /\ s.credit \notin {"FREE", "SPONSORED"} -> "REFUNDED"
    [] OTHER -> s.credit

resumeToAfter(s, row) ==
  CASE "REMEMBER_RESUME_TARGET" \in row.effects -> s.state
    [] row.to \in LIVE_STATES /\ s.state \in {"RECONNECTING", "PAUSED"} -> "NONE"
    [] OTHER -> s.resumeTo

(* The session after an event: none if the table refuses the event.        *)
applySessionEvent(s, event, payer) ==
  {[s EXCEPT !.state    = row.to,
             !.credit   = creditAfter(s, row.effects, payer),
             !.resumeTo = resumeToAfter(s, row),
             !.planner  = plannerAfter(s, row),
             !.clock    = clockAfter(s, row.effects)]
     : row \in transition(s.state, event, sessionContext(s))}

(* Whether the event returns a sponsored interview's unit to its campaign. *)
returnsSponsorship(s, event) ==
  \E row \in transition(s.state, event, sessionContext(s)) :
    "REFUND_CREDIT" \in row.effects /\ s.credit = "SPONSORED"

(* Mutant: the save does not look at the state it leaves.                  *)
transitionSession_AnyState(s, from, to) == {[s EXCEPT !.state = to]}

(* A pre-start move outside the event runner (transitionSession): the pair *)
(* must be one that the engine's table can produce.                        *)
transitionSession(s, from, to) ==
  {r \in {[s EXCEPT !.state = to]} : s.state = from /\ canTransition(from, to)}
===============================================================================
