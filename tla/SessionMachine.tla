---------------------------- MODULE SessionMachine ----------------------------
(***************************************************************************)
(* The interview session state machine of                                  *)
(* packages/interview-engine/src/session-machine.ts: the pure table        *)
(* (state, event, context) -> (state, effects).  The code is a switch over *)
(* the event type; here it is the set of its rows, so that "which events   *)
(* can fire" and "which pairs are allowed" are questions about a set.      *)
(*                                                                         *)
(* The two refusals of the code (INVALID_EVENT, GUARD_FAILED) are both the *)
(* absence of a row: no caller in src/ distinguishes them.  Effects are a  *)
(* set: the order in which the runner carries them out makes no difference *)
(* (START_NEXT_ROUND reads a clock that START_CLOCK has just set to zero). *)
(***************************************************************************)

LIVE_STATES == {"ACTIVE", "ROUND_TRANSITION"}

IN_PROGRESS_STATES == LIVE_STATES \cup {"RECONNECTING", "PAUSED", "COMPLETING"}

TERMINAL_STATES == {"REPORT_READY", "CANCELLED", "FAILED"}

PRE_START_STATES ==
  {"DRAFT", "READY", "DEVICE_CHECK", "CONSENT_REQUIRED", "READY_TO_START"}

InterviewState ==
  PRE_START_STATES \cup IN_PROGRESS_STATES \cup TERMINAL_STATES
    \cup {"ROLE_ANALYSIS", "EXPIRED", "PROCESSING"}

SessionEvent ==
  {"ANALYZE", "ANALYSIS_SUCCEEDED", "ANALYSIS_FAILED", "PREPARE",
   "DEVICE_CHECK_PASSED", "CONSENT_ACCEPTED", "START", "ROUND_ENDED",
   "NEXT_ROUND", "DISCONNECTED", "RECONNECTED", "GRACE_EXPIRED", "RESUME",
   "RESUME_WINDOW_EXPIRED", "END_REQUESTED", "TIME_UP", "FINALIZE", "PROCESS",
   "EVALUATION_COMPLETED", "CANCEL", "FAIL"}

(* "NONE" stands for the null resume target. *)
ResumeTarget == LIVE_STATES \cup {"NONE"}

SessionContext ==
  [needsDeviceCheck : BOOLEAN, needsConsent : BOOLEAN, started : BOOLEAN,
   creditReserved : BOOLEAN, hasNextRound : BOOLEAN,
   resumeTo : ResumeTarget, meaningful : BOOLEAN]

SessionEffect ==
  {"RESERVE_CREDIT", "CONSUME_CREDIT", "REFUND_CREDIT", "START_CLOCK",
   "PAUSE_CLOCK", "RESUME_CLOCK", "START_NEXT_ROUND", "END_ROUND",
   "ENQUEUE_ANALYSIS", "ENQUEUE_EVALUATION", "REMEMBER_RESUME_TARGET"}

-------------------------------------------------------------------------------

When(condition, elements) == IF condition THEN elements ELSE {}

Row(from, event, to, effects) ==
  [from |-> from, event |-> event, to |-> to, effects |-> effects]

afterDeviceCheck(ctx) ==
  IF ctx.needsConsent THEN "CONSENT_REQUIRED" ELSE "READY_TO_START"

(* Mutant: an interview that was hardly used is not settled. *)
settle_OnlyMeaningful(ctx) ==
  When(ctx.creditReserved /\ ctx.meaningful, {"CONSUME_CREDIT"})

(* Credit settlement when the interview stops. *)
settle(ctx) ==
  When(ctx.creditReserved,
       {IF ctx.meaningful THEN "CONSUME_CREDIT" ELSE "REFUND_CREDIT"})

(* Before the start: analysis, the pre-start checks, cancelling. *)
PreStartRows(ctx) ==
  { Row(PRE_START_STATES \cup When(~ctx.started, {"FAILED"}), "CANCEL",
        "CANCELLED", {}),
    Row({"DRAFT", "READY"} \cup When(~ctx.started, {"FAILED"}), "ANALYZE",
        "ROLE_ANALYSIS", {"ENQUEUE_ANALYSIS"}),
    Row({"ROLE_ANALYSIS"}, "ANALYSIS_SUCCEEDED", "READY", {}),
    Row({"ROLE_ANALYSIS"}, "ANALYSIS_FAILED", "FAILED", {}),
    Row({"READY"}, "PREPARE",
        IF ctx.needsDeviceCheck THEN "DEVICE_CHECK" ELSE afterDeviceCheck(ctx),
        {}),
    Row({"DEVICE_CHECK"}, "DEVICE_CHECK_PASSED", afterDeviceCheck(ctx), {}),
    Row({"CONSENT_REQUIRED"}, "CONSENT_ACCEPTED", "READY_TO_START", {}),
    Row({"READY_TO_START"}, "START", "ACTIVE",
        {"RESERVE_CREDIT", "START_CLOCK", "START_NEXT_ROUND"}) }

(* The live interview: rounds, and losing and regaining the candidate. *)
LiveRows(ctx) ==
  { IF ctx.hasNextRound
    THEN Row({"ACTIVE"}, "ROUND_ENDED", "ROUND_TRANSITION", {"END_ROUND"})
    ELSE Row({"ACTIVE"}, "ROUND_ENDED", "COMPLETING",
             {"END_ROUND", "PAUSE_CLOCK"}),
    Row(When(ctx.hasNextRound, {"ROUND_TRANSITION"}), "NEXT_ROUND", "ACTIVE",
        {"START_NEXT_ROUND"}),
    Row(LIVE_STATES, "DISCONNECTED", "RECONNECTING",
        {"PAUSE_CLOCK", "REMEMBER_RESUME_TARGET"}),
    Row({"RECONNECTING"}, "GRACE_EXPIRED", "PAUSED", {}) }
  \cup When(ctx.resumeTo # "NONE",
       { Row({"RECONNECTING"}, "RECONNECTED", ctx.resumeTo, {"RESUME_CLOCK"}),
         Row({"PAUSED"}, "RESUME", ctx.resumeTo, {"RESUME_CLOCK"}) })

(* Stopping: early, by time, by silence, by failure; then evaluation. *)
EndRows(ctx) ==
  { Row(LIVE_STATES, "END_REQUESTED", "COMPLETING",
        {"END_ROUND", "PAUSE_CLOCK"}),
    Row({"RECONNECTING", "PAUSED"}, "END_REQUESTED", "COMPLETING",
        {"END_ROUND"}),
    Row(LIVE_STATES, "TIME_UP", "COMPLETING", {"END_ROUND", "PAUSE_CLOCK"}),
    Row({"RECONNECTING"}, "TIME_UP", "COMPLETING", {"END_ROUND"}),
    Row({"PAUSED"}, "RESUME_WINDOW_EXPIRED", "EXPIRED", settle(ctx)),
    Row({"COMPLETING"}, "FINALIZE", "PROCESSING",
        settle(ctx) \cup {"ENQUEUE_EVALUATION"}),
    Row(When(ctx.meaningful, {"EXPIRED"}), "PROCESS", "PROCESSING",
        {"ENQUEUE_EVALUATION"}),
    Row({"PROCESSING"}, "EVALUATION_COMPLETED", "REPORT_READY", {}) }

FailRows(ctx) ==
  LET refund == When(ctx.creditReserved, {"REFUND_CREDIT"})
  IN { Row(LIVE_STATES, "FAIL", "FAILED", refund \cup {"PAUSE_CLOCK"}),
       Row((IN_PROGRESS_STATES \ LIVE_STATES) \cup {"PROCESSING"}, "FAIL",
           "FAILED", refund) }

Rows(ctx) ==
  PreStartRows(ctx) \cup LiveRows(ctx) \cup EndRows(ctx) \cup FailRows(ctx)

(* The row an event takes: the empty set when the event is refused. *)
transition(state, event, ctx) ==
  {r \in Rows(ctx) : r.event = event /\ state \in r.from}

(* The pairs that some event under some context produces.                  *)
ALLOWED_TRANSITIONS ==
  UNION {UNION {r.from \X {r.to} : r \in Rows(ctx)} : ctx \in SessionContext}

canTransition(from, to) == <<from, to>> \in ALLOWED_TRANSITIONS
===============================================================================
