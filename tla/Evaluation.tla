----------------------------- MODULE Evaluation -----------------------------
(***************************************************************************)
(* The evaluation of one finished interview: a chain of queue jobs, one    *)
(* per stage and run, that ends in a report, its PDF and the notice to the *)
(* organisation, whose delivery the dispatcher retries.                    *)
(*                                                                         *)
(* Workers take jobs and may die, jobs may be lost, a stage may fail; the  *)
(* sweep starts evaluations nobody started and makes sure that the job of  *)
(* the stage in progress exists, and an admin may start a new run.  The    *)
(* content of evidence, scores and reports is abstracted to the run it was *)
(* made in.  BullMQ and the organisation's endpoint are external.          *)
(***************************************************************************)
EXTENDS Integers, Sequences, FiniteSets

CONSTANTS
  Worker,
  Dispatcher,   \* worker processes that send deliveries
  Attempts,     \* attempts of a job
  MaxRuns,      \* bound: evaluation runs, the first one included
  MaxSends,     \* WEBHOOK_MAX_ATTEMPTS
  MaxFaults,    \* bound: how many things go wrong
  Faults        \* what may go wrong

FaultKind == {
  "CRASH",      \* a process dies
  "JOB_LOST",   \* the queue loses a job
  "EARLY_RERUN",\* an admin starts a new run while jobs of the old one are left
  "SLOW_BATCH"} \* the deliveries of a batch take longer than their lease

ASSUME EvaluationAssumption ==
  /\ Attempts \in Nat \ {0}
  /\ MaxRuns \in Nat \ {0}
  /\ MaxSends \in Nat \ {0}
  /\ MaxFaults \in Nat
  /\ Faults \subseteq FaultKind

STAGES == <<"FINALIZE_TRANSCRIPT", "EXTRACT_EVIDENCE", "SCORE_DIMENSIONS", "AGGREGATE",
            "RECOMMENDATIONS", "COACHING", "BUILD_REPORT", "RENDER_PDF", "NOTIFY">>
Stage == {STAGES[i] : i \in DOMAIN STAGES}
FIRST_STAGE == STAGES[1]
None == "NONE"
nextStage(s) ==
  IF s = "NOTIFY" THEN None
  ELSE STAGES[1 + CHOOSE i \in DOMAIN STAGES : STAGES[i] = s]

AFTER_REPORT == {"RENDER_PDF", "NOTIFY"}

VARIABLES
  state,        \* the session: PROCESSING, then REPORT_READY
  processing,   \* its processing record; run 0: not started
  evidence,     \* evidence[r]: copies of run r's items in interviewEvidence
  score,        \* the run whose evidence score revision 0 rests on, 0: none
  report,       \* likewise for report revision 0
  pdf,          \* the report's PDF is READY
  notified,     \* campaignApplications.completedNotifiedAt is set
  jobs,         \* jobs[s][r]: the job of stage s in run r
  work,         \* what each worker is doing
  starter,      \* the run an API replica began and has yet to enqueue, 0: none
  deliveries,   \* how many deliveries were queued for the completion
  delivery,     \* the delivery
  sender,       \* what each dispatcher is doing
  faults

results == <<evidence, score, report, pdf, notified, deliveries>>
outbox == <<delivery, sender>>
vars == <<state, processing, results, jobs, work, starter, outbox, faults>>

Run == 1..MaxRuns
RunOrNone == 0..MaxRuns
Drafts == [dimensions : RunOrNone, recommendations : RunOrNone]
Processing ==
  [run : RunOrNone, stage : Stage \cup {None}, completed : SUBSET Stage, draft : Drafts,
   status : {None, "QUEUED", "RUNNING", "FAILED", "DONE"}]
Job == [state : {None, "WAITING", "ACTIVE", "COMPLETED", "FAILED"}, made : 0..Attempts]
WorkStep == {"IDLE", "READ", "RUNNING", "CLEARED", "BUILT", "CLAIMED", "RAN", "DONE"}
WorkItem == [step : WorkStep, stage : Stage, run : RunOrNone, seen : Drafts, ready : BOOLEAN]
Delivery == [status : {None, "PENDING", "DELIVERED", "FAILED"}, attempts : 0..MaxSends,
             leased : BOOLEAN]
Sending == [step : {"IDLE", "CLAIMED", "SENT"}, attempts : 0..MaxSends, ok : BOOLEAN]

TypeOK ==
  /\ state \in {"PROCESSING", "REPORT_READY"}
  /\ processing \in Processing
  /\ evidence \in [Run -> Nat]
  /\ score \in RunOrNone
  /\ report \in RunOrNone
  /\ pdf \in BOOLEAN
  /\ notified \in BOOLEAN
  /\ jobs \in [Stage -> [Run -> Job]]
  /\ work \in [Worker -> WorkItem]
  /\ starter \in RunOrNone
  /\ deliveries \in Nat
  /\ delivery \in Delivery
  /\ sender \in [Dispatcher -> Sending]
  /\ faults \in 0..MaxFaults

NoDraft == [dimensions |-> 0, recommendations |-> 0]
NoJob == [state |-> None, made |-> 0]
Free == [step |-> "IDLE", stage |-> FIRST_STAGE, run |-> 0, seen |-> NoDraft,
         ready |-> FALSE]
NotSending == [step |-> "IDLE", attempts |-> 0, ok |-> FALSE]

freshRun(r) ==
  [run |-> r, stage |-> FIRST_STAGE, completed |-> {}, draft |-> NoDraft, status |-> "QUEUED"]

Init ==
  /\ state = "PROCESSING"
  /\ processing = [run |-> 0, stage |-> None, completed |-> {}, draft |-> NoDraft,
                   status |-> None]
  /\ evidence = [r \in Run |-> 0]
  /\ score = 0
  /\ report = 0
  /\ pdf = FALSE
  /\ notified = FALSE
  /\ jobs = [s \in Stage |-> [r \in Run |-> NoJob]]
  /\ work = [w \in Worker |-> Free]
  /\ starter = 0
  /\ deliveries = 0
  /\ delivery = [status |-> None, attempts |-> 0, leased |-> FALSE]
  /\ sender = [d \in Dispatcher |-> NotSending]
  /\ faults = 0

Fault(kind) == kind \in Faults /\ faults < MaxFaults /\ faults' = faults + 1

-------------------------------------------------------------------------------
(* The queue and the start of a run                                        *)

Added == [state |-> "WAITING", made |-> 0]

(* A failed job is retried, a finished one replaced, a missing one added.  *)
AfterEnsuring(job) ==
  CASE job.state = "FAILED" -> [state |-> "WAITING", made |-> job.made]
    [] job.state \in {None, "COMPLETED"} -> Added
    [] OTHER -> job

Ensured(s, r) == [jobs EXCEPT ![s][r] = AfterEnsuring(jobs[s][r])]

ensureStageJob(s, r) == jobs' = Ensured(s, r)

(* Run 1 begins once; the enqueue is a step of its own.                    *)
beginEvaluation ==
  /\ state = "PROCESSING"
  /\ processing.run = 0
  /\ starter = 0
  /\ processing' = freshRun(1)
  /\ starter' = 1
  /\ UNCHANGED <<state, results, jobs, work, outbox, faults>>

(* An admin starts a new run.  Unless EARLY_RERUN is a fault, only of an   *)
(* evaluation that failed and has no job left.                             *)
Settled(r) == \A s \in Stage : jobs[s][r].state \notin {"WAITING", "ACTIVE"}

reprocess ==
  /\ state = "PROCESSING"
  /\ processing.run \in 1..(MaxRuns - 1)
  /\ starter = 0
  /\ "EARLY_RERUN" \in Faults \/ (processing.status = "FAILED" /\ Settled(processing.run))
  /\ processing' = freshRun(processing.run + 1)
  /\ starter' = processing.run + 1
  /\ UNCHANGED <<state, results, jobs, work, outbox, faults>>

startEvaluation ==
  /\ starter # 0
  /\ ensureStageJob(FIRST_STAGE, starter)
  /\ starter' = 0
  /\ UNCHANGED <<state, processing, results, work, outbox, faults>>

StarterDies ==
  /\ starter # 0
  /\ Fault("CRASH")
  /\ starter' = 0
  /\ UNCHANGED <<state, processing, results, jobs, work, outbox>>

LoseJob(s, r) ==
  /\ jobs[s][r].state = "WAITING"
  /\ Fault("JOB_LOST")
  /\ jobs' = [jobs EXCEPT ![s][r] = NoJob]
  /\ UNCHANGED <<state, processing, results, work, starter, outbox>>

(* A job whose worker no longer renews its lock is given to another, or    *)
(* failed when that has happened before.                                   *)
Unattended(s, r) ==
  \A w \in Worker : ~(work[w].step # "IDLE" /\ work[w].stage = s /\ work[w].run = r)

Stalled(s, r) ==
  /\ jobs[s][r].state = "ACTIVE"
  /\ Unattended(s, r)
  /\ \E st \in {"WAITING", "FAILED"} : jobs' = [jobs EXCEPT ![s][r].state = st]
  /\ UNCHANGED <<state, processing, results, work, starter, outbox, faults>>

-------------------------------------------------------------------------------
(* runEvaluationStage                                                      *)

Idle(w) == work' = [work EXCEPT ![w] = Free]

EndJob(w, job) == jobs' = [jobs EXCEPT ![work[w].stage][work[w].run] = job]

Runnable(s, r) ==
  /\ processing.run = r
  /\ \/ state = (IF s \in AFTER_REPORT THEN "REPORT_READY" ELSE "PROCESSING")
     \/ s = "BUILD_REPORT" /\ state = "REPORT_READY"

(* A worker takes a job and reads the session.  A stale run or a session   *)
(* in another state is skipped; a stage completed before goes straight to  *)
(* the next.                                                               *)
Take(w, s, r) ==
  /\ work[w].step = "IDLE"
  /\ jobs[s][r].state = "WAITING"
  /\ LET step == CASE processing.run = r /\ s \in processing.completed -> "DONE"
                   [] processing.run = r /\ s \notin processing.completed /\ Runnable(s, r) -> "READ"
                   [] OTHER -> "IDLE"
     IN /\ work' = [work EXCEPT ![w] =
                      IF step = "IDLE" THEN Free
                      ELSE [step |-> step, stage |-> s, run |-> r, seen |-> processing.draft,
                            ready |-> state = "REPORT_READY"]]
        /\ jobs' = [jobs EXCEPT ![s][r].state = IF step = "IDLE" THEN "COMPLETED" ELSE "ACTIVE"]
  /\ UNCHANGED <<state, processing, results, starter, outbox, faults>>

(* Updates of the processing record are made only to the worker's own run. *)
Record(w, p) == processing' = IF processing.run = work[w].run THEN p ELSE processing

MarkRunning(w) ==
  /\ work[w].step = "READ"
  /\ Record(w, [processing EXCEPT !.stage = work[w].stage, !.status = "RUNNING"])
  /\ work' = [work EXCEPT ![w].step = "RUNNING"]
  /\ UNCHANGED <<state, results, jobs, starter, outbox, faults>>

At(w, step, stage) == work[w].step = step /\ work[w].stage = stage

(* Mutant: a retried job does not remove what it had extracted before.     *)
ClearedEvidence_Kept(r) == evidence

ClearedEvidence(r) == [evidence EXCEPT ![r] = 0]

(* Evidence is replaced in two steps.                                      *)
ClearEvidence(w) ==
  /\ At(w, "RUNNING", "EXTRACT_EVIDENCE")
  /\ evidence' = ClearedEvidence(work[w].run)
  /\ work' = [work EXCEPT ![w].step = "CLEARED"]
  /\ UNCHANGED <<state, processing, score, report, pdf, notified, deliveries, jobs, starter,
                 outbox, faults>>

extractEvidence(w) ==
  /\ At(w, "CLEARED", "EXTRACT_EVIDENCE")
  /\ evidence' = [evidence EXCEPT ![work[w].run] = @ + 1]
  /\ work' = [work EXCEPT ![w].step = "RAN"]
  /\ UNCHANGED <<state, processing, score, report, pdf, notified, deliveries, jobs, starter,
                 outbox, faults>>

(* Drafts are written to whatever run the session is in by then.           *)
scoreDimensions(w) ==
  /\ At(w, "RUNNING", "SCORE_DIMENSIONS")
  /\ processing' = [processing EXCEPT !.draft.dimensions = work[w].run]
  /\ work' = [work EXCEPT ![w].step = "RAN"]
  /\ UNCHANGED <<state, results, jobs, starter, outbox, faults>>

recommendations(w) ==
  /\ At(w, "RUNNING", "RECOMMENDATIONS")
  /\ score # 0
  /\ processing' = [processing EXCEPT !.draft.recommendations = work[w].run]
  /\ work' = [work EXCEPT ![w].step = "RAN"]
  /\ UNCHANGED <<state, results, jobs, starter, outbox, faults>>

(* Score revision 0 is written once, whichever run gets there.             *)
aggregateScores(w) ==
  /\ At(w, "RUNNING", "AGGREGATE")
  /\ score' = IF score = 0 THEN work[w].run ELSE score
  /\ work' = [work EXCEPT ![w].step = "RAN"]
  /\ UNCHANGED <<state, processing, evidence, report, pdf, notified, deliveries, jobs, starter,
                 outbox, faults>>

(* The report needs the score and the recommendations the session had when *)
(* it was read.                                                            *)
CanBuild(w) == report # 0 \/ (score # 0 /\ work[w].seen.recommendations # 0)

WriteReport(w) ==
  /\ At(w, "RUNNING", "BUILD_REPORT")
  /\ CanBuild(w)
  /\ report' = IF report = 0 THEN work[w].run ELSE report
  /\ work' = [work EXCEPT ![w].step = "BUILT"]
  /\ UNCHANGED <<state, processing, evidence, score, pdf, notified, deliveries, jobs, starter,
                 outbox, faults>>

buildReport(w) ==
  /\ At(w, "BUILT", "BUILD_REPORT")
  /\ state' = IF work[w].ready THEN state ELSE "REPORT_READY"
  /\ work' = [work EXCEPT ![w].step = "RAN"]
  /\ UNCHANGED <<processing, results, jobs, starter, outbox, faults>>

renderPdf(w) ==
  /\ At(w, "RUNNING", "RENDER_PDF")
  /\ report # 0
  /\ pdf' = TRUE
  /\ work' = [work EXCEPT ![w].step = "RAN"]
  /\ UNCHANGED <<state, processing, evidence, score, report, notified, deliveries, jobs, starter,
                 outbox, faults>>

(* Mutant: the application is marked after its event was queued.           *)
FirstNotice_Unclaimed == TRUE

(* Of all attempts one announces the completion.                           *)
FirstNotice == ~notified

campaignInterviewCompleted(w) ==
  /\ At(w, "RUNNING", "NOTIFY")
  /\ notified' = TRUE
  /\ work' = [work EXCEPT ![w].step = IF FirstNotice THEN "CLAIMED" ELSE "RAN"]
  /\ UNCHANGED <<state, processing, evidence, score, report, pdf, deliveries, jobs, starter,
                 outbox, faults>>

enqueueOrgEvent(w) ==
  /\ At(w, "CLAIMED", "NOTIFY")
  /\ deliveries' = deliveries + 1
  /\ delivery' = [status |-> "PENDING", attempts |-> 0, leased |-> FALSE]
  /\ work' = [work EXCEPT ![w].step = "RAN"]
  /\ UNCHANGED <<state, processing, evidence, score, report, pdf, notified, jobs, starter,
                 sender, faults>>

(* The stages whose output is text of the report alone.                    *)
OtherStage(w) ==
  /\ work[w].step = "RUNNING"
  /\ work[w].stage \in {"FINALIZE_TRANSCRIPT", "COACHING"}
  /\ work' = [work EXCEPT ![w].step = "RAN"]
  /\ UNCHANGED <<state, processing, results, jobs, starter, outbox, faults>>

(* A stage throws: another attempt, or FAILED after the last one.          *)
StageFails(w) ==
  /\ work[w].step \in {"RUNNING", "CLEARED", "BUILT", "CLAIMED"}
  /\ LET job == jobs[work[w].stage][work[w].run]
         final == job.made + 1 >= Attempts
     IN /\ Record(w, [processing EXCEPT !.status = IF final THEN "FAILED" ELSE "QUEUED"])
        /\ EndJob(w, [state |-> IF final THEN "FAILED" ELSE "WAITING",
                      made |-> IF job.made < Attempts THEN job.made + 1 ELSE job.made])
  /\ Idle(w)
  /\ UNCHANGED <<state, results, starter, outbox, faults>>

Finish(w) ==
  /\ work[w].step = "RAN"
  /\ LET next == nextStage(work[w].stage) IN
     Record(w, [processing EXCEPT !.completed = @ \cup {work[w].stage}, !.stage = next,
                                  !.status = IF next = None THEN "DONE" ELSE "QUEUED"])
  /\ work' = [work EXCEPT ![w].step = "DONE"]
  /\ UNCHANGED <<state, results, jobs, starter, outbox, faults>>

(* The next stage's job is ensured before this one ends.  The worker may   *)
(* die between the two.                                                    *)
WithNext(w) ==
  IF nextStage(work[w].stage) = None THEN jobs
  ELSE Ensured(nextStage(work[w].stage), work[w].run)

Continue(w) ==
  /\ work[w].step = "DONE"
  /\ jobs' = [WithNext(w) EXCEPT ![work[w].stage][work[w].run] =
                 [state |-> "COMPLETED", made |-> 0]]
  /\ Idle(w)
  /\ UNCHANGED <<state, processing, results, starter, outbox, faults>>

DiesAfterContinue(w) ==
  /\ work[w].step = "DONE"
  /\ Fault("CRASH")
  /\ jobs' = WithNext(w)
  /\ Idle(w)
  /\ UNCHANGED <<state, processing, results, starter, outbox>>

WorkerDies(w) ==
  /\ work[w].step # "IDLE"
  /\ Fault("CRASH")
  /\ Idle(w)
  /\ UNCHANGED <<state, processing, results, jobs, starter, outbox>>

-------------------------------------------------------------------------------
(* The sweep                                                               *)

(* Mutant: the sweep looks only at interviews without a report.            *)
Watched_Processing == state = "PROCESSING" /\ processing.status \in {"QUEUED", "RUNNING"}

Watched == processing.status \in {"QUEUED", "RUNNING"}

(* A session is swept when nothing has updated its record for ten minutes, *)
(* which no worker or API replica that is between two updates takes.       *)
Untouched ==
  /\ starter = 0
  /\ \A w \in Worker : work[w].step \notin {"READ", "RAN", "DONE"}

sweepEvaluations ==
  /\ Watched
  /\ Untouched
  /\ processing.stage # None
  /\ ensureStageJob(processing.stage, processing.run)
  /\ UNCHANGED <<state, processing, results, work, starter, outbox, faults>>

-------------------------------------------------------------------------------
(* The delivery of the organisation's event                                *)

Due == delivery.status = "PENDING" /\ ~delivery.leased

claimDueDeliveries(d) ==
  /\ sender[d].step = "IDLE"
  /\ Due
  /\ delivery' = [delivery EXCEPT !.leased = TRUE]
  /\ sender' = [sender EXCEPT ![d] = [step |-> "CLAIMED", attempts |-> delivery.attempts,
                                      ok |-> FALSE]]
  /\ UNCHANGED <<state, processing, results, jobs, work, starter, faults>>

deliverOne(d) ==
  /\ sender[d].step = "CLAIMED"
  /\ \E ok \in BOOLEAN : sender' = [sender EXCEPT ![d].step = "SENT", ![d].ok = ok]
  /\ UNCHANGED <<state, processing, results, jobs, work, starter, delivery, faults>>

(* Mutant: a failed attempt is not counted.                                *)
AfterAttempt_Uncounted(n, ok) ==
  [status |-> IF ok THEN "DELIVERED" ELSE "PENDING", attempts |-> n, leased |-> FALSE]

AfterAttempt(n, ok) ==
  [status |-> CASE ok -> "DELIVERED"
                [] ~ok /\ n + 1 >= MaxSends -> "FAILED"
                [] OTHER -> "PENDING",
   attempts |-> n + 1, leased |-> FALSE]

recordDeliveryAttempt(d) ==
  /\ sender[d].step = "SENT"
  /\ delivery' = AfterAttempt(sender[d].attempts, sender[d].ok)
  /\ sender' = [sender EXCEPT ![d] = NotSending]
  /\ UNCHANGED <<state, processing, results, jobs, work, starter, faults>>

DispatcherDies(d) ==
  /\ sender[d].step # "IDLE"
  /\ Fault("CRASH")
  /\ sender' = [sender EXCEPT ![d] = NotSending]
  /\ UNCHANGED <<state, processing, results, jobs, work, starter, delivery>>

(* A lease runs out under its dispatcher only when the batch is slow.      *)
LeaseRunsOut ==
  /\ delivery.leased
  /\ "SLOW_BATCH" \in Faults \/ \A d \in Dispatcher : sender[d].step = "IDLE"
  /\ delivery' = [delivery EXCEPT !.leased = FALSE]
  /\ UNCHANGED <<state, processing, results, jobs, work, starter, sender, faults>>

Handle(w) ==
  \/ MarkRunning(w) \/ ClearEvidence(w) \/ extractEvidence(w) \/ scoreDimensions(w)
  \/ aggregateScores(w) \/ recommendations(w) \/ WriteReport(w) \/ buildReport(w)
  \/ renderPdf(w) \/ campaignInterviewCompleted(w) \/ enqueueOrgEvent(w) \/ OtherStage(w)
  \/ Finish(w) \/ Continue(w)

Next ==
  \/ beginEvaluation \/ reprocess \/ startEvaluation \/ StarterDies
  \/ \E s \in Stage, r \in Run : LoseJob(s, r) \/ Stalled(s, r)
  \/ \E w \in Worker :
       \/ \E s \in Stage, r \in Run : Take(w, s, r)
       \/ Handle(w) \/ StageFails(w) \/ WorkerDies(w) \/ DiesAfterContinue(w)
  \/ sweepEvaluations
  \/ \E d \in Dispatcher :
       claimDueDeliveries(d) \/ deliverOne(d) \/ recordDeliveryAttempt(d) \/ DispatcherDies(d)
  \/ LeaseRunsOut

Spec == Init /\ [][Next]_vars

(* Workers take the jobs there are and do not hang, the sweep runs every   *)
(* minute, the queue notices jobs whose worker is gone, leases run out.    *)
Fairness ==
  /\ WF_vars(beginEvaluation) /\ WF_vars(startEvaluation)
  /\ \A w \in Worker :
       /\ WF_vars(\E s \in Stage, r \in Run : Take(w, s, r))
       /\ WF_vars(Handle(w) \/ StageFails(w))
  /\ WF_vars(\E s \in Stage, r \in Run : Stalled(s, r))
  /\ WF_vars(sweepEvaluations)
  /\ \A d \in Dispatcher :
       /\ WF_vars(claimDueDeliveries(d))
       /\ WF_vars(deliverOne(d)) /\ WF_vars(recordDeliveryAttempt(d))
  /\ WF_vars(LeaseRunsOut)

FairSpec == Spec /\ Fairness

-------------------------------------------------------------------------------
(* Properties                                                              *)

(* A run's evidence is there once, whatever was retried, when its scores   *)
(* are made; a report rests on a score, and nothing that comes after the   *)
(* report happens without one.                                             *)
EvidenceOnce ==
  /\ \A w \in Worker :
       work[w].step = "RUNNING" /\ work[w].stage \in {"SCORE_DIMENSIONS", "AGGREGATE"}
         => evidence[work[w].run] = 1
  /\ report # 0 => score # 0
  /\ state = "REPORT_READY" \/ pdf \/ deliveries > 0 => report # 0

(* An interview that is processing gets its report, and what comes after   *)
(* the report is done too, or the stage is marked FAILED for an admin,     *)
(* whatever dies and whatever job is lost.                                 *)
EvaluationEnds ==
  state = "PROCESSING"
    ~> \/ processing.status = "FAILED"
       \/ state = "REPORT_READY" /\ processing.status = "DONE" /\ pdf

(* "Runs once per application, however often the stage is retried"         *)
(* (org-webhooks.ts): the organisation's event is queued at most once, and *)
(* the lease keeps two dispatchers from sending it at the same time.       *)
AnnouncedOnce ==
  /\ deliveries <= 1
  /\ \A c, d \in Dispatcher : sender[c].step # "IDLE" /\ sender[d].step # "IDLE" => c = d

(* A queued delivery is delivered or given up.                             *)
DeliverySettles == delivery.status = "PENDING" ~> delivery.status \in {"DELIVERED", "FAILED"}
===============================================================================
