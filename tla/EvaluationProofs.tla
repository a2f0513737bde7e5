--------------------------- MODULE EvaluationProofs ---------------------------
(***************************************************************************)
(* Theorems about Evaluation, for any number of workers, dispatchers,      *)
(* attempts, runs and faults.                                              *)
(***************************************************************************)
EXTENDS Evaluation, TLAPS

(* The chain of the stages.                                                *)
LEMMA Chain ==
  /\ nextStage("FINALIZE_TRANSCRIPT") = "EXTRACT_EVIDENCE"
  /\ nextStage("EXTRACT_EVIDENCE") = "SCORE_DIMENSIONS"
  /\ nextStage("SCORE_DIMENSIONS") = "AGGREGATE"
  /\ nextStage("AGGREGATE") = "RECOMMENDATIONS"
  /\ nextStage("RECOMMENDATIONS") = "COACHING"
  /\ nextStage("COACHING") = "BUILD_REPORT"
  /\ nextStage("BUILD_REPORT") = "RENDER_PDF"
  /\ nextStage("RENDER_PDF") = "NOTIFY"
  /\ nextStage("NOTIFY") = None
<1>1. DOMAIN STAGES = 1..9
  BY DEF STAGES
<1>2. /\ STAGES[1] = "FINALIZE_TRANSCRIPT" /\ STAGES[2] = "EXTRACT_EVIDENCE"
      /\ STAGES[3] = "SCORE_DIMENSIONS" /\ STAGES[4] = "AGGREGATE"
      /\ STAGES[5] = "RECOMMENDATIONS" /\ STAGES[6] = "COACHING"
      /\ STAGES[7] = "BUILD_REPORT" /\ STAGES[8] = "RENDER_PDF" /\ STAGES[9] = "NOTIFY"
  BY DEF STAGES
<1>3. ASSUME NEW k \in 1..8
      PROVE  nextStage(STAGES[k]) = STAGES[1 + k]
  <2>1. \A i \in 1..9 : STAGES[i] = STAGES[k] => i = k
    BY <1>2
  <2>2. (CHOOSE i \in DOMAIN STAGES : STAGES[i] = STAGES[k]) = k
    BY <1>1, <2>1
  <2>3. STAGES[k] # "NOTIFY"
    BY <1>2
  <2> QED
    BY <2>2, <2>3 DEF nextStage
<1>4. nextStage("NOTIFY") = None
  BY DEF nextStage
<1> QED
  BY <1>2, <1>3, <1>4

LEMMA StagesAre ==
  Stage = {"FINALIZE_TRANSCRIPT", "EXTRACT_EVIDENCE", "SCORE_DIMENSIONS", "AGGREGATE",
           "RECOMMENDATIONS", "COACHING", "BUILD_REPORT", "RENDER_PDF", "NOTIFY"}
<1>1. DOMAIN STAGES = 1..9
  BY DEF STAGES
<1>2. /\ STAGES[1] = "FINALIZE_TRANSCRIPT" /\ STAGES[2] = "EXTRACT_EVIDENCE"
      /\ STAGES[3] = "SCORE_DIMENSIONS" /\ STAGES[4] = "AGGREGATE"
      /\ STAGES[5] = "RECOMMENDATIONS" /\ STAGES[6] = "COACHING"
      /\ STAGES[7] = "BUILD_REPORT" /\ STAGES[8] = "RENDER_PDF" /\ STAGES[9] = "NOTIFY"
  BY DEF STAGES
<1> QED
  BY <1>1, <1>2 DEF Stage

LEMMA NextIsAStage == \A s \in Stage : nextStage(s) \in Stage \cup {None}
BY Chain, StagesAre DEF None

-------------------------------------------------------------------------------
(* Types                                                                   *)

LEMMA Constants ==
  /\ Free \in WorkItem
  /\ NotSending \in Sending
  /\ NoJob \in Job
  /\ FIRST_STAGE \in Stage
  /\ \A r \in Run : freshRun(r) \in Processing
BY EvaluationAssumption, StagesAre
DEF Free, NotSending, NoJob, FIRST_STAGE, STAGES, freshRun, WorkItem, Sending, Job, Processing,
    Drafts, NoDraft, RunOrNone, Run, WorkStep, None

LEMMA InitTyped ==
  ASSUME Init
  PROVE  TypeOK
<1> USE EvaluationAssumption
<1>1. processing \in Processing
  BY DEF Init, Processing, Drafts, NoDraft, RunOrNone, None
<1>2. jobs \in [Stage -> [Run -> Job]]
  BY Constants DEF Init
<1>3. work \in [Worker -> WorkItem]
  BY Constants DEF Init
<1>4. sender \in [Dispatcher -> Sending]
  BY Constants DEF Init
<1>5. delivery \in Delivery
  BY DEF Init, Delivery, None
<1>6. evidence \in [Run -> Nat]
  BY DEF Init
<1>7. score \in RunOrNone /\ report \in RunOrNone /\ starter \in RunOrNone /\ faults \in 0..MaxFaults
  BY DEF Init, RunOrNone
<1>8. state \in {"PROCESSING", "REPORT_READY"} /\ deliveries \in Nat
  BY DEF Init
<1>9. pdf \in BOOLEAN /\ notified \in BOOLEAN
  BY Zenon DEF Init
<1> QED
  BY <1>1, <1>2, <1>3, <1>4, <1>5, <1>6, <1>7, <1>8, <1>9 DEF TypeOK

(* A job is replaced.                                                       *)
LEMMA JobStaysTyped ==
  ASSUME jobs \in [Stage -> [Run -> Job]], NEW s \in Stage, NEW r \in Run, NEW j \in Job,
         NEW new, new = [jobs EXCEPT ![s][r] = j]
  PROVE  /\ new \in [Stage -> [Run -> Job]]
         /\ \A t \in Stage, q \in Run : new[t][q] = IF t = s /\ q = r THEN j ELSE jobs[t][q]
OBVIOUS

(* Ensuring a job changes no other, and no job that a worker has.          *)
LEMMA EnsuredJob ==
  ASSUME NEW job \in Job
  PROVE  /\ AfterEnsuring(job) \in Job
         /\ AfterEnsuring(job).state = IF job.state = "ACTIVE" THEN "ACTIVE" ELSE "WAITING"
<1>1. Added \in Job /\ Added.state = "WAITING"
  BY EvaluationAssumption DEF Job, Added
<1>2. job.made \in 0..Attempts
  BY DEF Job
<1>3. CASE job.state = "FAILED"
  BY <1>2, <1>3 DEF AfterEnsuring, Job, None
<1>4. CASE job.state \in {None, "COMPLETED"}
  <2>1. AfterEnsuring(job) = Added
    BY <1>4 DEF AfterEnsuring, None
  <2> QED
    BY <1>1, <1>4, <2>1 DEF None
<1>5. CASE job.state \in {"WAITING", "ACTIVE"}
  BY <1>5 DEF AfterEnsuring, Job, None
<1> QED
  BY <1>3, <1>4, <1>5 DEF Job

LEMMA EnsuredJobs ==
  ASSUME jobs \in [Stage -> [Run -> Job]], NEW s \in Stage, NEW r \in Run
  PROVE  /\ Ensured(s, r) \in [Stage -> [Run -> Job]]
         /\ \A t \in Stage, q \in Run :
              Ensured(s, r)[t][q].state =
                IF t = s /\ q = r
                THEN IF jobs[s][r].state = "ACTIVE" THEN "ACTIVE" ELSE "WAITING"
                ELSE jobs[t][q].state
BY EnsuredJob, JobStaysTyped DEF Ensured

(* What is behind the types: a worker that has a job works for a run, a    *)
(* record has a status only once a run has begun, and whoever sends, or    *)
(* has still to send, a delivery has an attempt left.                      *)
RunsInv ==
  /\ \A w \in Worker : work[w].step # "IDLE" => work[w].run \in Run
  /\ processing.run = 0 => processing.status = None
  /\ delivery.status = "PENDING" => delivery.attempts < MaxSends
  /\ \A d \in Dispatcher : sender[d].step # "IDLE" => sender[d].attempts < MaxSends

Typed == TypeOK /\ RunsInv

LEMMA InitRuns ==
  ASSUME Init
  PROVE  RunsInv
BY EvaluationAssumption DEF Init, RunsInv, Free, NotSending, None

(* A worker goes on to another step of its job.                            *)
LEMMA Stepped ==
  ASSUME work \in [Worker -> WorkItem], NEW w \in Worker, NEW x \in WorkStep,
         NEW new, new = [work EXCEPT ![w].step = x]
  PROVE  /\ new \in [Worker -> WorkItem]
         /\ \A v \in Worker : /\ new[v].step = IF v = w THEN x ELSE work[v].step
                             /\ new[v].run = work[v].run
                             /\ new[v].stage = work[v].stage
BY DEF WorkItem

(* A worker ends its job, or dies with it.                                 *)
LEMMA Idled ==
  ASSUME work \in [Worker -> WorkItem], NEW w \in Worker, Idle(w)
  PROVE  /\ work' \in [Worker -> WorkItem]
         /\ \A v \in Worker : v # w => work'[v] = work[v]
         /\ work'[w].step = "IDLE"
<1>1. Free \in WorkItem /\ Free.step = "IDLE"
  BY Constants DEF Free
<1> QED
  BY <1>1 DEF Idle

(* The record of a worker's own run is replaced.                           *)
LEMMA Recorded ==
  ASSUME Typed, NEW w \in Worker, work[w].step # "IDLE", NEW p \in Processing,
         p.run = processing.run, Record(w, p)
  PROVE  processing' \in Processing /\ (processing'.run = 0 => processing'.status = None)
<1>1. work[w].run # 0
  BY EvaluationAssumption DEF Typed, RunsInv, Run
<1>2. CASE processing.run = work[w].run
  BY <1>1, <1>2 DEF Record
<1>3. CASE processing.run # work[w].run
  BY <1>3 DEF Record, Typed, TypeOK, RunsInv
<1> QED
  BY <1>2, <1>3

-------------------------------------------------------------------------------
(* Every step keeps the types                                              *)

LEMMA StarterTyped ==
  ASSUME Typed, beginEvaluation \/ reprocess \/ startEvaluation \/ StarterDies
  PROVE  Typed'
<1> USE EvaluationAssumption
<1>1. /\ jobs \in [Stage -> [Run -> Job]] /\ processing.run \in RunOrNone
      /\ starter \in RunOrNone /\ faults \in 0..MaxFaults
  BY DEF Typed, TypeOK, Processing
<1>2. ASSUME NEW r \in Run, processing' = freshRun(r), starter' = r,
             UNCHANGED <<state, results, jobs, work, outbox, faults>>
      PROVE  Typed'
  <2>1. processing' \in Processing /\ processing'.run # 0
    BY <1>2, Constants DEF freshRun, Run
  <2>2. starter' \in RunOrNone
    BY <1>2 DEF Run, RunOrNone
  <2> QED
    BY <1>2, <2>1, <2>2 DEF Typed, TypeOK, RunsInv, results, outbox
<1>3. CASE beginEvaluation
  <2>1. 1 \in Run
    BY DEF Run
  <2> QED
    BY <1>2, <1>3, <2>1 DEF beginEvaluation
<1>4. CASE reprocess
  <2>1. processing.run + 1 \in Run
    BY <1>4 DEF reprocess, Run
  <2> QED
    BY <1>2, <1>4, <2>1 DEF reprocess
<1>5. CASE startEvaluation
  <2>1. starter \in Run
    BY <1>1, <1>5 DEF startEvaluation, Run, RunOrNone
  <2>2. jobs' \in [Stage -> [Run -> Job]]
    BY <1>1, <1>5, <2>1, EnsuredJobs, Constants DEF startEvaluation, ensureStageJob
  <2>3. starter' \in RunOrNone
    BY <1>5 DEF startEvaluation, RunOrNone
  <2> QED
    BY <1>5, <2>2, <2>3 DEF startEvaluation, Typed, TypeOK, RunsInv, results, outbox
<1>6. CASE StarterDies
  <2>1. starter' \in RunOrNone /\ faults' \in 0..MaxFaults
    BY <1>1, <1>6 DEF StarterDies, Fault, RunOrNone
  <2> QED
    BY <1>6, <2>1 DEF StarterDies, Typed, TypeOK, RunsInv, results, outbox
<1> QED
  BY <1>3, <1>4, <1>5, <1>6

LEMMA QueueTyped ==
  ASSUME Typed, NEW s \in Stage, NEW r \in Run, LoseJob(s, r) \/ Stalled(s, r)
  PROVE  Typed'
<1>1. jobs \in [Stage -> [Run -> Job]] /\ faults \in 0..MaxFaults
  BY DEF Typed, TypeOK
<1>2. CASE LoseJob(s, r)
  <2>1. jobs' \in [Stage -> [Run -> Job]]
    BY <1>1, <1>2, JobStaysTyped, Constants DEF LoseJob
  <2>2. faults' \in 0..MaxFaults
    BY <1>1, <1>2, EvaluationAssumption DEF LoseJob, Fault
  <2> QED
    BY <1>2, <2>1, <2>2 DEF LoseJob, Typed, TypeOK, RunsInv, results, outbox
<1>3. CASE Stalled(s, r)
  <2>1. PICK st \in {"WAITING", "FAILED"} : jobs' = [jobs EXCEPT ![s][r].state = st]
    BY <1>3 DEF Stalled
  <2>2. jobs' \in [Stage -> [Run -> Job]]
    BY <1>1, <2>1 DEF Job
  <2> QED
    BY <1>3, <2>2 DEF Stalled, Typed, TypeOK, RunsInv, results, outbox
<1> QED
  BY <1>2, <1>3

LEMMA SweepTyped ==
  ASSUME Typed, sweepEvaluations
  PROVE  Typed'
<1>1. processing.run \in Run /\ processing.stage \in Stage
  BY EvaluationAssumption
  DEF sweepEvaluations, Watched, Typed, TypeOK, RunsInv, Processing, RunOrNone, Run, None
<1>2. jobs' \in [Stage -> [Run -> Job]]
  BY <1>1, EnsuredJobs DEF sweepEvaluations, ensureStageJob, Typed, TypeOK
<1> QED
  BY <1>2 DEF sweepEvaluations, Typed, TypeOK, RunsInv, results, outbox

LEMMA TakeTyped ==
  ASSUME Typed, NEW w \in Worker, NEW s \in Stage, NEW r \in Run, Take(w, s, r)
  PROVE  Typed'
<1>1. jobs \in [Stage -> [Run -> Job]] /\ processing.draft \in Drafts
      /\ work \in [Worker -> WorkItem]
  BY DEF Typed, TypeOK, Processing
<1>2. PICK step \in {"IDLE", "READ", "DONE"} :
        /\ work' = [work EXCEPT ![w] =
                      IF step = "IDLE" THEN Free
                      ELSE [step |-> step, stage |-> s, run |-> r, seen |-> processing.draft,
                            ready |-> state = "REPORT_READY"]]
        /\ jobs' = [jobs EXCEPT ![s][r].state = IF step = "IDLE" THEN "COMPLETED" ELSE "ACTIVE"]
  BY Zenon DEF Take
<1>3. r \in RunOrNone
  BY EvaluationAssumption DEF Run, RunOrNone
<1>4. ASSUME step # "IDLE"
      PROVE  [step |-> step, stage |-> s, run |-> r, seen |-> processing.draft,
              ready |-> state = "REPORT_READY"] \in WorkItem
  BY <1>1, <1>3 DEF WorkItem, WorkStep
<1>5. work' \in [Worker -> WorkItem]
  BY <1>1, <1>2, <1>4, Constants
<1>6. \A v \in Worker : work'[v].step # "IDLE" => work'[v].run \in Run
  BY <1>1, <1>2 DEF Typed, RunsInv, Free
<1>7. jobs' \in [Stage -> [Run -> Job]]
  <2> DEFINE st == IF step = "IDLE" THEN "COMPLETED" ELSE "ACTIVE"
  <2>1. st \in {None, "WAITING", "ACTIVE", "COMPLETED", "FAILED"}
    OBVIOUS
  <2>2. jobs' = [jobs EXCEPT ![s][r].state = st]
    BY <1>2
  <2> HIDE DEF st
  <2> QED
    <3> DEFINE j == [jobs[s][r] EXCEPT !.state = st]
    <3>1. j \in Job
      BY <1>1, <2>1 DEF Job
    <3>2. jobs' = [jobs EXCEPT ![s][r] = j]
      BY <2>2
    <3> HIDE DEF j
    <3> QED
      BY <1>1, <3>1, <3>2
<1> QED
  BY <1>5, <1>6, <1>7 DEF Take, Typed, TypeOK, RunsInv, results, outbox

(* What a worker does within a stage changes results, drafts or the        *)
(* session's state.                                                        *)
LEMMA StageTyped ==
  ASSUME Typed, NEW w \in Worker,
         \/ ClearEvidence(w) \/ extractEvidence(w) \/ scoreDimensions(w) \/ aggregateScores(w)
         \/ recommendations(w) \/ WriteReport(w) \/ buildReport(w) \/ renderPdf(w)
         \/ campaignInterviewCompleted(w) \/ enqueueOrgEvent(w) \/ OtherStage(w)
  PROVE  Typed'
<1> USE EvaluationAssumption
<1>1. /\ work \in [Worker -> WorkItem] /\ evidence \in [Run -> Nat]
      /\ deliveries \in Nat /\ score \in RunOrNone /\ report \in RunOrNone
  BY DEF Typed, TypeOK
<1>2. /\ work[w].step # "IDLE"
      /\ \E x \in WorkStep \ {"IDLE"} : work' = [work EXCEPT ![w].step = x]
  BY DEF ClearEvidence, extractEvidence, scoreDimensions, aggregateScores, recommendations,
         WriteReport, buildReport, renderPdf, campaignInterviewCompleted, enqueueOrgEvent,
         OtherStage, At, WorkStep
<1>3. work[w].run \in Run /\ work[w].run \in RunOrNone
  BY <1>1, <1>2 DEF Typed, RunsInv, WorkItem
<1>4. /\ work' \in [Worker -> WorkItem]
      /\ \A v \in Worker : work'[v].step # "IDLE" => work'[v].run \in Run
  <2>1. PICK x \in WorkStep \ {"IDLE"} : work' = [work EXCEPT ![w].step = x]
    BY <1>2
  <2>2. /\ work' \in [Worker -> WorkItem]
        /\ \A v \in Worker : /\ work'[v].step = IF v = w THEN x ELSE work[v].step
                            /\ work'[v].run = work[v].run
    BY <1>1, <2>1, Stepped
  <2> QED
    BY <1>3, <2>2 DEF Typed, RunsInv
<1>5. CASE ClearEvidence(w)
  <2>1. evidence' \in [Run -> Nat]
    BY <1>1, <1>5 DEF ClearEvidence, ClearedEvidence
  <2> QED
    BY <1>4, <1>5, <2>1 DEF ClearEvidence, Typed, TypeOK, RunsInv, outbox
<1>6. CASE extractEvidence(w)
  <2>1. evidence' \in [Run -> Nat]
    <3>1. evidence[work[w].run] + 1 \in Nat
      BY <1>1, <1>3
    <3>2. evidence' = [evidence EXCEPT ![work[w].run] = evidence[work[w].run] + 1]
      BY <1>6 DEF extractEvidence
    <3> QED
      BY <1>1, <1>3, <3>1, <3>2
  <2> QED
    BY <1>4, <1>6, <2>1 DEF extractEvidence, Typed, TypeOK, RunsInv, outbox
<1>7. CASE scoreDimensions(w) \/ recommendations(w)
  <2>1. PICK field \in {"dimensions", "recommendations"} :
          processing' = IF field = "dimensions"
                        THEN [processing EXCEPT !.draft.dimensions = work[w].run]
                        ELSE [processing EXCEPT !.draft.recommendations = work[w].run]
    BY <1>7 DEF scoreDimensions, recommendations
  <2>2. /\ processing' \in Processing /\ processing'.run = processing.run
        /\ processing'.status = processing.status
    BY <1>3, <2>1 DEF Typed, TypeOK, Processing, Drafts
  <2> QED
    BY <1>4, <1>7, <2>2 DEF scoreDimensions, recommendations, Typed, TypeOK, RunsInv, results, outbox
<1>8. CASE aggregateScores(w) \/ WriteReport(w)
  <2>1. score' \in RunOrNone /\ report' \in RunOrNone
    BY <1>1, <1>3, <1>8 DEF aggregateScores, WriteReport
  <2> QED
    BY <1>4, <1>8, <2>1 DEF aggregateScores, WriteReport, Typed, TypeOK, RunsInv, outbox
<1>9. CASE buildReport(w) \/ OtherStage(w)
  <2>1. state' \in {"PROCESSING", "REPORT_READY"}
    BY <1>9 DEF buildReport, OtherStage, Typed, TypeOK
  <2> QED
    BY <1>4, <1>9, <2>1 DEF buildReport, OtherStage, Typed, TypeOK, RunsInv, results, outbox
<1>10. CASE renderPdf(w) \/ campaignInterviewCompleted(w)
  <2>1. pdf' \in BOOLEAN /\ notified' \in BOOLEAN
    BY Zenon, <1>10 DEF renderPdf, campaignInterviewCompleted, Typed, TypeOK
  <2> QED
    BY <1>4, <1>10, <2>1
    DEF renderPdf, campaignInterviewCompleted, Typed, TypeOK, RunsInv, outbox
<1>11. CASE enqueueOrgEvent(w)
  <2>1. delivery' \in Delivery /\ delivery'.attempts < MaxSends
    BY <1>11 DEF enqueueOrgEvent, Delivery
  <2>2. deliveries' \in Nat
    BY <1>1, <1>11 DEF enqueueOrgEvent
  <2> QED
    BY <1>4, <1>11, <2>1, <2>2 DEF enqueueOrgEvent, Typed, TypeOK, RunsInv
<1> QED
  BY <1>5, <1>6, <1>7, <1>8, <1>9, <1>10, <1>11

(* What a worker records of its job, and how it ends.                      *)
LEMMA JobTyped ==
  ASSUME Typed, NEW w \in Worker,
         \/ MarkRunning(w) \/ Finish(w) \/ StageFails(w) \/ Continue(w)
         \/ DiesAfterContinue(w) \/ WorkerDies(w)
  PROVE  Typed'
<1> USE EvaluationAssumption
<1>1. /\ work \in [Worker -> WorkItem] /\ jobs \in [Stage -> [Run -> Job]]
      /\ faults \in 0..MaxFaults /\ processing \in Processing
  BY DEF Typed, TypeOK
<1>2. work[w].step # "IDLE"
  BY DEF MarkRunning, Finish, StageFails, Continue, DiesAfterContinue, WorkerDies
<1>3. work[w].run \in Run /\ work[w].stage \in Stage
  BY <1>1, <1>2 DEF Typed, RunsInv, WorkItem
<1>4. nextStage(work[w].stage) \in Stage \cup {None}
  BY <1>3, NextIsAStage
<1>5. CASE MarkRunning(w)
  <2>1. processing' \in Processing /\ (processing'.run = 0 => processing'.status = None)
    <3> DEFINE p == [processing EXCEPT !.stage = work[w].stage, !.status = "RUNNING"]
    <3>1. p \in Processing /\ p.run = processing.run
      BY <1>1, <1>3 DEF Processing
    <3>2. Record(w, p)
      BY <1>5 DEF MarkRunning
    <3> HIDE DEF p
    <3> QED
      BY <1>2, <3>1, <3>2, Recorded
  <2>2. /\ work' \in [Worker -> WorkItem]
        /\ \A v \in Worker : work'[v].step # "IDLE" => work'[v].run \in Run
    <3>1. "RUNNING" \in WorkStep /\ work' = [work EXCEPT ![w].step = "RUNNING"]
      BY <1>5 DEF MarkRunning, WorkStep
    <3> QED
      BY <1>1, <1>3, <3>1, Stepped DEF Typed, RunsInv
  <2> QED
    BY <1>5, <2>1, <2>2 DEF MarkRunning, Typed, TypeOK, RunsInv, results, outbox
<1>6. CASE Finish(w)
  <2>1. processing' \in Processing /\ (processing'.run = 0 => processing'.status = None)
    <3> DEFINE next == nextStage(work[w].stage)
               p == [processing EXCEPT !.completed = @ \cup {work[w].stage}, !.stage = next,
                                       !.status = IF next = None THEN "DONE" ELSE "QUEUED"]
    <3>1. Record(w, p)
      BY <1>6 DEF Finish
    <3>2. next \in Stage \cup {None}
      BY <1>4
    <3> HIDE DEF next
    <3>3. p \in Processing /\ p.run = processing.run
      BY <1>1, <1>3, <3>2 DEF Processing
    <3> HIDE DEF p
    <3> QED
      BY <1>2, <3>1, <3>3, Recorded
  <2>2. /\ work' \in [Worker -> WorkItem]
        /\ \A v \in Worker : work'[v].step # "IDLE" => work'[v].run \in Run
    <3>1. "DONE" \in WorkStep /\ work' = [work EXCEPT ![w].step = "DONE"]
      BY <1>6 DEF Finish, WorkStep
    <3> QED
      BY <1>1, <1>3, <3>1, Stepped DEF Typed, RunsInv
  <2> QED
    BY <1>6, <2>1, <2>2 DEF Finish, Typed, TypeOK, RunsInv, results, outbox
<1>7. ASSUME Idle(w)
      PROVE  /\ work' \in [Worker -> WorkItem]
             /\ \A v \in Worker : work'[v].step # "IDLE" => work'[v].run \in Run
  BY <1>1, <1>7, Idled DEF Typed, RunsInv
<1>8. CASE StageFails(w)
  <2> DEFINE job == jobs[work[w].stage][work[w].run]
             final == job.made + 1 >= Attempts
             p == [processing EXCEPT !.status = IF final THEN "FAILED" ELSE "QUEUED"]
             new == [state |-> IF final THEN "FAILED" ELSE "WAITING",
                     made |-> IF job.made < Attempts THEN job.made + 1 ELSE job.made]
  <2>1. Record(w, p) /\ EndJob(w, new) /\ Idle(w)
    BY <1>8 DEF StageFails
  <2>2. p \in Processing /\ p.run = processing.run
    BY <1>1 DEF Processing
  <2>3. job \in Job
    BY <1>1, <1>3
  <2>4. new \in Job
    BY <2>3 DEF Job
  <2> HIDE DEF p, new
  <2>5. processing' \in Processing /\ (processing'.run = 0 => processing'.status = None)
    BY <1>2, <2>1, <2>2, Recorded
  <2>6. jobs' \in [Stage -> [Run -> Job]]
    BY <1>1, <1>3, <2>1, <2>4, JobStaysTyped DEF EndJob
  <2> QED
    BY <1>7, <1>8, <2>1, <2>5, <2>6 DEF StageFails, Typed, TypeOK, RunsInv, results, outbox
<1>9. WithNext(w) \in [Stage -> [Run -> Job]]
  BY <1>1, <1>3, <1>4, EnsuredJobs DEF WithNext
<1>10. CASE Continue(w)
  <2> DEFINE done == [state |-> "COMPLETED", made |-> 0]
  <2>1. done \in Job
    BY DEF Job
  <2>2. jobs' = [WithNext(w) EXCEPT ![work[w].stage][work[w].run] = done]
    BY <1>10 DEF Continue
  <2> HIDE DEF done
  <2>3. jobs' \in [Stage -> [Run -> Job]]
    BY <1>3, <1>9, <2>1, <2>2
  <2> QED
    BY <1>7, <1>10, <2>3 DEF Continue, Typed, TypeOK, RunsInv, results, outbox
<1>11. CASE DiesAfterContinue(w) \/ WorkerDies(w)
  <2>1. jobs' \in [Stage -> [Run -> Job]]
    BY <1>1, <1>9, <1>11 DEF DiesAfterContinue, WorkerDies
  <2>2. faults' \in 0..MaxFaults
    BY <1>1, <1>11 DEF DiesAfterContinue, WorkerDies, Fault
  <2> QED
    BY <1>7, <1>11, <2>1, <2>2
    DEF DiesAfterContinue, WorkerDies, Typed, TypeOK, RunsInv, results, outbox
<1> QED
  BY <1>5, <1>6, <1>8, <1>10, <1>11

LEMMA DeliveryTyped ==
  ASSUME Typed, NEW d \in Dispatcher,
         claimDueDeliveries(d) \/ deliverOne(d) \/ recordDeliveryAttempt(d) \/ DispatcherDies(d)
  PROVE  Typed'
<1> USE EvaluationAssumption
<1>1. /\ sender \in [Dispatcher -> Sending] /\ delivery \in Delivery /\ faults \in 0..MaxFaults
      /\ NotSending \in Sending /\ NotSending.step = "IDLE"
  BY Constants DEF Typed, TypeOK, NotSending
<1>2. CASE claimDueDeliveries(d)
  <2> DEFINE new == [step |-> "CLAIMED", attempts |-> delivery.attempts, ok |-> FALSE]
  <2>1. /\ new \in Sending /\ new.attempts < MaxSends
        /\ sender' = [sender EXCEPT ![d] = new] /\ delivery' = [delivery EXCEPT !.leased = TRUE]
    BY <1>1, <1>2 DEF claimDueDeliveries, Due, Typed, RunsInv, Sending, Delivery
  <2> HIDE DEF new
  <2>2. /\ sender' \in [Dispatcher -> Sending]
        /\ \A e \in Dispatcher : sender'[e].step # "IDLE" => sender'[e].attempts < MaxSends
    BY <1>1, <2>1 DEF Typed, RunsInv
  <2>3. /\ delivery' \in Delivery
        /\ delivery'.status = "PENDING" => delivery'.attempts < MaxSends
    BY <1>1, <2>1 DEF Typed, RunsInv, Delivery
  <2> QED
    BY <1>2, <2>2, <2>3 DEF claimDueDeliveries, Typed, TypeOK, RunsInv, results
<1>3. CASE deliverOne(d)
  <2>1. PICK ok \in BOOLEAN : sender' = [sender EXCEPT ![d].step = "SENT", ![d].ok = ok]
    BY <1>3 DEF deliverOne
  <2>2. sender[d].step # "IDLE"
    BY <1>3 DEF deliverOne
  <2> DEFINE new == [sender[d] EXCEPT !.step = "SENT", !.ok = ok]
  <2>3. new \in Sending /\ new.attempts = sender[d].attempts
    BY <1>1 DEF Sending
  <2>4. sender' = [sender EXCEPT ![d] = new]
    BY <1>1, <2>1
  <2> HIDE DEF new
  <2>5. /\ sender' \in [Dispatcher -> Sending]
        /\ \A e \in Dispatcher : sender'[e].step # "IDLE" => sender'[e].attempts < MaxSends
    BY <1>1, <2>2, <2>3, <2>4 DEF Typed, RunsInv
  <2> QED
    BY <1>3, <2>5 DEF deliverOne, Typed, TypeOK, RunsInv, results
<1>4. ASSUME sender' = [sender EXCEPT ![d] = NotSending]
      PROVE  /\ sender' \in [Dispatcher -> Sending]
             /\ \A e \in Dispatcher : sender'[e].step # "IDLE" => sender'[e].attempts < MaxSends
  BY <1>1, <1>4 DEF Typed, RunsInv
<1>5. CASE recordDeliveryAttempt(d)
  <2>1. sender[d].attempts \in 0..MaxSends /\ sender[d].attempts < MaxSends
    BY <1>1, <1>5 DEF recordDeliveryAttempt, Sending, Typed, RunsInv
  <2>2. delivery' = AfterAttempt(sender[d].attempts, sender[d].ok)
    BY <1>5 DEF recordDeliveryAttempt
  <2>3. /\ delivery' \in Delivery
        /\ delivery'.status = "PENDING" => delivery'.attempts < MaxSends
    BY <2>1, <2>2 DEF AfterAttempt, Delivery
  <2> QED
    BY <1>4, <1>5, <2>3 DEF recordDeliveryAttempt, Typed, TypeOK, RunsInv, results
<1>6. CASE DispatcherDies(d)
  <2>1. faults' \in 0..MaxFaults
    BY <1>1, <1>6 DEF DispatcherDies, Fault
  <2> QED
    BY <1>4, <1>6, <2>1 DEF DispatcherDies, Typed, TypeOK, RunsInv, results
<1> QED
  BY <1>2, <1>3, <1>5, <1>6

LEMMA LeaseTyped ==
  ASSUME Typed, LeaseRunsOut
  PROVE  Typed'
<1>1. /\ delivery' \in Delivery
      /\ delivery'.status = "PENDING" => delivery'.attempts < MaxSends
  BY DEF LeaseRunsOut, Typed, TypeOK, RunsInv, Delivery
<1> QED
  BY <1>1 DEF LeaseRunsOut, Typed, TypeOK, RunsInv, results

LEMMA StaysTyped ==
  ASSUME Typed, [Next]_vars
  PROVE  Typed'
<1>1. CASE UNCHANGED vars
  BY <1>1 DEF vars, results, outbox, Typed, TypeOK, RunsInv
<1>2. CASE beginEvaluation \/ reprocess \/ startEvaluation \/ StarterDies
  BY <1>2, StarterTyped
<1>3. CASE \E s \in Stage, r \in Run : LoseJob(s, r) \/ Stalled(s, r)
  BY <1>3, QueueTyped
<1>4. CASE \E w \in Worker :
             \/ \E s \in Stage, r \in Run : Take(w, s, r)
             \/ Handle(w) \/ StageFails(w) \/ WorkerDies(w) \/ DiesAfterContinue(w)
  BY <1>4, TakeTyped, StageTyped, JobTyped DEF Handle
<1>5. CASE sweepEvaluations \/ LeaseRunsOut
  BY <1>5, SweepTyped, LeaseTyped
<1>6. CASE \E d \in Dispatcher :
             claimDueDeliveries(d) \/ deliverOne(d) \/ recordDeliveryAttempt(d) \/ DispatcherDies(d)
  BY <1>6, DeliveryTyped
<1> QED
  BY <1>1, <1>2, <1>3, <1>4, <1>5, <1>6 DEF Next

LEMMA AlwaysTyped == Spec => []Typed
<1>1. Init => Typed
  BY InitTyped, InitRuns DEF Typed
<1>2. Typed /\ [Next]_vars => Typed'
  BY StaysTyped
<1> QED
  BY <1>1, <1>2, PTL DEF Spec

(* The session, its record, the jobs, the workers and the delivery keep    *)
(* their types, whatever dies, is lost or runs late: no delivery is        *)
(* attempted more often than it may be, and every job of a worker belongs  *)
(* to a run (pipeline.ts, queue.ts, org-webhooks.ts).                      *)
THEOREM TypeCorrect == Spec => []TypeOK
BY AlwaysTyped, PTL DEF Typed

-------------------------------------------------------------------------------
(* The completion is announced once                                        *)

Claiming == {w \in Worker : work[w].step = "CLAIMED"}
Senders == {d \in Dispatcher : sender[d].step # "IDLE"}

(* One worker at most has the notice, and nothing is queued before it has  *)
(* been taken.                                                             *)
NoticeInv ==
  /\ ~notified => Claiming = {} /\ deliveries = 0
  /\ \A v, w \in Claiming : v = w
  /\ Claiming # {} => deliveries = 0
  /\ deliveries <= 1

(* One dispatcher at most has the delivery, under its lease; there is none *)
(* before it is queued.                                                    *)
LeaseInv ==
  /\ deliveries = 0 => delivery.status = None /\ Senders = {}
  /\ \A c, d \in Senders : c = d
  /\ Senders # {} => delivery.leased

AnnounceInv == NoticeInv /\ LeaseInv
Quietly == UNCHANGED <<notified, deliveries, outbox>> /\ Claiming' \subseteq Claiming

LEMMA InitAnnounced ==
  ASSUME Init
  PROVE  AnnounceInv
<1>1. Claiming = {} /\ Senders = {}
  BY DEF Init, Claiming, Senders, Free, NotSending
<1> QED
  BY <1>1 DEF Init, AnnounceInv, NoticeInv, LeaseInv

LEMMA QuietlyAnnounced ==
  ASSUME AnnounceInv, Quietly
  PROVE  AnnounceInv'
<1>1. Senders' = Senders
  BY DEF Quietly, outbox, Senders
<1> QED
  BY <1>1 DEF Quietly, outbox, AnnounceInv, NoticeInv, LeaseInv

(* Every step but the two of the notice and those of the dispatchers.      *)
LEMMA OthersQuiet ==
  ASSUME Typed, NEW w \in Worker,
         \/ \E s \in Stage, r \in Run : Take(w, s, r)
         \/ MarkRunning(w) \/ ClearEvidence(w) \/ extractEvidence(w) \/ scoreDimensions(w)
         \/ aggregateScores(w) \/ recommendations(w) \/ WriteReport(w) \/ buildReport(w)
         \/ renderPdf(w) \/ OtherStage(w) \/ Finish(w) \/ Continue(w)
         \/ StageFails(w) \/ WorkerDies(w) \/ DiesAfterContinue(w)
  PROVE  Quietly
<1>1. work \in [Worker -> WorkItem]
  BY DEF Typed, TypeOK
<1>2. UNCHANGED <<notified, deliveries, outbox>>
  BY DEF Take, MarkRunning, ClearEvidence, extractEvidence, scoreDimensions, aggregateScores,
         recommendations, WriteReport, buildReport, renderPdf, OtherStage, Finish, Continue,
         StageFails, WorkerDies, DiesAfterContinue, results
<1>3. ASSUME work'[w].step # "CLAIMED", \A v \in Worker : v # w => work'[v] = work[v]
      PROVE  Claiming' \subseteq Claiming
  BY <1>3 DEF Claiming
<1>4. CASE \E s \in Stage, r \in Run : Take(w, s, r)
  <2>1. PICK step \in {"IDLE", "READ", "DONE"}, s \in Stage, r \in Run :
          work' = [work EXCEPT ![w] =
                     IF step = "IDLE" THEN Free
                     ELSE [step |-> step, stage |-> s, run |-> r, seen |-> processing.draft,
                           ready |-> state = "REPORT_READY"]]
    BY Zenon, <1>4 DEF Take
  <2> QED
    BY <1>1, <1>2, <1>3, <2>1 DEF Quietly, Free
<1>5. CASE \E x \in WorkStep \ {"CLAIMED"} : work' = [work EXCEPT ![w].step = x]
  <2>1. PICK x \in WorkStep \ {"CLAIMED"} : work' = [work EXCEPT ![w].step = x]
    BY <1>5
  <2> QED
    BY <1>1, <1>2, <1>3, <2>1 DEF Quietly, WorkItem
<1>6. CASE Idle(w)
  BY <1>1, <1>2, <1>3, <1>6, Idled DEF Quietly
<1>7. CASE \/ MarkRunning(w) \/ ClearEvidence(w) \/ extractEvidence(w) \/ scoreDimensions(w)
           \/ aggregateScores(w) \/ recommendations(w) \/ WriteReport(w) \/ buildReport(w)
           \/ renderPdf(w) \/ OtherStage(w) \/ Finish(w)
  BY <1>5, <1>7
  DEF MarkRunning, ClearEvidence, extractEvidence, scoreDimensions, aggregateScores,
      recommendations, WriteReport, buildReport, renderPdf, OtherStage, Finish, WorkStep
<1>8. CASE Continue(w) \/ StageFails(w) \/ WorkerDies(w) \/ DiesAfterContinue(w)
  BY <1>6, <1>8 DEF Continue, StageFails, WorkerDies, DiesAfterContinue
<1> QED
  BY <1>4, <1>7, <1>8

LEMMA NoticeTaken ==
  ASSUME Typed, AnnounceInv, NEW w \in Worker, campaignInterviewCompleted(w)
  PROVE  AnnounceInv'
<1>1. work \in [Worker -> WorkItem]
  BY DEF Typed, TypeOK
<1>2. UNCHANGED <<deliveries, outbox>> /\ notified'
  BY DEF campaignInterviewCompleted
<1>3. Senders' = Senders
  BY <1>2 DEF outbox, Senders
<1>4. PICK x \in {"CLAIMED", "RAN"} :
        /\ work' = [work EXCEPT ![w].step = x]
        /\ x = "CLAIMED" => Claiming = {} /\ deliveries = 0
  <2>1. ~notified => Claiming = {} /\ deliveries = 0
    BY Zenon DEF AnnounceInv, NoticeInv
  <2>2. \E x \in {"CLAIMED", "RAN"} :
          /\ work' = [work EXCEPT ![w].step = x]
          /\ x = "CLAIMED" => ~notified
    BY Zenon DEF campaignInterviewCompleted, FirstNotice
  <2> QED
    BY Zenon, <2>1, <2>2
<1>5. \A v \in Worker : work'[v].step = IF v = w THEN x ELSE work[v].step
  <2>1. x \in WorkStep
    BY DEF WorkStep
  <2>2. work' = [work EXCEPT ![w].step = x]
    BY Zenon, <1>4
  <2> QED
    BY <1>1, <2>1, <2>2, Stepped
<1>6. CASE x = "RAN"
  <2>1. Claiming' \subseteq Claiming
    BY <1>5, <1>6 DEF Claiming
  <2> QED
    BY <1>2, <1>3, <2>1 DEF outbox, AnnounceInv, NoticeInv, LeaseInv
<1>7. CASE x = "CLAIMED"
  <2>1. Claiming = {} /\ deliveries = 0
    BY <1>4, <1>7
  <2>2. Claiming' = {w}
    BY <1>5, <1>7, <2>1 DEF Claiming
  <2> QED
    BY <1>2, <1>3, <2>1, <2>2 DEF outbox, AnnounceInv, NoticeInv, LeaseInv
<1> QED
  BY <1>4, <1>6, <1>7

LEMMA NoticeQueued ==
  ASSUME Typed, AnnounceInv, NEW w \in Worker, enqueueOrgEvent(w)
  PROVE  AnnounceInv'
<1>1. work \in [Worker -> WorkItem]
  BY DEF Typed, TypeOK
<1>2. w \in Claiming
  BY DEF enqueueOrgEvent, At, Claiming
<1>3. deliveries = 0 /\ notified /\ Senders = {} /\ \A v \in Claiming : v = w
  BY <1>2 DEF AnnounceInv, NoticeInv, LeaseInv
<1>4. \A v \in Worker : work'[v].step = IF v = w THEN "RAN" ELSE work[v].step
  BY <1>1 DEF enqueueOrgEvent, WorkItem
<1>5. Claiming' = {}
  BY <1>3, <1>4 DEF Claiming
<1>6. Senders' = {} /\ deliveries' = 1 /\ notified'
  BY <1>3 DEF enqueueOrgEvent, Senders
<1> QED
  BY <1>5, <1>6 DEF AnnounceInv, NoticeInv, LeaseInv

(* The lease runs out only under nobody.                                   *)
LEMMA DispatcherAnnounced ==
  ASSUME Typed, AnnounceInv, "SLOW_BATCH" \notin Faults,
         \/ \E d \in Dispatcher :
              \/ claimDueDeliveries(d) \/ deliverOne(d) \/ recordDeliveryAttempt(d)
              \/ DispatcherDies(d)
         \/ LeaseRunsOut
  PROVE  AnnounceInv'
<1>1. sender \in [Dispatcher -> Sending] /\ delivery \in Delivery
  BY DEF Typed, TypeOK
<1>2. UNCHANGED <<notified, deliveries>> /\ Claiming' = Claiming
  BY DEF claimDueDeliveries, deliverOne, recordDeliveryAttempt, DispatcherDies, LeaseRunsOut,
         results, Claiming
<1>3. NoticeInv'
  BY <1>2 DEF AnnounceInv, NoticeInv
<1>4. ASSUME NEW d \in Dispatcher, claimDueDeliveries(d)
      PROVE  LeaseInv'
  <2>1. Senders = {} /\ deliveries # 0
    BY <1>4 DEF claimDueDeliveries, Due, AnnounceInv, LeaseInv, None
  <2>2. Senders' = {d}
    BY <1>1, <1>4, <2>1 DEF claimDueDeliveries, Senders
  <2>3. delivery'.leased
    BY <1>1, <1>4 DEF claimDueDeliveries, Delivery
  <2> QED
    BY <1>2, <2>1, <2>2, <2>3 DEF LeaseInv
<1>5. ASSUME NEW d \in Dispatcher, deliverOne(d)
      PROVE  LeaseInv'
  <2>1. PICK ok \in BOOLEAN : sender' = [sender EXCEPT ![d].step = "SENT", ![d].ok = ok]
    BY <1>5 DEF deliverOne
  <2>2. Senders' = Senders /\ delivery' = delivery
    BY <1>1, <1>5, <2>1 DEF deliverOne, Senders, Sending
  <2> QED
    BY <1>2, <2>2 DEF AnnounceInv, LeaseInv
<1>6. ASSUME NEW d \in Dispatcher, d \in Senders, sender' = [sender EXCEPT ![d] = NotSending]
      PROVE  Senders' = {} /\ deliveries # 0
  BY <1>1, <1>6 DEF Senders, NotSending, AnnounceInv, LeaseInv
<1>7. ASSUME NEW d \in Dispatcher, recordDeliveryAttempt(d) \/ DispatcherDies(d)
      PROVE  LeaseInv'
  <2>1. d \in Senders /\ sender' = [sender EXCEPT ![d] = NotSending]
    BY <1>7 DEF recordDeliveryAttempt, DispatcherDies, Senders
  <2> QED
    BY <1>2, <1>6, <2>1 DEF LeaseInv
<1>8. CASE LeaseRunsOut
  <2>1. Senders = {} /\ Senders' = {}
    BY <1>8 DEF LeaseRunsOut, Senders
  <2>2. delivery'.status = delivery.status
    BY <1>1, <1>8 DEF LeaseRunsOut, Delivery
  <2>3. deliveries = 0 => delivery.status = None
    BY DEF AnnounceInv, LeaseInv
  <2>4. deliveries' = 0 => delivery'.status = None
    BY <1>2, <2>2, <2>3
  <2>5. LeaseInv'
    BY Zenon, <2>1, <2>4 DEF LeaseInv
  <2> QED
    BY <1>3, <2>5 DEF AnnounceInv
<1> QED
  BY <1>3, <1>4, <1>5, <1>7, <1>8 DEF AnnounceInv

LEMMA StaysAnnounced ==
  ASSUME Typed, AnnounceInv, "SLOW_BATCH" \notin Faults, [Next]_vars
  PROVE  AnnounceInv'
<1>1. CASE \/ UNCHANGED vars
           \/ beginEvaluation \/ reprocess \/ startEvaluation \/ StarterDies
           \/ \E s \in Stage, r \in Run : LoseJob(s, r) \/ Stalled(s, r)
           \/ sweepEvaluations
  <2>1. UNCHANGED <<notified, deliveries, outbox>> /\ UNCHANGED work
    BY <1>1 DEF vars, results, beginEvaluation, reprocess, startEvaluation, StarterDies,
                LoseJob, Stalled, sweepEvaluations
  <2>2. Quietly
    BY <2>1 DEF Quietly, Claiming
  <2> QED
    BY <2>2, QuietlyAnnounced
<1>2. CASE \E w \in Worker :
             \/ \E s \in Stage, r \in Run : Take(w, s, r)
             \/ Handle(w) \/ StageFails(w) \/ WorkerDies(w) \/ DiesAfterContinue(w)
  BY <1>2, OthersQuiet, QuietlyAnnounced, NoticeTaken, NoticeQueued DEF Handle
<1>3. CASE \/ \E d \in Dispatcher :
                \/ claimDueDeliveries(d) \/ deliverOne(d) \/ recordDeliveryAttempt(d)
                \/ DispatcherDies(d)
           \/ LeaseRunsOut
  BY <1>3, DispatcherAnnounced
<1> QED
  BY <1>1, <1>2, <1>3 DEF Next

(* As long as no batch outlives its lease, the organisation's event is     *)
(* queued at most once, however often its stage is retried and by however  *)
(* many workers, and no two dispatchers send it at the same time           *)
(* (org-webhooks.ts:117, 171).                                             *)
THEOREM AnnouncedOnceAlways ==
  ASSUME "SLOW_BATCH" \notin Faults
  PROVE  Spec => []AnnouncedOnce
<1>1. Init => Typed /\ AnnounceInv
  BY InitTyped, InitRuns, InitAnnounced DEF Typed
<1>2. Typed /\ AnnounceInv /\ [Next]_vars => (Typed /\ AnnounceInv)'
  BY StaysTyped, StaysAnnounced
<1>3. Typed /\ AnnounceInv => AnnouncedOnce
  BY DEF AnnounceInv, NoticeInv, LeaseInv, AnnouncedOnce, Senders
<1> QED
  BY <1>1, <1>2, <1>3, PTL DEF Spec
-------------------------------------------------------------------------------
(* The evidence of a run                                                   *)

Extract == "EXTRACT_EVIDENCE"
Later == Stage \ {"FINALIZE_TRANSCRIPT", Extract}
Busy(w) == work[w].step # "IDLE"

(* Each job has one worker at most, and no job or worker is ahead of the   *)
(* runs.                                                                   *)
JobsInv ==
  /\ \A w \in Worker : Busy(w) => /\ jobs[work[w].stage][work[w].run].state = "ACTIVE"
                                  /\ work[w].run <= processing.run
  /\ \A v, w \in Worker :
       Busy(v) /\ Busy(w) /\ work[v].stage = work[w].stage /\ work[v].run = work[w].run => v = w
  /\ \A s \in Stage, r \in Run : jobs[s][r].state # None => r <= processing.run
  /\ starter <= processing.run

(* Run r has evidence, or is over.                                         *)
Passed(r) ==
  \/ processing.run > r
  \/ processing.run = r /\ Extract \in processing.completed

Extracting(w, r) ==
  /\ work[w].stage = Extract /\ work[w].run = r
  /\ work[w].step \in {"READ", "RUNNING", "CLEARED", "RAN"}

(* The run has gone past the extraction.                                   *)
Reached(r) ==
  \/ \E s \in Later : jobs[s][r].state # None
  \/ \E w \in Worker : /\ work[w].run = r
                       /\ \/ Busy(w) /\ work[w].stage \in Later
                          \/ work[w].step = "DONE" /\ work[w].stage = Extract
  \/ processing.run = r /\ (processing.stage \in Later \/ Extract \in processing.completed)

EvidenceInv ==
  \A r \in Run : Reached(r) => /\ evidence[r] = 1
                               /\ Passed(r)
                               /\ \A w \in Worker : ~Extracting(w, r)

(* What a worker's step says of what it has done.                          *)
WorkInv ==
  \A w \in Worker :
    /\ work[w].step = "CLEARED" /\ work[w].stage = Extract => evidence[work[w].run] = 0
    /\ work[w].step = "RAN" /\ work[w].stage = Extract => evidence[work[w].run] = 1
    /\ work[w].step = "BUILT" => report # 0
    /\ work[w].step \in {"READ", "RUNNING", "CLAIMED"} /\ work[w].stage \in AFTER_REPORT
         => state = "REPORT_READY"

ReportInv ==
  /\ report # 0 => score # 0
  /\ state = "REPORT_READY" \/ pdf \/ deliveries > 0 => report # 0

EvidenceInvs == JobsInv /\ EvidenceInv /\ WorkInv /\ ReportInv

LEMMA InitEvidence == Init => EvidenceInvs
<1> SUFFICES ASSUME Init PROVE EvidenceInvs
  OBVIOUS
<1>1. /\ \A w \in Worker : ~Busy(w) /\ work[w].step = "IDLE"
      /\ \A s \in Stage, r \in Run : jobs[s][r].state = None
      /\ processing.run = 0 /\ starter = 0
  BY DEF Init, Busy, Free, NoJob
<1>2. \A r \in Run : r # 0
  BY EvaluationAssumption DEF Run
<1>3. \A r \in Run : ~Reached(r)
  BY <1>1, <1>2 DEF Reached, Later
<1> QED BY <1>1, <1>3 DEF Init, EvidenceInvs, JobsInv, EvidenceInv, WorkInv, ReportInv

(* The types the steps need.                                               *)
LEMMA Kinds ==
  ASSUME Typed
  PROVE  /\ work \in [Worker -> WorkItem] /\ jobs \in [Stage -> [Run -> Job]]
         /\ processing \in Processing /\ processing.run \in Nat /\ starter \in Nat
         /\ Run \subseteq Nat \ {0} /\ Later \subseteq Stage
         /\ \A w \in Worker : /\ work[w].stage \in Stage /\ work[w].step \in WorkStep
                              /\ Busy(w) => work[w].run \in Run
         /\ evidence \in [Run -> Nat]
BY EvaluationAssumption
DEF Typed, TypeOK, RunsInv, Processing, RunOrNone, Run, WorkItem, Busy, Later

(* The evidence and what rests on it.                                      *)
EvidenceStays ==
  UNCHANGED <<evidence, score, report, state, pdf, deliveries>>

(* Steps that take no run past its extraction, and take up none that is.   *)
LEMMA NoneReached ==
  ASSUME EvidenceInv,
         \A r \in Run : /\ (Reached(r))' => Reached(r)
                        /\ Passed(r) => (Passed(r))'
                        /\ Passed(r) => \A w \in Worker : (Extracting(w, r))' => Extracting(w, r)
                        /\ evidence'[r] # evidence[r] => ~Reached(r)
  PROVE  EvidenceInv'
BY DEF EvidenceInv

(* Steps that leave the workers alone.                                     *)
LEMMA WorkStays ==
  ASSUME WorkInv, ReportInv, UNCHANGED work, EvidenceStays
  PROVE  WorkInv' /\ ReportInv'
BY DEF WorkInv, ReportInv, EvidenceStays

LEMMA BeginsEvidence ==
  ASSUME Typed, EvidenceInvs, beginEvaluation \/ reprocess
  PROVE  EvidenceInvs'
<1>1. /\ processing'.run = processing.run + 1 /\ processing'.stage = FIRST_STAGE
      /\ processing'.completed = {} /\ starter' = processing'.run
      /\ UNCHANGED <<jobs, work>> /\ EvidenceStays
  BY DEF beginEvaluation, reprocess, freshRun, EvidenceStays, results
<1>2. FIRST_STAGE \notin Later
  BY DEF FIRST_STAGE, STAGES, Later
<1>3. processing.run \in Nat /\ \A r \in Run : r \in Nat
  BY Kinds
<1>4. JobsInv'
  BY <1>1, <1>3, Kinds DEF EvidenceInvs, JobsInv, Busy
<1>5. \A r \in Run : (Reached(r))' => Reached(r)
  BY <1>1, <1>2 DEF Reached, Busy
<1>6. \A r \in Run : Passed(r) => (Passed(r))'
  BY <1>1, <1>3 DEF Passed
<1>7. EvidenceInv'
  BY <1>1, <1>5, <1>6, NoneReached DEF EvidenceInvs, EvidenceStays, Extracting
<1> QED BY <1>1, <1>4, <1>7, WorkStays DEF EvidenceInvs

(* A job is ensured that is not ahead of the run's progress.               *)
LEMMA EnsureEvidence ==
  ASSUME Typed, EvidenceInvs, NEW s \in Stage, NEW r \in Run, ensureStageJob(s, r),
         r <= processing.run, s \in Later => Reached(r),
         starter' \in {starter, 0}, UNCHANGED <<processing, work>>, EvidenceStays
  PROVE  EvidenceInvs'
<1>1. \A t \in Stage, q \in Run :
        jobs'[t][q].state = IF t = s /\ q = r
                              THEN IF jobs[s][r].state = "ACTIVE" THEN "ACTIVE" ELSE "WAITING"
                              ELSE jobs[t][q].state
  BY Kinds, EnsuredJobs DEF ensureStageJob
<1>2. JobsInv'
  <2>1. \A w \in Worker : Busy(w) => work[w].stage \in Stage /\ work[w].run \in Run
    BY Kinds
  <2>2. \A t \in Stage, q \in Run : jobs[t][q].state = "ACTIVE" => jobs'[t][q].state = "ACTIVE"
    BY <1>1
  <2>3. \A t \in Stage, q \in Run : jobs'[t][q].state # None => q <= processing.run
    BY <1>1 DEF EvidenceInvs, JobsInv
  <2>4. starter' <= processing.run
    BY Kinds DEF EvidenceInvs, JobsInv
  <2> QED BY <2>1, <2>2, <2>3, <2>4 DEF EvidenceInvs, JobsInv, Busy
<1>3. \A q \in Run : (Reached(q))' => Reached(q)
  BY <1>1, Kinds DEF Reached, Busy
<1>4. EvidenceInv'
  BY <1>3, NoneReached DEF EvidenceInvs, EvidenceStays, Extracting, Passed
<1> QED BY <1>2, <1>4, WorkStays DEF EvidenceInvs

LEMMA StartsEvidence ==
  ASSUME Typed, EvidenceInvs, startEvaluation \/ StarterDies \/ sweepEvaluations
  PROVE  EvidenceInvs'
<1>1. CASE startEvaluation
  <2>1. starter \in Run /\ starter <= processing.run
    BY <1>1 DEF startEvaluation, Typed, TypeOK, RunOrNone, Run, EvidenceInvs, JobsInv
  <2>2. FIRST_STAGE \in Stage /\ FIRST_STAGE \notin Later
    BY Constants DEF FIRST_STAGE, STAGES, Later
  <2> QED BY <1>1, <2>1, <2>2, EnsureEvidence DEF startEvaluation, EvidenceStays, results
<1>2. CASE StarterDies
  <2>1. UNCHANGED <<jobs, processing, work>> /\ EvidenceStays /\ starter' = 0
    BY <1>2 DEF StarterDies, EvidenceStays, results
  <2>2. JobsInv'
    BY <2>1, Kinds DEF EvidenceInvs, JobsInv, Busy
  <2>3. EvidenceInv'
    BY <2>1 DEF EvidenceInvs, EvidenceInv, EvidenceStays, Extracting, Passed, Reached, Busy
  <2> QED BY <2>1, <2>2, <2>3, WorkStays DEF EvidenceInvs
<1>3. CASE sweepEvaluations
  <2>1. processing.run \in Run /\ processing.stage \in Stage
    BY <1>3, EvaluationAssumption
    DEF sweepEvaluations, Watched, Typed, TypeOK, RunsInv, Processing, RunOrNone, Run, None
  <2>2. processing.stage \in Later => Reached(processing.run)
    BY DEF Reached
  <2> QED BY <1>3, <2>1, <2>2, Kinds, EnsureEvidence DEF sweepEvaluations, EvidenceStays, results
<1> QED BY <1>1, <1>2, <1>3

LEMMA QueueEvidence ==
  ASSUME Typed, EvidenceInvs, NEW s \in Stage, NEW r \in Run, LoseJob(s, r) \/ Stalled(s, r)
  PROVE  EvidenceInvs'
<1>1. /\ UNCHANGED <<processing, work, starter>> /\ EvidenceStays
      /\ jobs[s][r].state # None
      /\ \A w \in Worker : Busy(w) => ~(work[w].stage = s /\ work[w].run = r)
  <2>1. CASE LoseJob(s, r)
    BY <2>1 DEF LoseJob, EvidenceStays, results, EvidenceInvs, JobsInv, None
  <2>2. CASE Stalled(s, r)
    BY <2>2 DEF Stalled, Unattended, EvidenceStays, results, Busy, None
  <2> QED BY <2>1, <2>2
<1>2. \A t \in Stage, q \in Run : t # s \/ q # r => jobs'[t][q] = jobs[t][q]
  <2>1. CASE LoseJob(s, r)
    BY <2>1, Kinds DEF LoseJob
  <2>2. CASE Stalled(s, r)
    BY <2>2, Kinds DEF Stalled
  <2> QED BY <2>1, <2>2
<1>3. JobsInv'
  BY <1>1, <1>2, Kinds DEF EvidenceInvs, JobsInv, Busy
<1>4. \A q \in Run : (Reached(q))' => Reached(q)
  BY <1>1, <1>2, Kinds DEF Reached, Busy
<1>5. EvidenceInv'
  BY <1>1, <1>4, NoneReached DEF EvidenceInvs, EvidenceStays, Extracting, Passed
<1> QED BY <1>1, <1>3, <1>5, WorkStays DEF EvidenceInvs

(* A worker goes on within its job.                                        *)
LEMMA StepsJobs ==
  ASSUME Typed, JobsInv, NEW w \in Worker, Busy(w), NEW x \in WorkStep \ {"IDLE"},
         work' = [work EXCEPT ![w].step = x], UNCHANGED <<jobs, starter>>,
         processing'.run = processing.run
  PROVE  JobsInv'
<1>1. \A v \in Worker : /\ work'[v].step = IF v = w THEN x ELSE work[v].step
                        /\ work'[v].run = work[v].run /\ work'[v].stage = work[v].stage
  BY Kinds, Stepped
<1>2. \A v \in Worker : (Busy(v))' <=> Busy(v)
  BY <1>1 DEF Busy
<1> QED BY <1>1, <1>2 DEF JobsInv

(* A worker lets go of its job.                                            *)
LEMMA LeavesJobs ==
  ASSUME Typed, JobsInv, NEW w \in Worker, Busy(w), Idle(w), UNCHANGED starter,
         processing'.run = processing.run,
         \A s \in Stage, r \in Run :
           /\ ~(s = work[w].stage /\ r = work[w].run) /\ jobs[s][r].state = "ACTIVE"
                => jobs'[s][r].state = "ACTIVE"
           /\ jobs'[s][r].state # None => r <= processing.run
  PROVE  JobsInv'
<1>1. /\ \A v \in Worker : v # w => work'[v] = work[v]
      /\ work'[w].step = "IDLE"
  BY Kinds, Idled
<1>2. \A v \in Worker : (Busy(v))' => v # w /\ Busy(v) /\ work'[v] = work[v]
  BY <1>1 DEF Busy
<1>3. \A v \in Worker : Busy(v) => work[v].stage \in Stage /\ work[v].run \in Run
  BY Kinds
<1> QED BY <1>2, <1>3 DEF JobsInv

LEMMA LeavesEvidence ==
  ASSUME Typed, EvidenceInvs, NEW w \in Worker, Busy(w), Idle(w), EvidenceStays,
         \A r \in Run : /\ (Reached(r))' => Reached(r)
                        /\ Passed(r) => (Passed(r))'
  PROVE  EvidenceInv' /\ WorkInv' /\ ReportInv'
<1>1. /\ \A v \in Worker : v # w => work'[v] = work[v]
      /\ work'[w].step = "IDLE"
  BY Kinds, Idled
<1>2. \A v \in Worker, r \in Run : (Extracting(v, r))' => Extracting(v, r)
  BY <1>1 DEF Extracting
<1>3. EvidenceInv'
  BY <1>2, NoneReached DEF EvidenceInvs, EvidenceStays
<1>4. WorkInv' /\ ReportInv'
  BY <1>1 DEF EvidenceInvs, EvidenceStays, WorkInv, ReportInv
<1> QED BY <1>3, <1>4

LEMMA TakeEvidence ==
  ASSUME Typed, EvidenceInvs, NEW w \in Worker, NEW s \in Stage, NEW r \in Run, Take(w, s, r)
  PROVE  EvidenceInvs'
<1> DEFINE step == CASE processing.run = r /\ s \in processing.completed -> "DONE"
                     [] processing.run = r /\ s \notin processing.completed /\ Runnable(s, r) -> "READ"
                     [] OTHER -> "IDLE"
           item == [step |-> step, stage |-> s, run |-> r, seen |-> processing.draft,
                    ready |-> state = "REPORT_READY"]
           st == IF step = "IDLE" THEN "COMPLETED" ELSE "ACTIVE"
<1>1. /\ work[w].step = "IDLE" /\ jobs[s][r].state = "WAITING"
      /\ work' = [work EXCEPT ![w] = IF step = "IDLE" THEN Free ELSE item]
      /\ jobs' = [jobs EXCEPT ![s][r].state = st]
      /\ UNCHANGED <<processing, starter>> /\ EvidenceStays
  BY Zenon DEF Take, EvidenceStays, results
<1>2. step \in {"IDLE", "READ", "DONE"}
  OBVIOUS
<1>3. /\ step = "READ" => /\ processing.run = r /\ s \notin processing.completed
                          /\ s \in AFTER_REPORT => state = "REPORT_READY"
      /\ step = "DONE" => processing.run = r /\ s \in processing.completed
  BY DEF Runnable, AFTER_REPORT
<1> HIDE DEF step
<1>4. item.step = step /\ item.stage = s /\ item.run = r
  OBVIOUS
<1> HIDE DEF item
<1>5. /\ \A v \in Worker : v # w => work'[v] = work[v]
      /\ work'[w] = IF step = "IDLE" THEN Free ELSE item
  BY <1>1, Kinds
<1>6. \A t \in Stage, q \in Run : jobs'[t][q].state = IF t = s /\ q = r THEN st ELSE jobs[t][q].state
  <2> HIDE DEF st
  <2> QED BY <1>1, Kinds DEF Job
<1>7. Free.step = "IDLE" /\ None # "WAITING" /\ None # "ACTIVE"
  BY DEF Free, None
<1>8. \A v \in Worker : (Busy(v))' => IF v = w THEN step # "IDLE" /\ work'[v] = item
                                              ELSE Busy(v) /\ work'[v] = work[v]
  BY <1>5, <1>7 DEF Busy
<1>9. \A v \in Worker : Busy(v) => /\ work[v].stage \in Stage /\ work[v].run \in Run
                                   /\ ~(work[v].stage = s /\ work[v].run = r)
  BY <1>1, Kinds DEF EvidenceInvs, JobsInv
<1>10. r <= processing.run
  BY <1>1, <1>7 DEF EvidenceInvs, JobsInv
<1>11. JobsInv'
  <2>1. ASSUME NEW v \in Worker, (Busy(v))'
        PROVE  /\ jobs'[work'[v].stage][work'[v].run].state = "ACTIVE"
               /\ work'[v].run <= processing.run
    <3>1. CASE v = w
      BY <1>4, <1>6, <1>8, <1>10, <2>1, <3>1
    <3>2. CASE v # w
      BY <1>6, <1>8, <1>9, <2>1, <3>2 DEF EvidenceInvs, JobsInv
    <3> QED BY <3>1, <3>2
  <2>2. \A u, v \in Worker : (Busy(u))' /\ (Busy(v))' /\ work'[u].stage = work'[v].stage
                               /\ work'[u].run = work'[v].run => u = v
    BY <1>4, <1>8, <1>9 DEF EvidenceInvs, JobsInv
  <2>3. \A t \in Stage, q \in Run : jobs'[t][q].state # None => q <= processing.run
    BY <1>6, <1>10 DEF EvidenceInvs, JobsInv
  <2> QED BY <1>1, <2>1, <2>2, <2>3 DEF EvidenceInvs, JobsInv
<1>12. s \in Later => Reached(r)
  BY <1>1, <1>7 DEF Reached
<1>13. s = Extract /\ step = "DONE" => Reached(r)
  BY <1>3 DEF Reached
<1>14. \A q \in Run : (Reached(q))' => Reached(q)
  <2> SUFFICES ASSUME NEW q \in Run, (Reached(q))' PROVE Reached(q)
    OBVIOUS
  <2>1. CASE \E t \in Later : jobs'[t][q].state # None
    BY <1>6, <1>12, <2>1, Kinds DEF Reached
  <2>2. ASSUME NEW v \in Worker, work'[v].run = q,
               \/ (Busy(v))' /\ work'[v].stage \in Later
               \/ work'[v].step = "DONE" /\ work'[v].stage = Extract
        PROVE  Reached(q)
    <3>1. CASE v = w
      <4>1. (Busy(v))'
        BY <2>2 DEF Busy
      <4> QED BY <1>4, <1>8, <1>12, <1>13, <2>2, <3>1, <4>1
    <3>2. CASE v # w
      BY <1>5, <2>2, <3>2 DEF Reached, Busy
    <3> QED BY <3>1, <3>2
  <2>3. CASE processing'.run = q /\ (processing'.stage \in Later \/ Extract \in processing'.completed)
    BY <1>1, <2>3 DEF Reached
  <2> QED BY <2>1, <2>2, <2>3 DEF Reached
<1>15. \A q \in Run : Passed(q) => \A v \in Worker : (Extracting(v, q))' => Extracting(v, q)
  <2> SUFFICES ASSUME NEW q \in Run, Passed(q), NEW v \in Worker, (Extracting(v, q))'
      PROVE  Extracting(v, q)
    OBVIOUS
  <2>1. CASE v = w
    <3>1. work'[v].step # "IDLE" /\ work'[v].stage = Extract /\ work'[v].run = q
          /\ work'[v].step # "DONE"
      BY DEF Extracting
    <3>2. step = "READ" /\ s = Extract /\ q = r
      BY <1>2, <1>4, <1>5, <1>7, <2>1, <3>1
    <3> QED BY <1>3, <3>2, Kinds DEF Passed
  <2>2. CASE v # w
    BY <1>5, <2>2 DEF Extracting
  <2> QED BY <2>1, <2>2
<1>16. EvidenceInv'
  <2>1. \A q \in Run : (Passed(q))' <=> Passed(q)
    BY <1>1 DEF Passed
  <2> QED BY <1>1, <1>14, <1>15, <2>1, NoneReached DEF EvidenceInvs, EvidenceStays
<1>17. WorkInv' /\ ReportInv'
  <2>1. ASSUME NEW v \in Worker
        PROVE  /\ work'[v].step = "CLEARED" /\ work'[v].stage = Extract => evidence[work'[v].run] = 0
               /\ work'[v].step = "RAN" /\ work'[v].stage = Extract => evidence[work'[v].run] = 1
               /\ work'[v].step = "BUILT" => report # 0
               /\ work'[v].step \in {"READ", "RUNNING", "CLAIMED"} /\ work'[v].stage \in AFTER_REPORT
                    => state = "REPORT_READY"
    <3>1. CASE v = w
      BY <1>2, <1>3, <1>4, <1>5, <1>7, <3>1
    <3>2. CASE v # w
      BY <1>5, <3>2 DEF EvidenceInvs, WorkInv
    <3> QED BY <3>1, <3>2
  <2> QED BY <1>1, <2>1 DEF EvidenceInvs, WorkInv, ReportInv, EvidenceStays
<1> QED BY <1>11, <1>16, <1>17 DEF EvidenceInvs

StepsTo(w, x) == x \in WorkStep \ {"IDLE", "READ"} /\ work' = [work EXCEPT ![w].step = x]

(* A worker's step within its stage: what it means for the evidence.       *)
LEMMA StepsEvidence ==
  ASSUME Typed, EvidenceInvs, NEW w \in Worker, Busy(w),
         NEW x, StepsTo(w, x), x = "DONE" => work[w].stage # Extract, UNCHANGED <<jobs, starter>>,
         processing'.run = processing.run, processing'.completed = processing.completed,
         processing'.stage = processing.stage
           \/ (processing'.stage = work[w].stage /\ processing.run = work[w].run),
         work[w].stage = Extract => work[w].step \in {"READ", "RUNNING", "CLEARED", "RAN"},
         \A r \in Run : evidence'[r] # evidence[r] => Extracting(w, r)
  PROVE  JobsInv' /\ EvidenceInv'
<1>1. \A v \in Worker : /\ work'[v].step = IF v = w THEN x ELSE work[v].step
                        /\ work'[v].run = work[v].run /\ work'[v].stage = work[v].stage
  BY Kinds, Stepped DEF StepsTo
<1>2. \A v \in Worker : (Busy(v))' <=> Busy(v)
  BY <1>1 DEF Busy, StepsTo
<1>3. JobsInv'
  BY StepsJobs DEF EvidenceInvs, StepsTo
<1>4. work[w].stage \in Later => Reached(work[w].run)
  BY DEF Reached
<1>5. \A r \in Run : (Reached(r))' => Reached(r)
  <2> SUFFICES ASSUME NEW r \in Run, (Reached(r))' PROVE Reached(r)
    OBVIOUS
  <2>1. CASE processing'.run = r /\ (processing'.stage \in Later \/ Extract \in processing'.completed)
    BY <1>4, <2>1 DEF Reached
  <2>2. CASE \E s \in Later : jobs'[s][r].state # None
    BY <2>2 DEF Reached
  <2>3. CASE \E v \in Worker : /\ work'[v].run = r
                               /\ \/ (Busy(v))' /\ work'[v].stage \in Later
                                  \/ work'[v].step = "DONE" /\ work'[v].stage = Extract
    BY <1>1, <1>2, <2>3 DEF Reached
  <2> QED BY <2>1, <2>2, <2>3 DEF Reached
<1>6. \A v \in Worker, r \in Run : (Extracting(v, r))' => Extracting(v, r)
  BY <1>1 DEF Extracting, StepsTo
<1>7. \A r \in Run : (Passed(r))' <=> Passed(r)
  BY DEF Passed
<1>8. \A r \in Run : evidence'[r] # evidence[r] => ~Reached(r)
  BY DEF EvidenceInvs, EvidenceInv
<1>9. EvidenceInv'
  BY <1>5, <1>6, <1>7, <1>8, NoneReached DEF EvidenceInvs
<1> QED BY <1>3, <1>9

(* Nobody else works on the extraction of a worker's run.                  *)
LEMMA OneExtracts ==
  ASSUME Typed, JobsInv, NEW w \in Worker, NEW v \in Worker, Busy(v), Busy(w),
         work[v].stage = work[w].stage, work[v].run = work[w].run
  PROVE  v = w
BY DEF JobsInv

LEMMA MarkEvidence ==
  ASSUME Typed, EvidenceInvs, NEW w \in Worker, MarkRunning(w)
  PROVE  EvidenceInvs'
<1>1. /\ Busy(w) /\ work[w].step = "READ" /\ work' = [work EXCEPT ![w].step = "RUNNING"]
      /\ UNCHANGED <<jobs, starter>> /\ EvidenceStays
  BY DEF MarkRunning, Busy, EvidenceStays, results
<1>2. /\ processing'.run = processing.run /\ processing'.completed = processing.completed
      /\ \/ processing'.stage = processing.stage
         \/ processing'.stage = work[w].stage /\ processing.run = work[w].run
  <2>1. processing \in Processing
    BY Kinds
  <2> QED BY <2>1 DEF MarkRunning, Record, Processing
<1>3. JobsInv' /\ EvidenceInv'
  <2>1. StepsTo(w, "RUNNING")
    BY <1>1 DEF WorkStep, StepsTo
  <2>2. \A r \in Run : evidence'[r] # evidence[r] => Extracting(w, r)
    BY <1>1 DEF EvidenceStays
  <2>3. work[w].stage = Extract => work[w].step \in {"READ", "RUNNING", "CLEARED", "RAN"}
    BY <1>1
  <2> QED BY <1>1, <1>2, <2>1, <2>2, <2>3, StepsEvidence
<1>4. \A v \in Worker : /\ work'[v].step = IF v = w THEN "RUNNING" ELSE work[v].step
                        /\ work'[v].run = work[v].run /\ work'[v].stage = work[v].stage
  BY <1>1, Kinds, Stepped DEF WorkStep
<1>5. WorkInv' /\ ReportInv'
  BY <1>1, <1>4 DEF EvidenceInvs, WorkInv, ReportInv, EvidenceStays
<1> QED BY <1>3, <1>5 DEF EvidenceInvs

LEMMA ExtractEvidence ==
  ASSUME Typed, EvidenceInvs, NEW w \in Worker, ClearEvidence(w) \/ extractEvidence(w)
  PROVE  EvidenceInvs'
<1> DEFINE r == work[w].run
<1>1. /\ Busy(w) /\ work[w].stage = Extract /\ Extracting(w, r)
      /\ UNCHANGED <<processing, jobs, starter, state, score, report, pdf, deliveries>>
  BY DEF ClearEvidence, extractEvidence, At, Busy, Extract, Extracting
<1>2. r \in Run /\ evidence \in [Run -> Nat]
  BY <1>1, Kinds
<1>3. \/ /\ work' = [work EXCEPT ![w].step = "CLEARED"] /\ evidence' = [evidence EXCEPT ![r] = 0]
      \/ /\ work' = [work EXCEPT ![w].step = "RAN"] /\ evidence' = [evidence EXCEPT ![r] = 1]
  <2>1. extractEvidence(w) => evidence[r] = 0
    BY <1>1 DEF extractEvidence, At, EvidenceInvs, WorkInv
  <2>2. extractEvidence(w) => evidence' = [evidence EXCEPT ![r] = evidence[r] + 1]
    BY DEF extractEvidence
  <2>3. extractEvidence(w) => evidence' = [evidence EXCEPT ![r] = 1]
    BY <2>1, <2>2
  <2> QED BY <2>3 DEF ClearEvidence, extractEvidence, ClearedEvidence
<1> HIDE DEF r
<1>4. PICK x \in {"CLEARED", "RAN"} :
        /\ work' = [work EXCEPT ![w].step = x]
        /\ evidence'[r] = IF x = "CLEARED" THEN 0 ELSE 1
        /\ \A q \in Run : q # r => evidence'[q] = evidence[q]
  BY <1>2, <1>3
<1>5. x \in WorkStep
  BY DEF WorkStep
<1>6. \A v \in Worker : /\ work'[v].step = IF v = w THEN x ELSE work[v].step
                        /\ work'[v].run = work[v].run /\ work'[v].stage = work[v].stage
  BY <1>4, <1>5, Kinds, Stepped
<1>7. JobsInv' /\ EvidenceInv'
  <2>1. \A q \in Run : evidence'[q] # evidence[q] => Extracting(w, q)
    BY <1>1, <1>4
  <2>2. work[w].step \in {"READ", "RUNNING", "CLEARED", "RAN"}
    BY <1>1 DEF Extracting
  <2>3. StepsTo(w, x) /\ x # "DONE"
    BY <1>4, <1>5 DEF StepsTo
  <2>4. /\ processing'.run = processing.run /\ processing'.completed = processing.completed
        /\ processing'.stage = processing.stage
    BY <1>1
  <2>5. UNCHANGED <<jobs, starter>> /\ Busy(w)
    BY <1>1
  <2> QED BY <2>1, <2>2, <2>3, <2>4, <2>5, StepsEvidence
<1>8. ASSUME NEW v \in Worker
      PROVE  /\ work'[v].step = "CLEARED" /\ work'[v].stage = Extract => evidence'[work'[v].run] = 0
             /\ work'[v].step = "RAN" /\ work'[v].stage = Extract => evidence'[work'[v].run] = 1
             /\ work'[v].step = "BUILT" => report # 0
             /\ work'[v].step \in {"READ", "RUNNING", "CLAIMED"} /\ work'[v].stage \in AFTER_REPORT
                  => state = "REPORT_READY"
  <2>1. CASE v = w
    BY <1>4, <1>6, <2>1 DEF r
  <2>2. CASE v # w
    <3>1. Busy(v) /\ work[v].stage = Extract => work[v].run # r /\ work[v].run \in Run
      BY <1>1, <2>2, Kinds, OneExtracts DEF EvidenceInvs, r
    <3> QED BY <1>4, <1>6, <2>2, <3>1 DEF EvidenceInvs, WorkInv, Busy
  <2> QED BY <2>1, <2>2
<1>9. WorkInv' /\ ReportInv'
  BY <1>1, <1>8 DEF WorkInv, EvidenceInvs, ReportInv
<1> QED BY <1>7, <1>9 DEF EvidenceInvs

(* A step of a stage other than the extraction.                            *)
LEMMA StageSteps ==
  ASSUME Typed, EvidenceInvs, NEW w \in Worker, Busy(w), work[w].stage # Extract,
         NEW x, StepsTo(w, x), x # "RUNNING", UNCHANGED <<jobs, starter, evidence>>,
         processing'.run = processing.run, processing'.completed = processing.completed,
         processing'.stage = processing.stage,
         x = "BUILT" => report' # 0,
         x = "CLAIMED" => state' = "REPORT_READY",
         report # 0 => report' # 0, state = "REPORT_READY" => state' = "REPORT_READY",
         ReportInv'
  PROVE  EvidenceInvs'
<1>1. \A v \in Worker : /\ work'[v].step = IF v = w THEN x ELSE work[v].step
                        /\ work'[v].run = work[v].run /\ work'[v].stage = work[v].stage
  BY Kinds, Stepped DEF StepsTo
<1>2. \A r \in Run : evidence'[r] # evidence[r] => Extracting(w, r)
  OBVIOUS
<1>3. JobsInv' /\ EvidenceInv'
  BY <1>2, StepsEvidence
<1>4. WorkInv'
  BY <1>1 DEF EvidenceInvs, WorkInv, StepsTo
<1> QED BY <1>3, <1>4 DEF EvidenceInvs

LEMMA StageEvidence ==
  ASSUME Typed, EvidenceInvs, NEW w \in Worker,
         \/ scoreDimensions(w) \/ aggregateScores(w) \/ recommendations(w) \/ WriteReport(w)
         \/ buildReport(w) \/ renderPdf(w) \/ campaignInterviewCompleted(w) \/ enqueueOrgEvent(w)
         \/ OtherStage(w)
  PROVE  EvidenceInvs'
<1>1. /\ Busy(w) /\ work[w].stage # Extract /\ UNCHANGED <<jobs, starter, evidence>>
      /\ work[w].run # 0
  <2>1. Busy(w) /\ work[w].stage # Extract /\ UNCHANGED <<jobs, starter, evidence>>
    BY DEF scoreDimensions, aggregateScores, recommendations, WriteReport, buildReport, renderPdf,
           campaignInterviewCompleted, enqueueOrgEvent, OtherStage, At, Busy, Extract, results
  <2> QED BY <2>1, Kinds
<1>2. "RAN" # "RUNNING" /\ "BUILT" # "RUNNING" /\ "CLAIMED" # "RUNNING"
      /\ {"RAN", "BUILT", "CLAIMED"} \subseteq WorkStep \ {"IDLE", "READ"}
  BY DEF WorkStep
<1>3. CASE scoreDimensions(w) \/ recommendations(w) \/ OtherStage(w)
  <2>1. StepsTo(w, "RAN") /\ EvidenceStays
    BY <1>2, <1>3
    DEF scoreDimensions, recommendations, OtherStage, StepsTo, EvidenceStays, results
  <2>2. /\ processing'.run = processing.run /\ processing'.completed = processing.completed
        /\ processing'.stage = processing.stage
    <3>1. processing \in Processing
      BY Kinds
    <3> QED BY <1>3, <3>1 DEF scoreDimensions, recommendations, OtherStage, Processing
  <2>3. ReportInv'
    BY <2>1 DEF EvidenceInvs, ReportInv, EvidenceStays
  <2> QED BY <1>1, <2>1, <2>2, <2>3, StageSteps DEF EvidenceStays
<1>4. CASE aggregateScores(w)
  <2>1. /\ StepsTo(w, "RAN") /\ score' = (IF score = 0 THEN work[w].run ELSE score)
        /\ UNCHANGED <<processing, report, state, pdf, deliveries>>
    BY <1>2, <1>4 DEF aggregateScores, StepsTo
  <2>2. ReportInv'
    BY <1>1, <2>1 DEF EvidenceInvs, ReportInv
  <2> QED BY <1>1, <2>1, <2>2, StageSteps
<1>5. CASE WriteReport(w)
  <2>1. /\ StepsTo(w, "BUILT") /\ report' = (IF report = 0 THEN work[w].run ELSE report)
        /\ UNCHANGED <<processing, score, state, pdf, deliveries>> /\ (report # 0 \/ score # 0)
    BY <1>2, <1>5 DEF WriteReport, CanBuild, StepsTo
  <2>2. ReportInv' /\ report' # 0
    BY <1>1, <2>1 DEF EvidenceInvs, ReportInv
  <2> QED BY <1>1, <2>1, <2>2, StageSteps
<1>6. CASE buildReport(w)
  <2>1. /\ StepsTo(w, "RAN") /\ (state' = state \/ state' = "REPORT_READY")
        /\ UNCHANGED <<processing, score, report, pdf, deliveries>> /\ work[w].step = "BUILT"
    BY <1>2, <1>6 DEF buildReport, At, StepsTo, results
  <2>2. ReportInv'
    BY <2>1 DEF EvidenceInvs, WorkInv, ReportInv
  <2> QED BY <1>1, <2>1, <2>2, StageSteps
<1>7. CASE renderPdf(w)
  <2>1. /\ StepsTo(w, "RAN") /\ report # 0
        /\ UNCHANGED <<processing, score, report, state, deliveries>>
    BY <1>2, <1>7 DEF renderPdf, StepsTo
  <2>2. ReportInv'
    BY <2>1 DEF EvidenceInvs, ReportInv
  <2> QED BY <1>1, <2>1, <2>2, StageSteps
<1>8. CASE campaignInterviewCompleted(w)
  <2>1. state = "REPORT_READY" /\ EvidenceStays /\ UNCHANGED processing
    BY <1>8
    DEF campaignInterviewCompleted, At, AFTER_REPORT, EvidenceInvs, WorkInv, EvidenceStays
  <2>2. StepsTo(w, "CLAIMED") \/ StepsTo(w, "RAN")
    BY <1>2, <1>8 DEF campaignInterviewCompleted, StepsTo
  <2>3. ReportInv'
    BY <2>1 DEF EvidenceInvs, ReportInv, EvidenceStays
  <2>4. CASE StepsTo(w, "CLAIMED")
    BY <1>1, <2>1, <2>3, <2>4, StageSteps DEF EvidenceStays
  <2>5. CASE StepsTo(w, "RAN")
    BY <1>1, <2>1, <2>3, <2>5, StageSteps DEF EvidenceStays
  <2> QED BY <2>2, <2>4, <2>5
<1>9. CASE enqueueOrgEvent(w)
  <2>1. /\ StepsTo(w, "RAN") /\ state = "REPORT_READY"
        /\ UNCHANGED <<processing, score, report, state, pdf>>
    BY <1>2, <1>9 DEF enqueueOrgEvent, At, AFTER_REPORT, EvidenceInvs, WorkInv, StepsTo
  <2>2. ReportInv'
    BY <2>1 DEF EvidenceInvs, ReportInv
  <2> QED BY <1>1, <2>1, <2>2, StageSteps
<1> QED BY <1>3, <1>4, <1>5, <1>6, <1>7, <1>8, <1>9

(* The stage after the extraction, or after a later one, is a later one.   *)
LEMMA ChainGoesOn ==
  /\ Extract \in Stage /\ Extract \notin Later
  /\ \A s \in Stage : nextStage(s) \in Later => s = Extract \/ s \in Later
BY Chain, StagesAre DEF Extract, Later

LEMMA FinishEvidence ==
  ASSUME Typed, EvidenceInvs, NEW w \in Worker, Finish(w)
  PROVE  EvidenceInvs'
<1> DEFINE r == work[w].run
           s == work[w].stage
<1>1. /\ Busy(w) /\ work[w].step = "RAN" /\ StepsTo(w, "DONE")
      /\ UNCHANGED <<jobs, starter>> /\ EvidenceStays
  BY DEF Finish, Busy, StepsTo, WorkStep, EvidenceStays, results
<1>2. r \in Run /\ s \in Stage /\ r <= processing.run
  BY <1>1, Kinds DEF EvidenceInvs, JobsInv
<1>3. /\ processing'.run = processing.run
      /\ processing.run # r => processing' = processing
      /\ processing.run = r => /\ processing'.completed = processing.completed \cup {s}
                               /\ processing'.stage = nextStage(s)
  <2> DEFINE next == nextStage(s)
             p == [processing EXCEPT !.completed = @ \cup {s}, !.stage = next,
                                     !.status = IF next = None THEN "DONE" ELSE "QUEUED"]
  <2>1. Record(w, p)
    BY DEF Finish
  <2>2. p.run = processing.run /\ p.completed = processing.completed \cup {s} /\ p.stage = next
    <3>1. processing \in Processing
      BY Kinds
    <3> HIDE DEF next, s
    <3> QED BY <3>1 DEF Processing
  <2> HIDE DEF p
  <2> QED BY <2>1, <2>2 DEF Record
<1> HIDE DEF r, s
<1>4. \A v \in Worker : /\ work'[v].step = IF v = w THEN "DONE" ELSE work[v].step
                        /\ work'[v].run = work[v].run /\ work'[v].stage = work[v].stage
  BY <1>1, Kinds, Stepped DEF StepsTo
<1>5. \A v \in Worker : (Busy(v))' <=> Busy(v)
  BY <1>1, <1>4 DEF Busy
<1>6. JobsInv'
  BY <1>1, <1>3, StepsJobs DEF EvidenceInvs, StepsTo
<1>7. \A v \in Worker, q \in Run : (Extracting(v, q))' => Extracting(v, q) /\ v # w
  BY <1>4 DEF Extracting
<1>8. \A q \in Run : Passed(q) => (Passed(q))'
  BY <1>3 DEF Passed
<1>9. \A q \in Run : (Reached(q))' => Reached(q) \/ (q = r /\ s = Extract)
  <2> SUFFICES ASSUME NEW q \in Run, (Reached(q))' PROVE Reached(q) \/ (q = r /\ s = Extract)
    OBVIOUS
  <2>1. CASE \E t \in Later : jobs'[t][q].state # None
    BY <1>1, <2>1 DEF Reached
  <2>2. ASSUME NEW v \in Worker, work'[v].run = q,
               \/ (Busy(v))' /\ work'[v].stage \in Later
               \/ work'[v].step = "DONE" /\ work'[v].stage = Extract
        PROVE  Reached(q) \/ (q = r /\ s = Extract)
    BY <1>4, <1>5, <2>2 DEF Reached, r, s
  <2>3. CASE processing'.run = q /\ (processing'.stage \in Later \/ Extract \in processing'.completed)
    <3>1. CASE q # r
      BY <1>3, <2>3, <3>1 DEF Reached
    <3>2. CASE q = r
      <4>1. s \in Later => Reached(q)
        BY <1>1, <3>2 DEF Reached, r, s
      <4> QED BY <1>2, <1>3, <2>3, <3>2, <4>1, ChainGoesOn DEF Reached
    <3> QED BY <3>1, <3>2
  <2> QED BY <2>1, <2>2, <2>3 DEF Reached
<1>10. ASSUME NEW q \in Run, q = r, s = Extract
       PROVE  /\ evidence[q] = 1 /\ (Passed(q))'
              /\ \A v \in Worker : ~(Extracting(v, q))'
  <2>1. evidence[q] = 1
    BY <1>1, <1>10 DEF EvidenceInvs, WorkInv, r, s
  <2>2. (Passed(q))'
    <3>1. q \in Nat /\ processing.run \in Nat /\ q <= processing.run
      BY <1>2, <1>10, Kinds
    <3>2. CASE processing.run > q
      BY <1>3, <3>2 DEF Passed
    <3>3. CASE processing.run = q
      <4>1. processing'.completed = processing.completed \cup {s}
        BY <1>3, <1>10, <3>3
      <4> QED BY <1>3, <1>10, <3>3, <4>1 DEF Passed
    <3> QED BY <3>1, <3>2, <3>3
  <2>3. \A v \in Worker : Extracting(v, q) => v = w
    BY <1>1, <1>10, OneExtracts DEF EvidenceInvs, Extracting, Busy, r, s
  <2> QED BY <1>7, <2>1, <2>2, <2>3
<1>11. EvidenceInv'
  BY <1>1, <1>7, <1>8, <1>9, <1>10 DEF EvidenceInvs, EvidenceInv, EvidenceStays
<1>12. WorkInv' /\ ReportInv'
  BY <1>1, <1>4 DEF EvidenceInvs, WorkInv, ReportInv, EvidenceStays
<1> QED BY <1>6, <1>11, <1>12 DEF EvidenceInvs

(* A worker leaves its job, and processing keeps its place.                *)
LeavesAt(w, more) ==
  /\ Busy(w) /\ Idle(w) /\ UNCHANGED starter /\ EvidenceStays
  /\ processing'.run = processing.run /\ processing'.completed = processing.completed
  /\ processing'.stage = processing.stage
  /\ \A s \in Stage, r \in Run :
       /\ ~(s = work[w].stage /\ r = work[w].run) /\ jobs[s][r].state = "ACTIVE"
            => jobs'[s][r].state = "ACTIVE"
       /\ jobs'[s][r].state # None
            => \/ jobs[s][r].state # None
               \/ s = work[w].stage /\ r = work[w].run
               \/ more /\ s = nextStage(work[w].stage) /\ r = work[w].run

LEMMA LeftEvidence ==
  ASSUME Typed, EvidenceInvs, NEW w \in Worker, NEW more, LeavesAt(w, more),
         more => work[w].step = "DONE"
  PROVE  EvidenceInvs'
<1>1. /\ Busy(w) /\ Idle(w) /\ UNCHANGED starter /\ EvidenceStays
      /\ processing'.run = processing.run /\ processing'.completed = processing.completed
      /\ processing'.stage = processing.stage
  BY DEF LeavesAt
<1>2. work[w].run \in Run /\ work[w].stage \in Stage /\ work[w].run <= processing.run
  BY <1>1, Kinds DEF EvidenceInvs, JobsInv
<1>3. JobsInv'
  <2>1. \A s \in Stage, r \in Run : jobs'[s][r].state # None => r <= processing.run
    BY <1>2 DEF LeavesAt, EvidenceInvs, JobsInv
  <2>2. \A s \in Stage, r \in Run :
          ~(s = work[w].stage /\ r = work[w].run) /\ jobs[s][r].state = "ACTIVE"
            => jobs'[s][r].state = "ACTIVE"
    BY DEF LeavesAt
  <2> QED BY <1>1, <2>1, <2>2, LeavesJobs DEF EvidenceInvs
<1>4. /\ \A v \in Worker : v # w => work'[v] = work[v]
      /\ work'[w].step = "IDLE"
  BY <1>1, Kinds, Idled
<1>5. work[w].stage \in Later => Reached(work[w].run)
  BY <1>1 DEF Reached
<1>6. more /\ nextStage(work[w].stage) \in Later => Reached(work[w].run)
  BY <1>2, <1>5, ChainGoesOn DEF Reached
<1>7. \A q \in Run : (Reached(q))' => Reached(q)
  <2> SUFFICES ASSUME NEW q \in Run, (Reached(q))' PROVE Reached(q)
    OBVIOUS
  <2>1. CASE \E s \in Later : jobs'[s][q].state # None
    <3>1. PICK s \in Later : jobs'[s][q].state # None
      BY <2>1
    <3>2. s \in Stage
      BY Kinds
    <3>3. \/ jobs[s][q].state # None
          \/ s = work[w].stage /\ q = work[w].run
          \/ more /\ s = nextStage(work[w].stage) /\ q = work[w].run
      BY <3>1, <3>2 DEF LeavesAt
    <3> QED BY <1>5, <1>6, <3>3 DEF Reached
  <2>2. ASSUME NEW v \in Worker, work'[v].run = q,
               \/ (Busy(v))' /\ work'[v].stage \in Later
               \/ work'[v].step = "DONE" /\ work'[v].stage = Extract
        PROVE  Reached(q)
    BY <1>4, <2>2 DEF Reached, Busy
  <2>3. CASE processing'.run = q /\ (processing'.stage \in Later \/ Extract \in processing'.completed)
    BY <1>1, <2>3 DEF Reached
  <2> QED BY <2>1, <2>2, <2>3 DEF Reached
<1>8. \A q \in Run : Passed(q) => (Passed(q))'
  BY <1>1 DEF Passed
<1>9. EvidenceInv' /\ WorkInv' /\ ReportInv'
  BY <1>1, <1>7, <1>8, LeavesEvidence
<1> QED BY <1>3, <1>9 DEF EvidenceInvs

LEMMA LeaveEvidence ==
  ASSUME Typed, EvidenceInvs, NEW w \in Worker,
         StageFails(w) \/ Continue(w) \/ DiesAfterContinue(w) \/ WorkerDies(w)
  PROVE  EvidenceInvs'
<1>1. Busy(w) /\ Idle(w) /\ UNCHANGED starter /\ EvidenceStays
  BY DEF StageFails, Continue, DiesAfterContinue, WorkerDies, Busy, EvidenceStays, results
<1>2. /\ work[w].run \in Run /\ work[w].stage \in Stage
      /\ nextStage(work[w].stage) \in Stage \cup {None}
      /\ jobs \in [Stage -> [Run -> Job]]
  BY <1>1, Kinds, NextIsAStage
<1>3. /\ WithNext(w) \in [Stage -> [Run -> Job]]
      /\ \A s \in Stage, r \in Run :
           /\ jobs[s][r].state = "ACTIVE" => WithNext(w)[s][r].state = "ACTIVE"
           /\ WithNext(w)[s][r].state # None
                => jobs[s][r].state # None \/ (s = nextStage(work[w].stage) /\ r = work[w].run)
  BY <1>2, EnsuredJobs DEF WithNext
<1>4. CASE StageFails(w)
  <2> DEFINE job == jobs[work[w].stage][work[w].run]
             final == job.made + 1 >= Attempts
             p == [processing EXCEPT !.status = IF final THEN "FAILED" ELSE "QUEUED"]
             new == [state |-> IF final THEN "FAILED" ELSE "WAITING",
                     made |-> IF job.made < Attempts THEN job.made + 1 ELSE job.made]
  <2>1. Record(w, p) /\ jobs' = [jobs EXCEPT ![work[w].stage][work[w].run] = new]
    BY <1>4 DEF StageFails, EndJob
  <2>2. p.run = processing.run /\ p.completed = processing.completed /\ p.stage = processing.stage
    <3>1. processing \in Processing
      BY Kinds
    <3> HIDE DEF final
    <3> QED BY <3>1 DEF Processing
  <2> HIDE DEF p, new
  <2>3. /\ processing'.run = processing.run /\ processing'.completed = processing.completed
        /\ processing'.stage = processing.stage
    BY <2>1, <2>2 DEF Record
  <2>4. \A s \in Stage, r \in Run :
          ~(s = work[w].stage /\ r = work[w].run) => jobs'[s][r] = jobs[s][r]
    BY <1>2, <2>1
  <2>5. LeavesAt(w, FALSE)
    BY <1>1, <2>3, <2>4 DEF LeavesAt
  <2> QED BY <2>5, LeftEvidence
<1>5. CASE Continue(w)
  <2> DEFINE done == [state |-> "COMPLETED", made |-> 0]
  <2>1. /\ jobs' = [WithNext(w) EXCEPT ![work[w].stage][work[w].run] = done]
        /\ work[w].step = "DONE" /\ UNCHANGED processing
    BY <1>5 DEF Continue
  <2> HIDE DEF done
  <2>2. \A s \in Stage, r \in Run :
          ~(s = work[w].stage /\ r = work[w].run) => jobs'[s][r] = WithNext(w)[s][r]
    BY <1>3, <2>1
  <2>3. LeavesAt(w, TRUE)
    BY <1>1, <1>3, <2>1, <2>2 DEF LeavesAt
  <2> QED BY <2>1, <2>3, LeftEvidence
<1>6. CASE DiesAfterContinue(w)
  <2>1. jobs' = WithNext(w) /\ work[w].step = "DONE" /\ UNCHANGED processing
    BY <1>6 DEF DiesAfterContinue
  <2>2. LeavesAt(w, TRUE)
    BY <1>1, <1>3, <2>1 DEF LeavesAt
  <2> QED BY <2>1, <2>2, LeftEvidence
<1>7. CASE WorkerDies(w)
  <2>1. LeavesAt(w, FALSE)
    BY <1>1, <1>7 DEF WorkerDies, LeavesAt
  <2> QED BY <2>1, LeftEvidence
<1> QED BY <1>4, <1>5, <1>6, <1>7

(* Steps that touch neither the evidence nor the workers.                  *)
LEMMA NothingForEvidence ==
  ASSUME EvidenceInvs, UNCHANGED <<jobs, work, processing, starter>>, EvidenceStays
  PROVE  EvidenceInvs'
<1>1. JobsInv'
  BY DEF EvidenceInvs, JobsInv, Busy
<1>2. EvidenceInv'
  BY DEF EvidenceInvs, EvidenceInv, EvidenceStays, Reached, Passed, Extracting, Busy
<1> QED BY <1>1, <1>2, WorkStays DEF EvidenceInvs

LEMMA StaysEvidence ==
  ASSUME Typed, EvidenceInvs, [Next]_vars
  PROVE  EvidenceInvs'
<1>1. CASE UNCHANGED vars
  BY <1>1, NothingForEvidence DEF vars, results, EvidenceStays
<1>2. CASE beginEvaluation \/ reprocess \/ startEvaluation \/ StarterDies \/ sweepEvaluations
  BY <1>2, BeginsEvidence, StartsEvidence
<1>3. CASE \E s \in Stage, r \in Run : LoseJob(s, r) \/ Stalled(s, r)
  BY <1>3, QueueEvidence
<1>4. CASE \E w \in Worker :
             \/ \E s \in Stage, r \in Run : Take(w, s, r)
             \/ Handle(w) \/ StageFails(w) \/ WorkerDies(w) \/ DiesAfterContinue(w)
  BY <1>4, TakeEvidence, MarkEvidence, ExtractEvidence, StageEvidence, FinishEvidence,
     LeaveEvidence DEF Handle
<1>5. CASE LeaseRunsOut
  BY <1>5, NothingForEvidence DEF LeaseRunsOut, results, EvidenceStays
<1>6. CASE \E d \in Dispatcher :
             claimDueDeliveries(d) \/ deliverOne(d) \/ recordDeliveryAttempt(d) \/ DispatcherDies(d)
  BY <1>6, NothingForEvidence
  DEF claimDueDeliveries, deliverOne, recordDeliveryAttempt, DispatcherDies, results, EvidenceStays
<1> QED
  BY <1>1, <1>2, <1>3, <1>4, <1>5, <1>6 DEF Next

(* Whatever was retried, lost or started again, the scores of a run are    *)
(* made of one copy of its evidence: clearing and inserting are two steps  *)
(* of the extraction (pipeline.ts, extractEvidence), and no stage after it *)
(* begins while a worker is between them.  A report rests on a score, and  *)
(* neither REPORT_READY, nor the PDF, nor the organisation's event comes   *)
(* before the report.                                                      *)
THEOREM EvidenceOnceAlways == Spec => []EvidenceOnce
<1>1. Init => EvidenceInvs
  BY InitEvidence
<1>2. Typed /\ EvidenceInvs /\ [Next]_vars => EvidenceInvs'
  BY StaysEvidence
<1>3. Typed /\ EvidenceInvs => EvidenceOnce
  <2> SUFFICES ASSUME Typed, EvidenceInvs PROVE EvidenceOnce
    OBVIOUS
  <2>1. ASSUME NEW w \in Worker, work[w].step = "RUNNING",
               work[w].stage \in {"SCORE_DIMENSIONS", "AGGREGATE"}
        PROVE  evidence[work[w].run] = 1
    <3>1. Busy(w) /\ work[w].stage \in Later
      BY <2>1, StagesAre DEF Busy, Later, Extract
    <3>2. work[w].run \in Run /\ Reached(work[w].run)
      BY <3>1, Kinds DEF Reached
    <3> QED BY <3>2 DEF EvidenceInvs, EvidenceInv
  <2> QED BY <2>1 DEF EvidenceOnce, EvidenceInvs, ReportInv
<1> QED
  BY <1>1, <1>2, <1>3, AlwaysTyped, PTL DEF Spec
=============================================================================
