--------------------------- MODULE RecordingProofs ---------------------------
(***************************************************************************)
(* Theorems about Recording, for any number of segments, recorders,        *)
(* requests, builders, attempts and faults: the types, then that nothing   *)
(* is lost (Inv), that nothing stays behind a delete (MediaInv), and that  *)
(* a READY file joins what is on the record (FileInv).                     *)
(***************************************************************************)
EXTENDS Recording, WellFoundedInduction, TLAPS

(* Sets of numbers have a smallest element, and bounded ones a greatest.   *)
LEMMA Smallest ==
  ASSUME NEW S \in SUBSET Nat, S # {}
  PROVE  \E x \in S : \A y \in S : x <= y
<1> DEFINE R == OpToRel(<, Nat)
<1>1. IsWellFoundedOn(R, Nat)
  BY NatLessThanWellFounded
<1>2. \A x, y \in Nat : <<y, x>> \in R <=> y < x
  BY DEF OpToRel
<1> HIDE DEF R
<1>3. PICK x \in S : \A y \in S : ~ (<<y, x>> \in R)
  BY <1>1, WFMin
<1>4. \A y \in S : x <= y
  <2> TAKE y \in S
  <2>1. x \in Nat /\ y \in Nat
    OBVIOUS
  <2>2. ~ (y < x)
    BY <1>2, <1>3, <2>1
  <2> QED BY <2>1, <2>2
<1> QED BY <1>4

LEMMA MinIn ==
  ASSUME NEW S \in SUBSET Nat, S # {}
  PROVE  Min(S) \in S
BY Smallest DEF Min

LEMMA MaxIn ==
  ASSUME NEW n \in Nat, NEW S \in SUBSET (0..n), S # {}
  PROVE  Max(S) \in S
<1> DEFINE T == {n - x : x \in S}
<1>1. T \in SUBSET Nat /\ T # {}
  <2>1. \A x \in S : n - x \in Nat
    OBVIOUS
  <2>2. PICK x \in S : TRUE
    OBVIOUS
  <2>3. n - x \in T
    OBVIOUS
  <2> QED BY <2>1, <2>3
<1>2. PICK t \in T : \A u \in T : t <= u
  BY <1>1, Smallest
<1>3. PICK x \in S : t = n - x
  BY <1>2
<1>4. \A y \in S : x >= y
  <2> TAKE y \in S
  <2>1. n - y \in T
    OBVIOUS
  <2>2. t <= n - y
    BY <1>2, <2>1
  <2>3. n \in Int /\ x \in Int /\ y \in Int
    OBVIOUS
  <2> HIDE DEF T
  <2> QED BY <1>3, <2>2, <2>3
<1> QED BY <1>4 DEF Max

-------------------------------------------------------------------------------
(* Types                                                                   *)

LEMMA InitTyped == Init => TypeOK
BY RecordingAssumption
DEF Init, TypeOK, QueueRecord, AssetRecord, FileRecord, DeletionRecord, HandlerRecord, BuildRecord, Idle, NoBuild, Unknown, None, Count, Segment, Handler, Key

LEMMA Goings ==
  ASSUME TypeOK, NEW h \in Handler, NEW new \in HandlerRecord, Goes(h, new)
  PROVE  handler' \in [Handler -> HandlerRecord]
BY DEF TypeOK, Goes

LEMMA HeardTyped ==
  ASSUME TypeOK, NEW op, NEW idx, NEW outcome \in {"done", "drop", "stop", "retry"},
         idx \in Segment
  PROVE  Heard(outcome, op, idx) \in QueueRecord
BY DEF TypeOK, Heard, QueueRecord, None

LEMMA AnswersTyped ==
  ASSUME TypeOK, NEW h \in Handler, NEW outcome \in {"done", "drop", "stop", "retry"},
         Answers(h, outcome)
  PROVE  handler' \in [Handler -> HandlerRecord] /\ queue' \in QueueRecord
<1>1. Idle \in HandlerRecord
  BY RecordingAssumption DEF Idle, HandlerRecord, Count, Unknown, Segment, None
<1>2. handler[h].idx \in Segment
  BY DEF TypeOK, HandlerRecord
<1> QED
  BY <1>1, <1>2, Goings, HeardTyped DEF Answers, TypeOK

LEMMA FaultTyped ==
  ASSUME TypeOK, NEW k, Fault(k)
  PROVE  faults' \in [count: 0..MaxFaults, uploadDied: BOOLEAN]
BY RecordingAssumption DEF TypeOK, Fault

(* What a step may set a handler to.                                       *)
LEMMA StepTyped ==
  ASSUME TypeOK, NEW h \in Handler,
         NEW step \in {"IDLE", "UPLOAD", "STORE", "ATTACH", "UNDO", "NOTE", "FINALIZE", "LATE",
                       "MANIFEST", "UPDATE", "DELETE"},
         Step(h, step)
  PROVE  handler' \in [Handler -> HandlerRecord]
<1>1. handler[h] \in HandlerRecord
  BY DEF TypeOK
<1>2. [handler[h] EXCEPT !.step = step] \in HandlerRecord
  BY <1>1 DEF HandlerRecord
<1> QED
  BY <1>2, Goings DEF Step

LEMMA IdleTyped == Idle \in HandlerRecord
BY RecordingAssumption DEF Idle, HandlerRecord, Count, Unknown, Segment, None

LEMMA BrowserTyped ==
  ASSUME TypeOK, Record \/ finish \/ ConnectionDrops \/ TabCloses \/ Ends
  PROVE  TypeOK'
<1>1. CASE Record
  <2>1. queue.recorded \in Segment /\ queue.recorded + 1 \in 0..Segments
    BY <1>1, RecordingAssumption DEF Record, TypeOK, QueueRecord, Segment
  <2>2. queue' \in QueueRecord
    BY <1>1, <2>1 DEF Record, TypeOK, QueueRecord
  <2> QED
    BY <1>1, <2>2 DEF Record, TypeOK
<1>2. CASE finish
  BY <1>2 DEF finish, TypeOK, QueueRecord
<1>3. CASE ConnectionDrops
  BY <1>3, FaultTyped DEF ConnectionDrops, TypeOK, QueueRecord
<1>4. CASE TabCloses
  BY <1>4 DEF TabCloses, TypeOK, QueueRecord
<1>5. CASE Ends
  BY <1>5 DEF Ends, TypeOK
<1> QED
  BY <1>1, <1>2, <1>3, <1>4, <1>5

LEMMA PumpTyped ==
  ASSUME TypeOK, NEW h \in Handler, pump(h)
  PROVE  TypeOK'
<1>1. queue' \in QueueRecord
  BY DEF pump, TypeOK, QueueRecord
<1>2. queue.pending # {} => Min(queue.pending) \in Segment
  <2>1. queue.pending \in SUBSET Nat /\ queue.pending \subseteq Segment
    BY DEF TypeOK, QueueRecord, Segment
  <2> QED BY <2>1, MinIn
<1>3. queue.recorded \in Count
  BY DEF TypeOK, QueueRecord, Count
<1>4. handler' \in [Handler -> HandlerRecord]
  <2>1. CASE queue.pending # {}
    <3> DEFINE new == [Idle EXCEPT !.step = "UPLOAD", !.op = "UPLOAD", !.idx = Min(queue.pending)]
    <3>1. new \in HandlerRecord
      BY <1>2, <2>1, IdleTyped DEF HandlerRecord
    <3>2. Goes(h, new)
      BY <2>1 DEF pump
    <3> QED BY <3>1, <3>2, Goings
  <2>2. CASE queue.pending = {}
    <3> DEFINE new == [Idle EXCEPT !.step = "FINALIZE", !.op = "FINALIZE", !.count = queue.recorded]
    <3>1. new \in HandlerRecord
      BY <1>3, IdleTyped DEF HandlerRecord
    <3>2. Goes(h, new)
      BY <2>2 DEF pump
    <3> QED BY <3>1, <3>2, Goings
  <2> QED BY <2>1, <2>2
<1> QED
  BY <1>1, <1>4 DEF pump, TypeOK

LEMMA UploadTyped ==
  ASSUME TypeOK, NEW h \in Handler,
         uploadSegment(h) \/ StoreSegment(h) \/ Attach(h) \/ UndoUpload(h)
           \/ noteOrphanedMediaKey(h)
  PROVE  TypeOK'
<1>1. Upserted \in AssetRecord
  BY DEF Upserted, TypeOK, AssetRecord
<1>2. handler[h].idx \in Segment /\ Segment \subseteq Key
  BY RecordingAssumption DEF TypeOK, HandlerRecord, Segment, Key
<1>3. CASE uploadSegment(h)
  <2>1. handler' \in [Handler -> HandlerRecord] /\ queue' \in QueueRecord
    BY <1>3, AnswersTyped, StepTyped DEF uploadSegment, TypeOK
  <2> QED
    BY <1>1, <1>3, <2>1 DEF uploadSegment, TypeOK
<1>4. CASE StoreSegment(h)
  <2>1. handler' \in [Handler -> HandlerRecord] /\ queue' \in QueueRecord
    BY <1>4, AnswersTyped, StepTyped DEF StoreSegment, TypeOK
  <2>2. faults' \in [count: 0..MaxFaults, uploadDied: BOOLEAN]
    BY <1>4, FaultTyped DEF StoreSegment, TypeOK
  <2>3. objects' \subseteq Key
    BY <1>2, <1>4 DEF StoreSegment, TypeOK, SegmentKey
  <2> QED
    BY <1>4, <2>1, <2>2, <2>3 DEF StoreSegment, TypeOK
<1>5. CASE Attach(h)
  <2>1. handler' \in [Handler -> HandlerRecord] /\ queue' \in QueueRecord
    BY <1>5, AnswersTyped, StepTyped DEF Attach, TypeOK
  <2>2. asset' \in AssetRecord
    BY <1>2, <1>5 DEF Attach, TypeOK, AssetRecord
  <2> QED
    BY <1>5, <2>1, <2>2 DEF Attach, TypeOK
<1>6. CASE UndoUpload(h)
  <2>1. handler' \in [Handler -> HandlerRecord] /\ queue' \in QueueRecord
    BY <1>6, AnswersTyped, StepTyped DEF UndoUpload, TypeOK
  <2>2. faults' \in [count: 0..MaxFaults, uploadDied: BOOLEAN]
    BY <1>6, FaultTyped DEF UndoUpload, TypeOK
  <2> QED
    BY <1>6, <2>1, <2>2 DEF UndoUpload, TypeOK
<1>7. CASE noteOrphanedMediaKey(h)
  <2>1. queue' \in QueueRecord
    BY <1>2, <1>7, HeardTyped DEF noteOrphanedMediaKey, TypeOK
  <2>2. handler' \in [Handler -> HandlerRecord]
    <3> DEFINE woken == [handler EXCEPT ![h] = Idle]
    <3>1. woken \in [Handler -> HandlerRecord] /\ "sweep" \in Handler
      BY IdleTyped DEF TypeOK, Handler
    <3>2. handler' = [woken EXCEPT !["sweep"].fresh = FALSE]
      BY <1>7 DEF noteOrphanedMediaKey
    <3> HIDE DEF woken
    <3>3. [woken["sweep"] EXCEPT !.fresh = FALSE] \in HandlerRecord
      BY <3>1 DEF HandlerRecord
    <3> QED
      BY <3>1, <3>2, <3>3
  <2>3. deletion' \in DeletionRecord
    BY <1>2, <1>7 DEF noteOrphanedMediaKey, TypeOK, DeletionRecord, SegmentKey
  <2> QED
    BY <1>7, <2>1, <2>2, <2>3 DEF noteOrphanedMediaKey, TypeOK
<1> QED
  BY <1>3, <1>4, <1>5, <1>6, <1>7

LEMMA PendingTyped ==
  ASSUME TypeOK
  PROVE  Pending \in FileRecord /\ Outdated \in [Worker -> BuildRecord]
BY DEF TypeOK, Pending, FileRecord, Outdated, BuildRecord

LEMMA FinalizeTyped ==
  ASSUME TypeOK, NEW h \in Handler,
         finalize(h) \/ FinalizeReads(h) \/ WriteManifest(h) \/ FinalizeUpdates(h)
  PROVE  TypeOK'
<1>1. handler[h] \in HandlerRecord
  BY DEF TypeOK
<1>2. CASE finalize(h)
  <2>1. handler' \in [Handler -> HandlerRecord]
    BY <1>2, StepTyped DEF finalize
  <2>2. asset' \in AssetRecord
    BY <1>2 DEF finalize, Upserted, TypeOK, AssetRecord
  <2> QED
    BY <1>2, <2>1, <2>2 DEF finalize, TypeOK
<1>3. CASE FinalizeReads(h)
  <2>1. CASE deletion.status # None
    BY <1>3, <2>1, AnswersTyped DEF FinalizeReads, TypeOK
  <2>2. CASE deletion.status = None
    <3> DEFINE count == IF handler[h].count # Unknown THEN handler[h].count
                        ELSE IF asset.expected # Unknown THEN asset.expected
                        ELSE IF asset.segments = {} THEN 0
                        ELSE Max(asset.segments) + 1
               new == [handler[h] EXCEPT !.step = "MANIFEST", !.read = asset.segments,
                                         !.manifest = asset.manifest, !.count = count]
    <3>1. asset.segments # {} => Max(asset.segments) + 1 \in 0..Segments
      <4>1. Segments - 1 \in Nat /\ asset.segments \in SUBSET (0..(Segments - 1))
        BY RecordingAssumption DEF TypeOK, AssetRecord, Segment
      <4>2. asset.segments # {} => Max(asset.segments) \in 0..(Segments - 1)
        BY <4>1, MaxIn
      <4> QED BY <4>2, RecordingAssumption
    <3>2. count \in Count
      BY <1>1, <3>1, RecordingAssumption DEF TypeOK, AssetRecord, HandlerRecord, Count
    <3> HIDE DEF count
    <3>3. new \in HandlerRecord
      BY <1>1, <3>2 DEF TypeOK, AssetRecord, HandlerRecord
    <3>4. Goes(h, new) /\ UNCHANGED queue
      BY <1>3, <2>2 DEF FinalizeReads, count
    <3>5. handler' \in [Handler -> HandlerRecord]
      BY <3>3, <3>4, Goings
    <3> QED
      BY <1>3, <3>4, <3>5 DEF FinalizeReads, TypeOK
  <2> QED BY <2>1, <2>2
<1>4. CASE WriteManifest(h)
  <2>1. handler' \in [Handler -> HandlerRecord]
    <3>1. [handler[h] EXCEPT !.step = "UPDATE",
                             !.manifest = @ \/ handler[h].read # {}] \in HandlerRecord
      BY <1>1 DEF HandlerRecord
    <3> QED
      BY <1>4, <3>1, Goings, StepTyped DEF WriteManifest
  <2>2. faults' \in [count: 0..MaxFaults, uploadDied: BOOLEAN]
    BY <1>4, FaultTyped DEF WriteManifest, TypeOK
  <2>3. objects' \subseteq Key
    BY <1>4, RecordingAssumption DEF WriteManifest, TypeOK, ManifestKey, Key
  <2> QED
    BY <1>4, <2>1, <2>2, <2>3 DEF WriteManifest, TypeOK
<1>5. CASE FinalizeUpdates(h)
  <2>1. handler' \in [Handler -> HandlerRecord] /\ queue' \in QueueRecord
    BY <1>5, AnswersTyped DEF FinalizeUpdates
  <2>2. asset' \in AssetRecord
    BY <1>1, <1>5 DEF FinalizeUpdates, TypeOK, AssetRecord, HandlerRecord
  <2>3. file' \in FileRecord
    BY <1>5, PendingTyped DEF FinalizeUpdates, FileAfter, TypeOK
  <2>4. build' \in [Worker -> BuildRecord]
    BY <1>5, PendingTyped DEF FinalizeUpdates, TypeOK
  <2> QED
    BY <1>5, <2>1, <2>2, <2>3, <2>4 DEF FinalizeUpdates, TypeOK
<1> QED
  BY <1>2, <1>3, <1>4, <1>5

LEMMA DeleteTyped ==
  ASSUME TypeOK, NEW h \in Handler,
         DeleteBegins(h) \/ DeleteObject(h) \/ DeleteFails(h) \/ DeleteEnds(h)
  PROVE  TypeOK'
<1>1. handler[h] \in HandlerRecord
  BY DEF TypeOK
<1>2. CASE DeleteBegins(h)
  <2> DEFINE all == {SegmentKey(i) : i \in asset.segments}
                      \cup (IF asset.manifest THEN {ManifestKey} ELSE {})
                      \cup {FileKey} \cup deletion.keys
             new == [Idle EXCEPT !.step = "DELETE", !.op = "DELETE", !.keys = all, !.all = all]
  <2>1. all \in SUBSET Key
    BY RecordingAssumption
    DEF TypeOK, AssetRecord, DeletionRecord, SegmentKey, ManifestKey, FileKey, Key, Segment
  <2> HIDE DEF all
  <2>2. new \in HandlerRecord
    BY <2>1, IdleTyped DEF HandlerRecord
  <2>3. Goes(h, new)
    BY <1>2 DEF DeleteBegins, all
  <2>4. deletion' \in DeletionRecord
    BY <1>2 DEF DeleteBegins, TypeOK, DeletionRecord
  <2> QED
    BY <1>2, <2>2, <2>3, <2>4, Goings DEF DeleteBegins, TypeOK
<1>3. CASE DeleteObject(h)
  <2> DEFINE k == Min(handler[h].keys)
             new == [handler[h] EXCEPT !.keys = @ \ {k}]
  <2>1. Goes(h, new) /\ objects' = objects \ {k}
    BY <1>3 DEF DeleteObject
  <2> HIDE DEF k
  <2>2. new \in HandlerRecord
    BY <1>1 DEF HandlerRecord
  <2> QED
    BY <1>3, <2>1, <2>2, Goings DEF DeleteObject, TypeOK
<1>4. CASE DeleteFails(h)
  BY <1>4, IdleTyped, FaultTyped, Goings DEF DeleteFails, TypeOK
<1>5. CASE DeleteEnds(h)
  <2>1. handler' \in [Handler -> HandlerRecord]
    BY <1>5, IdleTyped, Goings DEF DeleteEnds
  <2>2. asset' \in AssetRecord
    BY <1>5 DEF DeleteEnds, TypeOK, AssetRecord
  <2>3. file' \in FileRecord
    BY <1>5 DEF DeleteEnds, TypeOK, FileRecord
  <2>4. build' \in [Worker -> BuildRecord]
    BY <1>5, PendingTyped DEF DeleteEnds, TypeOK
  <2>5. deletion' \in DeletionRecord
    <3>1. KeysKept(h) \in SUBSET Key
      BY <1>1 DEF KeysKept, TypeOK, DeletionRecord, HandlerRecord
    <3>2. [status |-> "DELETED", keys |-> KeysKept(h), sweepAfter |-> TRUE] \in DeletionRecord
      BY <3>1 DEF DeletionRecord
    <3> QED
      BY <1>5, <3>2 DEF DeleteEnds, TypeOK
  <2> QED
    BY <1>5, <2>1, <2>2, <2>3, <2>4, <2>5 DEF DeleteEnds, TypeOK
<1> QED
  BY <1>2, <1>3, <1>4, <1>5

LEMMA SweepTyped ==
  ASSUME TypeOK, SweepFinalizes \/ SweepAgain \/ SweepEnds
  PROVE  TypeOK'
<1>1. "sweep" \in Handler
  BY DEF Handler
<1>2. CASE SweepFinalizes
  <2>1. [Idle EXCEPT !.step = "LATE", !.op = "FINALIZE"] \in HandlerRecord
    BY IdleTyped DEF HandlerRecord
  <2> QED
    BY <1>1, <1>2, <2>1, Goings DEF SweepFinalizes, TypeOK
<1>3. CASE SweepAgain
  <2>1. [Idle EXCEPT !.step = "DELETE", !.op = "SWEEP", !.keys = deletion.keys,
                     !.fresh = TRUE] \in HandlerRecord
    BY IdleTyped DEF HandlerRecord, TypeOK, DeletionRecord
  <2> QED
    BY <1>1, <1>3, <2>1, Goings DEF SweepAgain, TypeOK
<1>4. CASE SweepEnds
  <2>1. deletion' \in DeletionRecord
    BY <1>1, <1>4 DEF SweepEnds, TypeOK, DeletionRecord, HandlerRecord
  <2> QED
    BY <1>1, <1>4, <2>1, IdleTyped, Goings DEF SweepEnds, TypeOK
<1> QED
  BY <1>2, <1>3, <1>4

LEMMA BuildTyped ==
  ASSUME TypeOK, NEW w \in Worker,
         claimMediaFileBuild(w) \/ buildMediaFile(w) \/ putFile(w) \/ completeMediaFileBuild(w)
  PROVE  TypeOK'
<1>1. ASSUME NEW step \in {"PUT", "RECORD"}, NEW o \in {None, "READY", "FAILED", "UNAVAILABLE"},
             Builds(w, step, o)
      PROVE  build' \in [Worker -> BuildRecord]
  BY <1>1 DEF Builds, TypeOK, BuildRecord
<1>2. CASE claimMediaFileBuild(w)
  <2>1. [step |-> "JOIN", read |-> asset.segments, outcome |-> None, current |-> TRUE]
          \in BuildRecord
    BY DEF TypeOK, AssetRecord, BuildRecord
  <2>2. build' \in [Worker -> BuildRecord]
    BY <1>2, <2>1, PendingTyped DEF claimMediaFileBuild
  <2>3. file' \in FileRecord
    <3>1. file.attempts + 1 \in Nat
      BY DEF TypeOK, FileRecord
    <3> QED
      BY <1>2, <3>1 DEF claimMediaFileBuild, TypeOK, FileRecord
  <2> QED
    BY <1>2, <2>2, <2>3 DEF claimMediaFileBuild, TypeOK
<1>3. CASE buildMediaFile(w)
  <2>1. build' \in [Worker -> BuildRecord]
    BY <1>1, <1>3 DEF buildMediaFile
  <2>2. faults' \in [count: 0..MaxFaults, uploadDied: BOOLEAN]
    BY <1>3, FaultTyped DEF buildMediaFile, TypeOK
  <2> QED
    BY <1>3, <2>1, <2>2 DEF buildMediaFile, TypeOK
<1>4. CASE putFile(w)
  <2>1. build' \in [Worker -> BuildRecord]
    BY <1>1, <1>4 DEF putFile
  <2>2. faults' \in [count: 0..MaxFaults, uploadDied: BOOLEAN]
    BY <1>4, FaultTyped DEF putFile, TypeOK
  <2>3. objects' \subseteq Key
    <3>1. FileKey \in Key
      BY RecordingAssumption DEF FileKey, Key
    <3> QED
      BY <1>4, <3>1 DEF putFile, TypeOK
  <2>4. joined' \in [of: SUBSET Segment, claimed: BOOLEAN]
    <3>1. mediaParts(build[w].read) \in SUBSET Segment /\ build[w].current \in BOOLEAN
      BY DEF mediaParts, TypeOK, BuildRecord
    <3>2. [of |-> mediaParts(build[w].read), claimed |-> build[w].current]
            \in [of: SUBSET Segment, claimed: BOOLEAN]
      BY <3>1
    <3> QED
      BY <1>4, <3>2 DEF putFile, TypeOK
  <2> QED
    BY <1>4, <2>1, <2>2, <2>3, <2>4 DEF putFile, TypeOK
<1>5. CASE completeMediaFileBuild(w)
  <2>1. file' \in FileRecord
    <3>1. build[w].outcome \in {None, "READY", "FAILED", "UNAVAILABLE"}
      BY DEF TypeOK, BuildRecord
    <3> QED
      BY <1>5, <3>1 DEF completeMediaFileBuild, TypeOK, FileRecord
  <2>2. NoBuild \in BuildRecord
    BY DEF NoBuild, BuildRecord
  <2> QED
    BY <1>5, <2>1, <2>2 DEF completeMediaFileBuild, TypeOK
<1> QED
  BY <1>2, <1>3, <1>4, <1>5

LEMMA OtherTyped ==
  ASSUME TypeOK,
         \/ requestMediaFileRebuild \/ requeueUnavailableMediaFiles
         \/ \E h \in Handler : RequestDies(h)
         \/ WorkerDies
  PROVE  TypeOK'
<1>1. ASSUME NEW from, Requeue(from) PROVE TypeOK'
  BY <1>1, PendingTyped DEF Requeue, TypeOK
<1>2. ASSUME NEW h \in Handler, RequestDies(h) PROVE TypeOK'
  <2>1. queue' \in QueueRecord
    BY <1>2 DEF RequestDies, TypeOK, QueueRecord
  <2>2. faults' \in [count: 0..MaxFaults, uploadDied: BOOLEAN]
    BY <1>2, FaultTyped DEF RequestDies
  <2> QED
    BY <1>2, <2>1, <2>2, IdleTyped, Goings DEF RequestDies, TypeOK
<1>3. CASE WorkerDies
  <2>1. NoBuild \in BuildRecord
    BY DEF NoBuild, BuildRecord
  <2>2. "sweep" \in Handler
    BY DEF Handler
  <2> QED
    BY <1>3, <2>1, <2>2, IdleTyped, Goings, FaultTyped DEF WorkerDies, TypeOK
<1> QED
  BY <1>1, <1>2, <1>3 DEF requestMediaFileRebuild, requeueUnavailableMediaFiles

LEMMA StaysTyped == TypeOK /\ [Next]_vars => TypeOK'
<1> SUFFICES ASSUME TypeOK, [Next]_vars PROVE TypeOK'
  OBVIOUS
<1>1. CASE UNCHANGED vars
  BY <1>1 DEF vars, TypeOK
<1>2. CASE Next
  <2>1. Request \subseteq Handler
    BY DEF Handler
  <2> QED
    BY <1>2, <2>1, BrowserTyped, PumpTyped, UploadTyped, FinalizeTyped, DeleteTyped, SweepTyped,
       BuildTyped, OtherTyped DEF Next, Serves
<1> QED
  BY <1>1, <1>2

(* Every part of the recording keeps its type, for any number of segments, *)
(* requests, builders and faults.                                          *)
THEOREM TypeCorrect == Spec => []TypeOK
BY InitTyped, StaysTyped, PTL DEF Spec

-------------------------------------------------------------------------------
(* The inductive invariant.  RolesInv says which requests are at which     *)
(* step, and that a delete takes the keys of every segment on the record:  *)
(* none is attached once it has begun.  KeptInv says what is stored, and   *)
(* recorded, before the browser hears of it.                               *)

RolesInv ==
  \A h \in Handler :
    /\ handler[h].step \in {"UPLOAD", "STORE", "ATTACH", "UNDO", "NOTE"}
         => handler[h].op = "UPLOAD" /\ h \in Request
    /\ handler[h].step = "FINALIZE" => handler[h].op = "FINALIZE"
    /\ handler[h].step \in {"UNDO", "NOTE", "DELETE"} => deletion.status # None
    /\ handler[h].step = "DELETE" /\ handler[h].op = "DELETE"
         => asset.segments \subseteq handler[h].all /\ FileKey \in handler[h].all

KeptInv ==
  deletion.status = None =>
    /\ asset.segments \subseteq objects
    /\ \A h \in Handler :
         /\ handler[h].step = "ATTACH" => handler[h].idx \in objects
         /\ handler[h].op = "UPLOAD" /\ handler[h].step \in {"LATE", "MANIFEST", "UPDATE"}
              => handler[h].idx \in asset.segments

Inv == TypeOK /\ RolesInv /\ KeptInv /\ NothingIsLost

(* The fields of an idle handler, and what a step makes of the others.     *)
LEMMA Goer ==
  ASSUME TypeOK, NEW h \in Handler, NEW new, Goes(h, new)
  PROVE  handler'[h] = new /\ \A g \in Handler \ {h} : handler'[g] = handler[g]
BY DEF TypeOK, Goes

LEMMA Stepper ==
  ASSUME TypeOK, NEW h \in Handler, NEW step, Step(h, step)
  PROVE  /\ handler'[h].step = step
         /\ handler'[h].op = handler[h].op
         /\ handler'[h].idx = handler[h].idx
         /\ handler'[h].all = handler[h].all
         /\ handler'[h].keys = handler[h].keys
         /\ handler'[h].fresh = handler[h].fresh
         /\ handler'[h].read = handler[h].read
         /\ \A g \in Handler \ {h} : handler'[g] = handler[g]
<1>1. handler[h] \in HandlerRecord
  BY DEF TypeOK
<1>2. handler'[h] = [handler[h] EXCEPT !.step = step]
  BY Goer DEF Step
<1> QED
  BY <1>1, <1>2, Goer DEF Step, HandlerRecord

LEMMA Idler ==
  ASSUME TypeOK, NEW h \in Handler, Goes(h, Idle)
  PROVE  /\ handler'[h].step = "IDLE" /\ handler'[h].op = None
         /\ \A g \in Handler \ {h} : handler'[g] = handler[g]
BY Goer DEF Idle

LEMMA BrowserKeeps ==
  ASSUME Inv, Record \/ finish \/ ConnectionDrops \/ TabCloses \/ Ends
  PROVE  RolesInv' /\ KeptInv' /\ NothingIsLost'
<1>1. CASE Record
  <2>1. queue.recorded \in Nat /\ 0..(queue.recorded + 1 - 1) = 0..(queue.recorded - 1) \cup {queue.recorded}
    BY RecordingAssumption DEF Inv, TypeOK, QueueRecord
  <2>2. queue'.recorded = queue.recorded + 1 /\ queue'.dropped = queue.dropped
          /\ queue'.pending = queue.pending \cup {queue.recorded}
    BY <1>1 DEF Record, Inv, TypeOK, QueueRecord
  <2> QED
    BY <1>1, <2>1, <2>2 DEF Record, Inv, RolesInv, KeptInv, NothingIsLost
<1>2. CASE finish \/ ConnectionDrops \/ TabCloses \/ Ends
  <2>1. queue'.recorded = queue.recorded /\ queue'.pending = queue.pending
          /\ queue'.dropped = queue.dropped
    BY <1>2 DEF finish, ConnectionDrops, TabCloses, Ends, Inv, TypeOK, QueueRecord
  <2> QED
    BY <1>2, <2>1
    DEF finish, ConnectionDrops, TabCloses, Ends, Inv, RolesInv, KeptInv, NothingIsLost
<1> QED
  BY <1>1, <1>2

(* The browser forgets a segment only when it hears that it is stored, too *)
(* large, or that no more are taken.                                       *)
LEMMA HeardKeeps ==
  ASSUME Inv, NEW h \in Handler, NEW outcome \in {"done", "drop", "stop", "retry"},
         Answers(h, outcome),
         deletion'.status = None => deletion.status = None,
         session' = session,
         asset.segments \subseteq asset'.segments,
         deletion'.status = None => objects \subseteq objects',
         outcome = "stop" => session = "OVER" \/ deletion.status # None
                               \/ handler[h].op # "UPLOAD",
         outcome = "done" => \/ deletion.status # None
                             \/ handler[h].op # "UPLOAD"
                             \/ handler[h].idx \in asset'.segments /\ handler[h].idx \in objects'
  PROVE  NothingIsLost'
<1> SUFFICES ASSUME deletion'.status = None, session' # "OVER",
                    NEW i \in 0..(queue'.recorded - 1)
             PROVE  \/ i \in queue'.pending \cup queue'.dropped
                    \/ i \in asset'.segments /\ i \in objects'
  BY DEF NothingIsLost, SegmentKey
<1>1. CASE queue' = queue
  BY <1>1 DEF Inv, NothingIsLost, SegmentKey
<1>2. CASE queue' = Heard(outcome, handler[h].op, handler[h].idx)
  <2>1. queue'.recorded = queue.recorded
    BY <1>2 DEF Heard, Inv, TypeOK, QueueRecord
  <2>2. queue.dropped \subseteq queue'.dropped
    BY <1>2 DEF Heard, Inv, TypeOK, QueueRecord
  <2>3. CASE handler[h].op # "UPLOAD" \/ outcome = "retry"
    <3>1. queue'.pending = queue.pending
      BY <1>2, <2>3 DEF Heard, Inv, TypeOK, QueueRecord
    <3> QED
      BY <2>1, <2>2, <3>1 DEF Inv, NothingIsLost, SegmentKey
  <2>4. CASE handler[h].op = "UPLOAD" /\ outcome = "done"
    <3>1. queue'.pending = queue.pending \ {handler[h].idx}
      BY <1>2, <2>4 DEF Heard, Inv, TypeOK, QueueRecord
    <3> QED
      BY <2>1, <2>2, <2>4, <3>1 DEF Inv, NothingIsLost, SegmentKey
  <2>5. CASE handler[h].op = "UPLOAD" /\ outcome = "drop"
    <3>1. queue'.pending = queue.pending \ {handler[h].idx}
            /\ queue'.dropped = queue.dropped \cup {handler[h].idx}
      BY <1>2, <2>5 DEF Heard, Inv, TypeOK, QueueRecord
    <3> QED
      BY <2>1, <3>1 DEF Inv, NothingIsLost, SegmentKey
  <2> QED
    BY <2>3, <2>4, <2>5
<1> QED
  BY <1>1, <1>2 DEF Answers

LEMMA PumpGoes ==
  ASSUME TypeOK, NEW h \in Request, pump(h)
  PROVE  /\ handler[h].step = "IDLE"
         /\ \/ handler'[h].step = "UPLOAD" /\ handler'[h].op = "UPLOAD"
            \/ handler'[h].step = "FINALIZE" /\ handler'[h].op = "FINALIZE"
         /\ \A g \in Handler \ {h} : handler'[g] = handler[g]
<1>1. h \in Handler /\ handler[h].step = "IDLE"
  BY DEF Handler, pump, At
<1>2. CASE queue.pending # {}
  <2> DEFINE new == [Idle EXCEPT !.step = "UPLOAD", !.op = "UPLOAD", !.idx = Min(queue.pending)]
  <2>1. Goes(h, new)
    BY <1>2 DEF pump
  <2>2. new.step = "UPLOAD" /\ new.op = "UPLOAD"
    BY DEF Idle
  <2> HIDE DEF new
  <2> QED
    BY <1>1, <2>1, <2>2, Goer
<1>3. CASE queue.pending = {}
  <2> DEFINE new == [Idle EXCEPT !.step = "FINALIZE", !.op = "FINALIZE", !.count = queue.recorded]
  <2>1. Goes(h, new)
    BY <1>3 DEF pump
  <2>2. new.step = "FINALIZE" /\ new.op = "FINALIZE"
    BY DEF Idle
  <2> HIDE DEF new
  <2> QED
    BY <1>1, <2>1, <2>2, Goer
<1> QED BY <1>2, <1>3

LEMMA PumpKeeps ==
  ASSUME Inv, NEW h \in Request, pump(h)
  PROVE  RolesInv' /\ KeptInv' /\ NothingIsLost'
<1>1. queue'.recorded = queue.recorded /\ queue'.pending = queue.pending
        /\ queue'.dropped = queue.dropped
  BY DEF pump, Inv, TypeOK, QueueRecord
<1>2. /\ \/ handler'[h].step = "UPLOAD" /\ handler'[h].op = "UPLOAD"
         \/ handler'[h].step = "FINALIZE" /\ handler'[h].op = "FINALIZE"
      /\ \A g \in Handler \ {h} : handler'[g] = handler[g]
  BY PumpGoes DEF Inv
<1>3. UNCHANGED <<session, asset, deletion, objects>>
  BY DEF pump
<1> QED
  BY <1>1, <1>2, <1>3 DEF Inv, RolesInv, KeptInv, NothingIsLost

LEMMA UploadKeeps ==
  ASSUME Inv, NEW h \in Handler,
         uploadSegment(h) \/ StoreSegment(h) \/ Attach(h) \/ UndoUpload(h)
  PROVE  RolesInv' /\ KeptInv' /\ NothingIsLost'
<1>1. Upserted.segments = asset.segments
  BY DEF Upserted, Inv, TypeOK, AssetRecord
<1>2. TypeOK
  BY DEF Inv
<1>3. CASE uploadSegment(h)
  <2>1. asset'.segments = asset.segments /\ UNCHANGED <<session, deletion, objects>>
    BY <1>1, <1>3 DEF uploadSegment
  <2>2. \/ handler'[h].step = "IDLE" /\ handler'[h].op = None
        \/ handler'[h].step = "STORE" /\ handler'[h].op = handler[h].op
    BY <1>2, <1>3, Idler, Stepper DEF uploadSegment, Answers
  <2>3. \A g \in Handler \ {h} : handler'[g] = handler[g]
    BY <1>2, <1>3, Idler, Stepper DEF uploadSegment, Answers
  <2>4. RolesInv' /\ KeptInv'
    BY <1>3, <2>1, <2>2, <2>3 DEF Inv, RolesInv, KeptInv, uploadSegment, At, None
  <2>5. NothingIsLost'
    <3>1. handler[h].idx \in asset.segments /\ deletion.status = None
            => handler[h].idx \in objects
      BY DEF Inv, KeptInv
    <3>2. \/ Answers(h, "done") /\ handler[h].idx \in asset.segments /\ deletion.status = None
          \/ Answers(h, "stop") /\ (session = "OVER" \/ deletion.status # None)
          \/ Answers(h, "drop")
          \/ UNCHANGED queue
      BY <1>3 DEF uploadSegment
    <3> QED
      BY <2>1, <3>1, <3>2, HeardKeeps DEF Inv, NothingIsLost
  <2> QED BY <2>4, <2>5
<1>4. CASE StoreSegment(h)
  <2>1. UNCHANGED <<session, asset, deletion>> /\ objects \subseteq objects'
    BY <1>4 DEF StoreSegment
  <2>2. \/ handler'[h].step = "IDLE" /\ handler'[h].op = None
        \/ /\ handler'[h].step = "ATTACH" /\ handler'[h].op = handler[h].op
           /\ handler'[h].idx = handler[h].idx /\ handler[h].idx \in objects'
    BY <1>2, <1>4, Idler, Stepper DEF StoreSegment, Answers, SegmentKey
  <2>3. \A g \in Handler \ {h} : handler'[g] = handler[g]
    BY <1>2, <1>4, Idler, Stepper DEF StoreSegment, Answers
  <2>4. RolesInv' /\ KeptInv'
    BY <1>4, <2>1, <2>2, <2>3 DEF Inv, RolesInv, KeptInv, StoreSegment, At, None
  <2>5. NothingIsLost'
    <3>1. Answers(h, "retry") \/ UNCHANGED queue
      BY <1>4 DEF StoreSegment
    <3> QED
      BY <2>1, <3>1, HeardKeeps DEF Inv, NothingIsLost
  <2> QED BY <2>4, <2>5
<1>5. CASE Attach(h)
  <2>1. UNCHANGED <<session, deletion, objects>>
    BY <1>5 DEF Attach
  <2>2. /\ asset.segments \subseteq asset'.segments
        /\ deletion.status # None => asset' = asset
        /\ asset'.segments \subseteq asset.segments \cup {handler[h].idx}
    BY <1>5 DEF Attach, Attaches, Inv, TypeOK, AssetRecord
  <2>3. \/ handler'[h].step = "IDLE" /\ handler'[h].op = None
        \/ /\ handler'[h].step = "LATE" /\ handler'[h].idx = handler[h].idx
           /\ handler[h].idx \in asset'.segments
        \/ /\ handler'[h].step = "UNDO" /\ handler'[h].op = handler[h].op
           /\ deletion.status # None
    BY <1>2, <1>5, Idler, Stepper
    DEF Attach, Answers, Undoes, Attaches, TypeOK, AssetRecord
  <2>4. \A g \in Handler \ {h} : handler'[g] = handler[g]
    BY <1>2, <1>5, Idler, Stepper DEF Attach, Answers
  <2>5. deletion.status = None => handler[h].idx \in objects
    BY <1>5 DEF Attach, At, Inv, KeptInv
  <2>6. RolesInv'
    BY <1>5, <2>1, <2>2, <2>3, <2>4 DEF Inv, RolesInv, Attach, At, None
  <2>7. KeptInv'
    BY <2>1, <2>2, <2>3, <2>4, <2>5 DEF Inv, KeptInv, None
  <2>8. NothingIsLost'
    <3>1. \/ Answers(h, "done") /\ (handler[h].idx \in asset'.segments \/ deletion.status # None)
          \/ UNCHANGED queue
      BY <1>5 DEF Attach, Attaches, Undoes, Inv, TypeOK, AssetRecord
    <3> QED
      BY <2>1, <2>2, <2>5, <3>1, HeardKeeps DEF Inv, NothingIsLost
  <2> QED BY <2>6, <2>7, <2>8
<1>6. CASE UndoUpload(h)
  <2>1. deletion.status # None /\ UNCHANGED <<session, asset, deletion>>
    BY <1>6 DEF UndoUpload, At, Inv, RolesInv
  <2>2. \/ handler'[h].step = "IDLE" /\ handler'[h].op = None
        \/ handler'[h].step = "NOTE" /\ handler'[h].op = handler[h].op
    BY <1>2, <1>6, Idler, Stepper DEF UndoUpload, Answers
  <2>3. \A g \in Handler \ {h} : handler'[g] = handler[g]
    BY <1>2, <1>6, Idler, Stepper DEF UndoUpload, Answers
  <2>4. RolesInv'
    BY <1>6, <2>1, <2>2, <2>3 DEF Inv, RolesInv, UndoUpload, At, None
  <2> QED
    BY <2>1, <2>4 DEF KeptInv, NothingIsLost
<1> QED
  BY <1>3, <1>4, <1>5, <1>6

LEMMA NoteKeeps ==
  ASSUME Inv, NEW h \in Handler, noteOrphanedMediaKey(h)
  PROVE  /\ RolesInv' /\ KeptInv' /\ NothingIsLost'
         /\ handler'[h].step = "IDLE"
         /\ handler'["sweep"] = [handler["sweep"] EXCEPT !.fresh = FALSE]
         /\ \A g \in Handler \ {h, "sweep"} : handler'[g] = handler[g]
<1>1. h \in Request /\ h # "sweep" /\ "sweep" \in Handler
  BY RecordingAssumption DEF noteOrphanedMediaKey, At, Inv, RolesInv, Handler
<1>2. /\ handler'[h] = Idle
      /\ handler'["sweep"] = [handler["sweep"] EXCEPT !.fresh = FALSE]
      /\ \A g \in Handler \ {h, "sweep"} : handler'[g] = handler[g]
  BY <1>1 DEF noteOrphanedMediaKey, Inv, TypeOK
<1>3. /\ handler'["sweep"].step = handler["sweep"].step
      /\ handler'["sweep"].op = handler["sweep"].op
      /\ handler'["sweep"].all = handler["sweep"].all
  <2>1. handler["sweep"] \in HandlerRecord
    BY <1>1 DEF Inv, TypeOK
  <2> QED BY <1>2, <2>1 DEF HandlerRecord
<1>4. deletion.status # None /\ deletion'.status = deletion.status /\ asset' = asset
  BY DEF noteOrphanedMediaKey, At, Inv, RolesInv, TypeOK, DeletionRecord
<1>5. handler'[h].step = "IDLE"
  BY <1>2 DEF Idle
<1>6. RolesInv'
  <2>1. ASSUME NEW g \in Handler, handler'[g].step # "IDLE"
        PROVE  /\ handler'[g].step = handler[g].step
               /\ handler'[g].op = handler[g].op
               /\ handler'[g].all = handler[g].all
    BY <1>2, <1>3, <1>5, <2>1
  <2> QED
    BY <1>4, <2>1 DEF Inv, RolesInv
<1> QED
  BY <1>2, <1>4, <1>5, <1>6 DEF KeptInv, NothingIsLost

(* How the steps of a finalize, and of a delete, move their handler.       *)
LEMMA FinalizeMoves ==
  ASSUME TypeOK, NEW h \in Handler,
         finalize(h) \/ FinalizeReads(h) \/ WriteManifest(h) \/ FinalizeUpdates(h)
  PROVE  /\ \A g \in Handler \ {h} : handler'[g] = handler[g]
         /\ handler[h].step \in {"FINALIZE", "LATE", "MANIFEST", "UPDATE"}
         /\ \/ handler'[h].step = "IDLE" /\ handler'[h].op = None
            \/ /\ handler'[h].step \in {"LATE", "MANIFEST", "UPDATE"}
               /\ handler'[h].op = handler[h].op /\ handler'[h].idx = handler[h].idx
               /\ handler[h].step \in {"FINALIZE", "LATE", "MANIFEST"}
<1>1. CASE finalize(h)
  BY <1>1, Stepper DEF finalize, At
<1>2. CASE FinalizeReads(h)
  <2>1. CASE deletion.status # None
    BY <1>2, <2>1, Idler DEF FinalizeReads, Answers, At
  <2>2. CASE deletion.status = None
    <3>1. PICK count : Goes(h, [handler[h] EXCEPT !.step = "MANIFEST", !.read = asset.segments,
                                  !.manifest = asset.manifest, !.count = count])
      BY <1>2, <2>2 DEF FinalizeReads
    <3>2. handler[h] \in HandlerRecord
      BY DEF TypeOK
    <3> DEFINE new == [handler[h] EXCEPT !.step = "MANIFEST", !.read = asset.segments,
                                         !.manifest = asset.manifest, !.count = count]
    <3>3. new.step = "MANIFEST" /\ new.op = handler[h].op /\ new.idx = handler[h].idx
      BY <3>2 DEF HandlerRecord
    <3>4. Goes(h, new)
      BY <3>1
    <3> HIDE DEF new
    <3> QED
      BY <1>2, <3>3, <3>4, Goer DEF FinalizeReads, At
  <2> QED BY <2>1, <2>2
<1>3. CASE WriteManifest(h)
  <2>1. handler[h] \in HandlerRecord
    BY DEF TypeOK
  <2>2. CASE Step(h, "UPDATE")
    BY <1>3, <2>2, Stepper DEF WriteManifest, At
  <2>3. CASE ~ Step(h, "UPDATE")
    <3> DEFINE new == [handler[h] EXCEPT !.step = "UPDATE", !.manifest = @ \/ handler[h].read # {}]
    <3>1. new.step = "UPDATE" /\ new.op = handler[h].op /\ new.idx = handler[h].idx
      BY <2>1 DEF HandlerRecord
    <3>2. Goes(h, new)
      BY <1>3, <2>3 DEF WriteManifest
    <3> HIDE DEF new
    <3> QED
      BY <1>3, <3>1, <3>2, Goer DEF WriteManifest, At
  <2> QED BY <2>2, <2>3
<1>4. CASE FinalizeUpdates(h)
  BY <1>4, Idler DEF FinalizeUpdates, Answers, At
<1> QED BY <1>1, <1>2, <1>3, <1>4

LEMMA DeleteMoves ==
  ASSUME TypeOK, NEW h \in Handler,
         DeleteBegins(h) \/ DeleteObject(h) \/ DeleteFails(h) \/ DeleteEnds(h)
  PROVE  /\ \A g \in Handler \ {h} : handler'[g] = handler[g]
         /\ handler[h].step \in {"IDLE", "DELETE"}
         /\ \/ handler'[h].step = "IDLE"
            \/ /\ handler[h].step = "DELETE" /\ handler'[h].step = "DELETE"
               /\ handler'[h].op = handler[h].op /\ handler'[h].all = handler[h].all
            \/ /\ handler'[h].step = "DELETE" /\ handler'[h].op = "DELETE"
               /\ asset.segments \subseteq handler'[h].all /\ FileKey \in handler'[h].all
         /\ DeleteBegins(h) => handler'[h].op = "DELETE"
<1>1. CASE DeleteBegins(h)
  <2> DEFINE all == {SegmentKey(i) : i \in asset.segments}
                      \cup (IF asset.manifest THEN {ManifestKey} ELSE {})
                      \cup {FileKey} \cup deletion.keys
             new == [Idle EXCEPT !.step = "DELETE", !.op = "DELETE", !.keys = all, !.all = all]
  <2>1. asset.segments \subseteq all /\ FileKey \in all
    BY DEF SegmentKey
  <2>2. Goes(h, new) /\ handler[h].step = "IDLE"
    BY <1>1 DEF DeleteBegins, At
  <2> HIDE DEF all
  <2>3. new.step = "DELETE" /\ new.op = "DELETE" /\ new.all = all
    BY DEF Idle
  <2> HIDE DEF new
  <2> QED
    BY <2>1, <2>2, <2>3, Goer
<1>2. CASE DeleteObject(h)
  <2>1. handler[h] \in HandlerRecord
    BY DEF TypeOK
  <2> DEFINE k == Min(handler[h].keys)
             new == [handler[h] EXCEPT !.keys = @ \ {k}]
  <2>2. Goes(h, new) /\ handler[h].step = "DELETE" /\ ~DeleteBegins(h)
    BY <1>2 DEF DeleteObject, DeleteBegins, At
  <2> HIDE DEF k
  <2>3. new.step = handler[h].step /\ new.op = handler[h].op /\ new.all = handler[h].all
    BY <2>1 DEF HandlerRecord
  <2> HIDE DEF new
  <2> QED
    BY <2>2, <2>3, Goer
<1>3. CASE DeleteFails(h) \/ DeleteEnds(h)
  BY <1>3, Idler DEF DeleteFails, DeleteEnds, DeleteBegins, At
<1> QED BY <1>1, <1>2, <1>3

LEMMA FinalizeKeeps ==
  ASSUME Inv, NEW h \in Handler,
         finalize(h) \/ FinalizeReads(h) \/ WriteManifest(h) \/ FinalizeUpdates(h)
  PROVE  RolesInv' /\ KeptInv' /\ NothingIsLost'
<1>1. TypeOK
  BY DEF Inv
<1>2. /\ UNCHANGED <<session, deletion>>
      /\ asset'.segments = asset.segments
      /\ objects \subseteq objects'
  <2>1. CASE finalize(h)
    BY <2>1 DEF finalize, Upserted, Inv, TypeOK, AssetRecord
  <2>2. CASE FinalizeReads(h)
    BY <2>2 DEF FinalizeReads
  <2>3. CASE WriteManifest(h)
    BY <2>3 DEF WriteManifest
  <2>4. CASE FinalizeUpdates(h)
    BY <2>4 DEF FinalizeUpdates, Inv, TypeOK, AssetRecord
  <2> QED BY <2>1, <2>2, <2>3, <2>4
<1>3. /\ \A g \in Handler \ {h} : handler'[g] = handler[g]
      /\ \/ handler'[h].step = "IDLE" /\ handler'[h].op = None
         \/ /\ handler'[h].step \in {"LATE", "MANIFEST", "UPDATE"}
            /\ handler'[h].op = handler[h].op /\ handler'[h].idx = handler[h].idx
            /\ handler[h].step \in {"FINALIZE", "LATE", "MANIFEST"}
  BY <1>1, FinalizeMoves
<1>4. RolesInv'
  BY <1>2, <1>3 DEF Inv, RolesInv
<1>5. KeptInv'
  BY <1>2, <1>3 DEF Inv, RolesInv, KeptInv, None
<1>6. NothingIsLost'
  <2>1. CASE UNCHANGED queue
    BY <1>2, <2>1 DEF Inv, NothingIsLost
  <2>2. CASE Answers(h, "done")
    <3>1. \/ deletion.status # None
          \/ handler[h].op # "UPLOAD"
          \/ handler[h].idx \in asset.segments
      BY <2>2, <1>1 DEF Inv, KeptInv, finalize, FinalizeReads, WriteManifest, FinalizeUpdates, At,
         RolesInv
    <3>2. handler[h].idx \in asset.segments /\ deletion.status = None
            => handler[h].idx \in objects'
      BY <1>2 DEF Inv, KeptInv
    <3> QED
      BY <1>2, <2>2, <3>1, <3>2, HeardKeeps
  <2> QED
    BY <2>1, <2>2 DEF finalize, FinalizeReads, WriteManifest, FinalizeUpdates
<1> QED BY <1>4, <1>5, <1>6

LEMMA DeleteKeeps ==
  ASSUME Inv, NEW h \in Handler,
         DeleteBegins(h) \/ DeleteObject(h) \/ DeleteFails(h) \/ DeleteEnds(h)
  PROVE  RolesInv' /\ KeptInv' /\ NothingIsLost'
<1>1. TypeOK
  BY DEF Inv
<1>2. deletion'.status # None
  <2>1. CASE DeleteBegins(h)
    BY <2>1 DEF DeleteBegins, Inv, TypeOK, DeletionRecord, None
  <2>2. CASE DeleteObject(h) \/ DeleteFails(h) \/ DeleteEnds(h)
    BY <2>2
    DEF DeleteObject, DeleteFails, DeleteEnds, At, Inv, RolesInv, None
  <2> QED BY <2>1, <2>2
<1>3. KeptInv' /\ NothingIsLost'
  BY <1>2 DEF KeptInv, NothingIsLost
<1>4. asset'.segments \subseteq asset.segments
  BY <1>1 DEF DeleteBegins, DeleteObject, DeleteFails, DeleteEnds, TypeOK, AssetRecord
<1>5. deletion.status # None => deletion'.status # None
  BY <1>2
<1>6. RolesInv'
  BY <1>1, <1>2, <1>4, <1>5, DeleteMoves DEF Inv, RolesInv
<1> QED BY <1>3, <1>6

LEMMA SweepMoves ==
  ASSUME TypeOK, SweepFinalizes \/ SweepAgain \/ SweepEnds
  PROVE  /\ \A g \in Handler \ {"sweep"} : handler'[g] = handler[g]
         /\ handler["sweep"].step \in {"IDLE", "DELETE"}
         /\ \/ /\ SweepEnds /\ handler'["sweep"].step = "IDLE"
            \/ /\ SweepFinalizes /\ handler["sweep"].step = "IDLE"
               /\ handler'["sweep"].step = "LATE" /\ handler'["sweep"].op = "FINALIZE"
            \/ /\ SweepAgain /\ handler["sweep"].step = "IDLE"
               /\ handler'["sweep"].step = "DELETE" /\ handler'["sweep"].op = "SWEEP"
               /\ handler'["sweep"].keys = deletion.keys
               /\ deletion.status = "DELETED"
<1>1. "sweep" \in Handler
  BY DEF Handler
<1>2. CASE SweepFinalizes
  <2> DEFINE new == [Idle EXCEPT !.step = "LATE", !.op = "FINALIZE"]
  <2>1. new.step = "LATE" /\ new.op = "FINALIZE"
    BY DEF Idle
  <2>2. Goes("sweep", new) /\ handler["sweep"].step = "IDLE"
    BY <1>2 DEF SweepFinalizes, At
  <2> HIDE DEF new
  <2> QED
    BY <1>1, <1>2, <2>1, <2>2, Goer
<1>3. CASE SweepAgain
  <2> DEFINE new == [Idle EXCEPT !.step = "DELETE", !.op = "SWEEP", !.keys = deletion.keys,
                                 !.fresh = TRUE]
  <2>1. new.step = "DELETE" /\ new.op = "SWEEP" /\ new.keys = deletion.keys
    BY DEF Idle
  <2>2. Goes("sweep", new) /\ handler["sweep"].step = "IDLE" /\ deletion.status = "DELETED"
    BY <1>3 DEF SweepAgain, At
  <2> HIDE DEF new
  <2> QED
    BY <1>1, <1>3, <2>1, <2>2, Goer
<1>4. CASE SweepEnds
  BY <1>1, <1>4, Idler DEF SweepEnds, At
<1> QED
  BY <1>2, <1>3, <1>4

LEMMA SweepKeeps ==
  ASSUME Inv, SweepFinalizes \/ SweepAgain \/ SweepEnds
  PROVE  RolesInv' /\ KeptInv' /\ NothingIsLost'
<1>1. TypeOK /\ "sweep" \in Handler
  BY DEF Inv, Handler
<1>2. UNCHANGED <<session, queue, asset, objects>> /\ deletion'.status = deletion.status
  BY DEF SweepFinalizes, SweepAgain, SweepEnds, Inv, TypeOK, DeletionRecord
<1>3. /\ \A g \in Handler \ {"sweep"} : handler'[g] = handler[g]
      /\ \/ handler'["sweep"].step = "IDLE"
         \/ handler'["sweep"].step = "LATE" /\ handler'["sweep"].op = "FINALIZE"
         \/ /\ handler'["sweep"].step = "DELETE" /\ handler'["sweep"].op = "SWEEP"
            /\ deletion.status # None
  BY <1>1, SweepMoves DEF None
<1> QED
  BY <1>1, <1>2, <1>3 DEF Inv, RolesInv, KeptInv, NothingIsLost

LEMMA OthersKeep ==
  ASSUME Inv,
         \/ \E w \in Worker :
              \/ claimMediaFileBuild(w) \/ buildMediaFile(w) \/ putFile(w)
              \/ completeMediaFileBuild(w)
         \/ requestMediaFileRebuild \/ requeueUnavailableMediaFiles
         \/ UNCHANGED vars
  PROVE  RolesInv' /\ KeptInv' /\ NothingIsLost'
<1>1. UNCHANGED <<session, queue, asset, deletion, handler>> /\ objects \subseteq objects'
  BY DEF claimMediaFileBuild, buildMediaFile, putFile, completeMediaFileBuild, vars,
     requestMediaFileRebuild, requeueUnavailableMediaFiles, Requeue
<1> QED
  BY <1>1 DEF Inv, RolesInv, KeptInv, NothingIsLost

LEMMA CrashesKeep ==
  ASSUME Inv, (\E h \in Request : RequestDies(h)) \/ WorkerDies
  PROVE  RolesInv' /\ KeptInv' /\ NothingIsLost'
<1>1. PICK h \in Handler : Goes(h, Idle)
  BY DEF RequestDies, WorkerDies, Handler
<1>2. UNCHANGED <<session, asset, deletion, objects>>
  BY DEF RequestDies, WorkerDies
<1>3. queue'.recorded = queue.recorded /\ queue'.pending = queue.pending
        /\ queue'.dropped = queue.dropped
  BY DEF RequestDies, WorkerDies, Inv, TypeOK, QueueRecord
<1>4. /\ handler'[h].step = "IDLE" /\ handler'[h].op = None
      /\ \A g \in Handler \ {h} : handler'[g] = handler[g]
  BY <1>1, Idler DEF Inv
<1> QED
  BY <1>2, <1>3, <1>4 DEF Inv, RolesInv, KeptInv, NothingIsLost, None

LEMMA StaysKept == Inv /\ [Next]_vars => Inv'
<1> SUFFICES ASSUME Inv, [Next]_vars PROVE Inv'
  OBVIOUS
<1>1. TypeOK'
  BY StaysTyped DEF Inv
<1>2. RolesInv' /\ KeptInv' /\ NothingIsLost'
  BY BrowserKeeps, PumpKeeps, UploadKeeps, NoteKeeps, FinalizeKeeps, DeleteKeeps, SweepKeeps,
     OthersKeep, CrashesKeep DEF Next, Serves
<1> QED
  BY <1>1, <1>2 DEF Inv

LEMMA InitKept == Init => Inv
<1> SUFFICES ASSUME Init PROVE Inv
  OBVIOUS
<1>1. TypeOK
  BY InitTyped
<1>2. \A h \in Handler : handler[h].step = "IDLE" /\ handler[h].op = None
  BY DEF Init, Idle
<1>3. RolesInv /\ KeptInv
  BY <1>2 DEF Init, RolesInv, KeptInv, None
<1>4. NothingIsLost
  BY DEF Init, NothingIsLost
<1> QED
  BY <1>1, <1>3, <1>4 DEF Inv

(* Whatever requests are retried while an earlier one still runs, and      *)
(* whatever dies: a segment that the browser no longer keeps is on the     *)
(* record and in storage, as long as the recording has not been deleted    *)
(* (media.service.ts:291, upload-queue.ts:305).                            *)
THEOREM NothingIsLostAlways == Spec => []NothingIsLost
<1>1. Inv => NothingIsLost
  BY DEF Inv
<1> QED
  BY <1>1, InitKept, StaysKept, PTL DEF Spec

-------------------------------------------------------------------------------
(* Nothing stays behind a delete.  Every object is on the record, among    *)
(* the keys the delete keeps, or in the hand of an upload that is about to *)
(* attach or remove it; a sweep that nobody has told of another key works  *)
(* through the rest, and nobody stores media any more when it starts.      *)

InHand(k) ==
  \E h \in Request : handler[h].step \in {"ATTACH", "UNDO", "NOTE"} /\ handler[h].idx = k

Quiet ==
  /\ deletion.status = "DELETED"
  /\ \A h \in Handler : handler[h].step # "STORE"
  /\ \A w \in Worker : build[w].step \notin {"JOIN", "PUT"}

Sweeping == handler["sweep"].step = "DELETE" /\ handler["sweep"].op = "SWEEP"

KnownInv ==
  ~faults.uploadDied =>
    \A k \in objects :
      k = ManifestKey \/ k = FileKey \/ k \in asset.segments \/ k \in deletion.keys \/ InHand(k)

DeletedInv ==
  deletion.status = "DELETED" => asset.segments = {} /\ FileKey \in deletion.keys

SweepingInv ==
  Sweeping =>
    /\ Quiet
    /\ ~faults.uploadDied /\ handler["sweep"].fresh =>
         \A k \in objects : k = ManifestKey \/ k \in handler["sweep"].keys \/ InHand(k)

SweptInv ==
  deletion.status = "DELETED" /\ ~deletion.sweepAfter =>
    /\ Quiet
    /\ ~faults.uploadDied => \A k \in objects : k = ManifestKey \/ InHand(k)

MediaInv == KnownInv /\ DeletedInv /\ SweepingInv /\ SweptInv

(* A step that leaves what is recorded alone, stores nothing but a         *)
(* manifest, and takes no object out of an upload's hand.                  *)
LEMMA Aside ==
  ASSUME MediaInv,
         asset'.segments = asset.segments, deletion' = deletion,
         faults.uploadDied => faults'.uploadDied,
         \A k \in objects' : k \in objects \/ k = ManifestKey,
         ~faults'.uploadDied => \A k \in objects' : InHand(k) => InHand(k)',
         Quiet => Quiet',
         Sweeping' => handler'["sweep"] = handler["sweep"]
  PROVE  MediaInv'
<1>1. Sweeping' => Sweeping /\ handler'["sweep"] = handler["sweep"]
  BY DEF Sweeping
<1>2. KnownInv'
  BY DEF MediaInv, KnownInv
<1>3. DeletedInv'
  BY DEF MediaInv, DeletedInv
<1>4. SweepingInv'
  BY <1>1 DEF MediaInv, SweepingInv
<1>5. SweptInv'
  BY DEF MediaInv, SweptInv
<1> QED
  BY <1>2, <1>3, <1>4, <1>5 DEF MediaInv

LEMMA FaultStays ==
  ASSUME TypeOK, NEW k, Fault(k)
  PROVE  /\ faults.uploadDied => faults'.uploadDied
         /\ k = "UPLOAD_DIES" => faults'.uploadDied
BY DEF Fault, TypeOK

(* One handler moves, and not from a step at which it has an object in its *)
(* hand to one at which it has not.                                        *)
LEMMA OneMoves ==
  ASSUME Inv, NEW h \in Handler,
         \A g \in Handler \ {h} : handler'[g] = handler[g],
         handler[h].step \in {"ATTACH", "UNDO", "NOTE"} =>
           handler'[h].step \in {"ATTACH", "UNDO", "NOTE"} /\ handler'[h].idx = handler[h].idx
  PROVE  \A k : InHand(k) => InHand(k)'
BY DEF InHand, Handler

LEMMA NotSweep == "sweep" \in Handler /\ "sweep" \notin Request /\ Request \subseteq Handler
BY RecordingAssumption DEF Handler

LEMMA BrowserAside ==
  ASSUME Inv, MediaInv,
         Record \/ finish \/ ConnectionDrops \/ TabCloses \/ Ends
           \/ requestMediaFileRebuild \/ requeueUnavailableMediaFiles \/ UNCHANGED vars
  PROVE  MediaInv'
<1>1. UNCHANGED <<asset, deletion, objects, handler, build>>
  BY DEF Record, finish, ConnectionDrops, TabCloses, Ends, requestMediaFileRebuild,
     requeueUnavailableMediaFiles, Requeue, vars
<1>2. faults.uploadDied => faults'.uploadDied
  BY FaultStays DEF Record, finish, ConnectionDrops, TabCloses, Ends, requestMediaFileRebuild,
     requeueUnavailableMediaFiles, Requeue, vars, Inv
<1>3. Quiet => Quiet'
  BY <1>1 DEF Quiet
<1>4. \A k : InHand(k) => InHand(k)'
  BY <1>1 DEF InHand
<1> QED
  BY <1>1, <1>2, <1>3, <1>4, Aside

LEMMA PumpAside ==
  ASSUME Inv, MediaInv, NEW h \in Request, pump(h)
  PROVE  MediaInv'
<1>1. TypeOK /\ h \in Handler /\ h # "sweep" /\ "sweep" \in Handler
  BY NotSweep DEF Inv
<1>2. UNCHANGED <<asset, deletion, objects, build, faults>>
  BY DEF pump
<1>3. handler[h].step = "IDLE" /\ handler'[h].step # "STORE"
  BY <1>1, PumpGoes
<1>4. \A g \in Handler \ {h} : handler'[g] = handler[g]
  BY <1>1, PumpGoes
<1>5. Quiet => Quiet'
  BY <1>2, <1>3, <1>4 DEF Quiet
<1>6. \A k : InHand(k) => InHand(k)'
  BY <1>1, <1>3, <1>4, OneMoves
<1>7. handler'["sweep"] = handler["sweep"]
  BY <1>1, <1>4
<1> QED
  BY <1>2, <1>5, <1>6, <1>7, Aside

LEMMA UploadMedia ==
  ASSUME Inv, MediaInv, NEW h \in Handler,
         uploadSegment(h) \/ StoreSegment(h) \/ Attach(h) \/ UndoUpload(h)
  PROVE  MediaInv'
<1>1. TypeOK /\ h \in Request /\ h # "sweep" /\ "sweep" \in Handler
  BY NotSweep DEF Inv, RolesInv, uploadSegment, StoreSegment, Attach, UndoUpload, At
<1>2. \A g \in Handler \ {h} : handler'[g] = handler[g]
  BY <1>1, Idler, Stepper DEF uploadSegment, StoreSegment, Attach, UndoUpload, Answers
<1>3. handler'["sweep"] = handler["sweep"]
  BY <1>1, <1>2
<1>4. CASE uploadSegment(h)
  <2>1. asset'.segments = asset.segments /\ UNCHANGED <<deletion, objects, build, faults>>
    BY <1>4 DEF uploadSegment, Upserted, Inv, TypeOK, AssetRecord
  <2>2. handler[h].step = "UPLOAD"
    BY <1>4 DEF uploadSegment, At
  <2>3. handler'[h].step = "IDLE" \/ (handler'[h].step = "STORE" /\ deletion.status = None)
    BY <1>1, <1>4, Idler, Stepper DEF uploadSegment, Answers
  <2>4. Quiet => Quiet'
    BY <1>2, <2>1, <2>3 DEF Quiet, None
  <2>5. \A k : InHand(k) => InHand(k)'
    BY <1>2, <2>2, OneMoves
  <2> QED
    BY <1>3, <2>1, <2>4, <2>5, Aside
<1>5. CASE StoreSegment(h)
  <2>1. UNCHANGED <<asset, deletion, build>> /\ handler[h].step = "STORE" /\ ~Quiet
    BY <1>5 DEF StoreSegment, At, Quiet
  <2>2. \A k : InHand(k) => InHand(k)'
    BY <1>2, <2>1, OneMoves
  <2>3. faults.uploadDied => faults'.uploadDied
    BY <1>1, <1>5, FaultStays DEF StoreSegment
  <2>4. \A k \in objects' : k \in objects \/ InHand(k)'
    <3>1. CASE objects' = objects
      BY <3>1
    <3>2. CASE objects' # objects
      <4>1. objects' = objects \cup {handler[h].idx} /\ Step(h, "ATTACH")
        BY <1>5, <3>2 DEF StoreSegment, SegmentKey
      <4>2. handler'[h].step = "ATTACH" /\ handler'[h].idx = handler[h].idx
        BY <1>1, <4>1, Stepper
      <4> QED
        BY <1>1, <4>1, <4>2 DEF InHand
    <3> QED BY <3>1, <3>2
  <2>5. KnownInv'
    BY <2>1, <2>2, <2>3, <2>4 DEF MediaInv, KnownInv
  <2>6. DeletedInv'
    BY <2>1 DEF MediaInv, DeletedInv
  <2>7. SweepingInv' /\ SweptInv'
    BY <1>3, <2>1 DEF MediaInv, SweepingInv, SweptInv, Sweeping
  <2> QED
    BY <2>5, <2>6, <2>7 DEF MediaInv
<1>6. CASE Attach(h) /\ Undoes(h)
  <2>1. Step(h, "UNDO") /\ UNCHANGED <<asset, deletion, objects, build, faults>>
    BY <1>6 DEF Attach, Undoes
  <2>2. handler'[h].step = "UNDO" /\ handler'[h].idx = handler[h].idx
    BY <1>1, <2>1, Stepper
  <2>3. Quiet => Quiet'
    BY <1>2, <2>1, <2>2 DEF Quiet
  <2>4. \A k : InHand(k) => InHand(k)'
    BY <1>2, <2>2, OneMoves
  <2> QED
    BY <1>3, <2>1, <2>3, <2>4, Aside
<1>7. CASE Attach(h) /\ ~Undoes(h)
  <2>1. UNCHANGED <<deletion, objects, build, faults>> /\ handler[h].step = "ATTACH"
    BY <1>7 DEF Attach, At
  <2>2. deletion.status = None
    BY <1>7 DEF Attach, Undoes, Attaches
  <2>3. asset'.segments = asset.segments \cup {handler[h].idx}
    BY <1>7, <2>2 DEF Attach, Undoes, Attaches, Inv, TypeOK, AssetRecord
  <2>4. \A k : InHand(k) => InHand(k)' \/ k = handler[h].idx
    BY <1>2 DEF InHand, Handler
  <2>5. KnownInv'
    BY <2>1, <2>3, <2>4 DEF MediaInv, KnownInv
  <2>6. DeletedInv' /\ SweptInv'
    BY <2>1, <2>2 DEF DeletedInv, SweptInv, None
  <2>7. SweepingInv'
    BY <1>3, <2>1, <2>2 DEF MediaInv, SweepingInv, Sweeping, Quiet, None
  <2> QED
    BY <2>5, <2>6, <2>7 DEF MediaInv
<1>8. CASE UndoUpload(h)
  <2>1. UNCHANGED <<asset, deletion, build>> /\ handler[h].step = "UNDO"
    BY <1>8 DEF UndoUpload, At
  <2>2. faults.uploadDied => faults'.uploadDied
    BY <1>1, <1>8, FaultStays DEF UndoUpload
  <2>3. \/ objects' = objects \ {handler[h].idx} /\ handler'[h].step = "IDLE"
        \/ objects' = objects /\ handler'[h].step = "NOTE" /\ handler'[h].idx = handler[h].idx
    BY <1>1, <1>8, Idler, Stepper DEF UndoUpload, Answers, SegmentKey
  <2>4. \A k \in objects' : InHand(k) => InHand(k)'
    BY <1>2, <2>3 DEF InHand, Handler
  <2>5. Quiet => Quiet'
    BY <1>2, <2>1, <2>3 DEF Quiet
  <2>6. \A k \in objects' : k \in objects
    BY <2>3
  <2> QED
    BY <1>3, <2>1, <2>2, <2>4, <2>5, <2>6, Aside
<1> QED
  BY <1>4, <1>5, <1>6, <1>7, <1>8

LEMMA NoteMedia ==
  ASSUME Inv, MediaInv, NEW h \in Handler, noteOrphanedMediaKey(h)
  PROVE  MediaInv'
<1>1. /\ TypeOK /\ h \in Request /\ h # "sweep" /\ "sweep" \in Handler
      /\ handler[h].step = "NOTE"
  BY NotSweep DEF Inv, RolesInv, noteOrphanedMediaKey, At
<1>2. UNCHANGED <<asset, objects, build, faults>>
  BY DEF noteOrphanedMediaKey
<1>3. /\ deletion'.status = deletion.status /\ deletion'.sweepAfter = TRUE
      /\ deletion'.keys = deletion.keys \cup {handler[h].idx}
  BY <1>1 DEF noteOrphanedMediaKey, TypeOK, DeletionRecord, SegmentKey
<1>4. /\ handler'["sweep"].step = handler["sweep"].step
      /\ handler'["sweep"].op = handler["sweep"].op
      /\ handler'["sweep"].fresh = FALSE
  <2>1. handler["sweep"] \in HandlerRecord
    BY <1>1 DEF TypeOK
  <2> QED
    BY <2>1, NoteKeeps DEF HandlerRecord
<1>5. handler'[h].step = "IDLE" /\ \A g \in Handler \ {h, "sweep"} : handler'[g] = handler[g]
  BY NoteKeeps
<1>6. Quiet => Quiet'
  BY <1>2, <1>3, <1>4, <1>5 DEF Quiet
<1>7. \A k : InHand(k) => InHand(k)' \/ k = handler[h].idx
  BY <1>1, <1>5, NotSweep DEF InHand
<1>8. KnownInv'
  BY <1>2, <1>3, <1>7 DEF MediaInv, KnownInv
<1>9. DeletedInv' /\ SweptInv'
  BY <1>2, <1>3 DEF MediaInv, DeletedInv, SweptInv
<1>10. SweepingInv'
  BY <1>4, <1>6 DEF MediaInv, SweepingInv, Sweeping
<1> QED
  BY <1>8, <1>9, <1>10 DEF MediaInv

LEMMA FinalizeAside ==
  ASSUME Inv, MediaInv, NEW h \in Handler,
         finalize(h) \/ FinalizeReads(h) \/ WriteManifest(h) \/ FinalizeUpdates(h)
  PROVE  MediaInv'
<1>1. TypeOK
  BY DEF Inv
<1>2. asset'.segments = asset.segments /\ UNCHANGED deletion
  BY DEF finalize, FinalizeReads, WriteManifest, FinalizeUpdates, Upserted, Inv, TypeOK, AssetRecord
<1>3. \A k \in objects' : k \in objects \/ k = ManifestKey
  BY DEF finalize, FinalizeReads, WriteManifest, FinalizeUpdates
<1>4. faults.uploadDied => faults'.uploadDied
  BY <1>1, FaultStays DEF finalize, FinalizeReads, WriteManifest, FinalizeUpdates
<1>5. /\ \A g \in Handler \ {h} : handler'[g] = handler[g]
      /\ handler'[h].step \in {"IDLE", "LATE", "MANIFEST", "UPDATE"}
      /\ handler[h].step \in {"FINALIZE", "LATE", "MANIFEST", "UPDATE"}
  BY FinalizeMoves DEF Inv
<1>6. \A w \in Worker : build'[w].step = build[w].step
  BY DEF finalize, FinalizeReads, WriteManifest, FinalizeUpdates, Outdated, Inv, TypeOK, BuildRecord
<1>7. Quiet => Quiet'
  BY <1>2, <1>5, <1>6 DEF Quiet
<1>8. \A k : InHand(k) => InHand(k)'
  BY <1>5, OneMoves
<1>9. Sweeping' => handler'["sweep"] = handler["sweep"]
  BY <1>5, NotSweep DEF Sweeping
<1> QED
  BY <1>2, <1>3, <1>4, <1>7, <1>8, <1>9, Aside

LEMMA DeleteMedia ==
  ASSUME Inv, MediaInv, NEW h \in Handler,
         DeleteBegins(h) \/ DeleteObject(h) \/ DeleteFails(h) \/ DeleteEnds(h)
  PROVE  MediaInv'
<1>1. TypeOK /\ "sweep" \in Handler
  BY NotSweep DEF Inv
<1>2. /\ \A g \in Handler \ {h} : handler'[g] = handler[g]
      /\ handler'[h].step \in {"IDLE", "DELETE"}
      /\ handler[h].step \in {"IDLE", "DELETE"}
  BY DeleteMoves DEF Inv
<1>3. \A k : InHand(k) => InHand(k)'
  BY <1>2, OneMoves
<1>4. CASE DeleteBegins(h)
  <2>1. UNCHANGED <<asset, objects, build, faults>> /\ deletion'.keys = deletion.keys
          /\ deletion'.status = "DELETING" /\ deletion.status # "DELETED"
    BY <1>1, <1>4 DEF DeleteBegins, TypeOK, DeletionRecord, None
  <2>2. handler'[h].op = "DELETE"
    BY <1>1, <1>4, DeleteMoves
  <2>3. ~Sweeping'
    BY <1>1, <1>2, <2>1, <2>2 DEF MediaInv, SweepingInv, Sweeping, Quiet
  <2>4. KnownInv'
    BY <1>3, <2>1 DEF MediaInv, KnownInv
  <2>5. DeletedInv' /\ SweptInv' /\ SweepingInv'
    BY <2>1, <2>3 DEF DeletedInv, SweptInv, SweepingInv
  <2> QED
    BY <2>4, <2>5 DEF MediaInv
<1>5. CASE DeleteObject(h) /\ ~(h = "sweep" /\ Sweeping)
  <2>1. UNCHANGED <<asset, deletion, build, faults>> /\ objects' \subseteq objects
          /\ handler[h].step = "DELETE"
    BY <1>5 DEF DeleteObject, At
  <2>2. handler'[h].op = handler[h].op
    <3>1. PICK keys : Goes(h, [handler[h] EXCEPT !.keys = keys])
      BY <1>5 DEF DeleteObject
    <3>2. handler[h] \in HandlerRecord
      BY <1>1 DEF TypeOK
    <3>3. [handler[h] EXCEPT !.keys = keys].op = handler[h].op
      BY <3>2 DEF HandlerRecord
    <3> QED
      BY <1>1, <3>1, <3>3, Goer
  <2>3. Sweeping' => handler'["sweep"] = handler["sweep"]
    BY <1>1, <1>2, <1>5, <2>1, <2>2 DEF Sweeping
  <2>4. Quiet => Quiet'
    BY <1>2, <2>1 DEF Quiet
  <2> QED
    BY <1>3, <2>1, <2>3, <2>4, Aside
<1>6. CASE DeleteObject(h) /\ h = "sweep" /\ Sweeping
  <2> DEFINE k == Min(handler["sweep"].keys)
             new == [handler["sweep"] EXCEPT !.keys = @ \ {k}]
  <2>1. UNCHANGED <<asset, deletion, build, faults>> /\ objects' = objects \ {k}
          /\ Goes("sweep", new)
    BY <1>6 DEF DeleteObject
  <2> HIDE DEF k
  <2>2. /\ new.keys = handler["sweep"].keys \ {k} /\ new.fresh = handler["sweep"].fresh
    <3>1. handler["sweep"] \in HandlerRecord
      BY <1>1 DEF TypeOK
    <3> QED BY <3>1 DEF HandlerRecord
  <2> HIDE DEF new
  <2>3. handler'["sweep"].keys = handler["sweep"].keys \ {k}
          /\ handler'["sweep"].fresh = handler["sweep"].fresh
    BY <1>1, <2>1, <2>2, Goer
  <2>4. Quiet => Quiet'
    BY <1>2, <2>1 DEF Quiet
  <2>5. KnownInv' /\ DeletedInv'
    BY <1>3, <2>1 DEF MediaInv, KnownInv, DeletedInv
  <2>6. SweepingInv'
    BY <1>3, <1>6, <2>1, <2>3, <2>4 DEF MediaInv, SweepingInv
  <2>7. SweptInv'
    BY <1>3, <2>1, <2>4 DEF MediaInv, SweptInv
  <2> QED
    BY <2>5, <2>6, <2>7 DEF MediaInv
<1>7. CASE DeleteFails(h) \/ (DeleteEnds(h) /\ deletion.status # "DELETING")
  <2>1. UNCHANGED <<asset, deletion, build, objects>> /\ Goes(h, Idle)
    BY <1>7 DEF DeleteFails, DeleteEnds
  <2>2. faults.uploadDied => faults'.uploadDied
    BY <1>1, <1>7, FaultStays DEF DeleteFails, DeleteEnds
  <2>3. Quiet => Quiet'
    BY <1>2, <2>1 DEF Quiet
  <2>4. handler'[h].step = "IDLE"
    BY <1>1, <2>1, Idler
  <2>5. Sweeping' => handler'["sweep"] = handler["sweep"]
    BY <1>1, <1>2, <2>4 DEF Sweeping
  <2> QED
    BY <1>3, <2>1, <2>2, <2>3, <2>5, Aside
<1>8. CASE DeleteEnds(h) /\ deletion.status = "DELETING"
  <2>1. /\ asset'.segments = {} /\ UNCHANGED <<objects, faults>>
        /\ deletion' = [status |-> "DELETED", keys |-> KeysKept(h), sweepAfter |-> TRUE]
    BY <1>1, <1>8 DEF DeleteEnds, TypeOK, AssetRecord
  <2>2. asset.segments \subseteq handler[h].all /\ FileKey \in handler[h].all
    BY <1>8 DEF DeleteEnds, At, Inv, RolesInv
  <2>3. asset.segments \cup deletion.keys \cup {FileKey} \subseteq deletion'.keys
    BY <2>1, <2>2 DEF KeysKept
  <2>4. KnownInv'
    BY <1>3, <2>1, <2>3 DEF MediaInv, KnownInv
  <2>5. DeletedInv' /\ SweptInv'
    BY <2>1, <2>3 DEF DeletedInv, SweptInv
  <2>6. handler'[h].step = "IDLE"
    BY <1>1, <1>8, Idler DEF DeleteEnds
  <2>7. ~Sweeping'
    BY <1>1, <1>2, <1>8, <2>6 DEF MediaInv, SweepingInv, Sweeping, Quiet
  <2> QED
    BY <2>4, <2>5, <2>7 DEF MediaInv, SweepingInv
<1> QED
  BY <1>4, <1>5, <1>6, <1>7, <1>8

LEMMA SweepMedia ==
  ASSUME Inv, MediaInv, SweepFinalizes \/ SweepAgain \/ SweepEnds
  PROVE  MediaInv'
<1>1. TypeOK /\ "sweep" \in Handler
  BY NotSweep DEF Inv
<1>2. \A g \in Handler \ {"sweep"} : handler'[g] = handler[g]
  BY <1>1, SweepMoves
<1>3. UNCHANGED <<asset, objects, build, faults>>
  BY DEF SweepFinalizes, SweepAgain, SweepEnds
<1>4. handler["sweep"].step \in {"IDLE", "DELETE"} /\ handler'["sweep"].step # "STORE"
  BY <1>1, SweepMoves
<1>5. \A k : InHand(k) => InHand(k)'
  BY <1>1, <1>2, <1>4, OneMoves
<1>6. CASE SweepFinalizes
  <2>1. deletion' = deletion
    BY <1>6 DEF SweepFinalizes
  <2>2. Quiet => Quiet'
    BY <1>2, <1>3, <1>4, <2>1 DEF Quiet
  <2>3. ~Sweeping'
    <3>1. ~SweepAgain /\ ~SweepEnds
      BY <1>6 DEF SweepFinalizes, SweepAgain, SweepEnds, At, None
    <3> QED
      BY <1>1, <3>1, SweepMoves DEF Sweeping
  <2> QED
    BY <1>3, <1>5, <2>1, <2>2, <2>3, Aside
<1>7. CASE SweepAgain
  <2>1. deletion' = deletion /\ deletion.status = "DELETED" /\ deletion.sweepAfter
    BY <1>7 DEF SweepAgain
  <2>2. Quiet'
    <3>1. \A h \in Handler : handler'[h].step # "STORE"
      BY <1>2, <1>4, <1>7 DEF SweepAgain, Handler, At
    <3> QED
      BY <1>3, <1>7, <2>1, <3>1 DEF SweepAgain, Quiet
  <2>3. handler'["sweep"].keys = deletion.keys
    <3>1. ~SweepFinalizes /\ ~SweepEnds
      BY <1>7 DEF SweepFinalizes, SweepAgain, SweepEnds, At, None
    <3> QED
      BY <1>1, <3>1, SweepMoves
  <2>4. KnownInv' /\ DeletedInv' /\ SweptInv'
    BY <1>3, <1>5, <2>1 DEF MediaInv, KnownInv, DeletedInv, SweptInv
  <2>5. SweepingInv'
    BY <2>1, <2>2, <2>3, <2>4 DEF SweepingInv, KnownInv, DeletedInv
  <2> QED
    BY <2>4, <2>5 DEF MediaInv
<1>8. CASE SweepEnds
  <2>1. /\ deletion'.status = deletion.status /\ deletion'.keys = deletion.keys
        /\ deletion'.sweepAfter = (deletion.sweepAfter /\ ~handler["sweep"].fresh)
    BY <1>1, <1>8 DEF SweepEnds, TypeOK, DeletionRecord
  <2>2. Quiet => Quiet'
    BY <1>2, <1>3, <1>4, <2>1 DEF Quiet
  <2>3. ~Sweeping'
    BY <1>1, <1>8, Idler DEF SweepEnds, Sweeping
  <2>4. Sweeping /\ handler["sweep"].keys = {}
    BY <1>8 DEF SweepEnds, At, Sweeping
  <2>5. KnownInv' /\ DeletedInv'
    BY <1>3, <1>5, <2>1 DEF MediaInv, KnownInv, DeletedInv
  <2>6. SweepingInv'
    BY <2>3 DEF SweepingInv
  <2>7. SweptInv'
    <3> SUFFICES ASSUME deletion'.status = "DELETED", ~deletion'.sweepAfter
                 PROVE  Quiet' /\ (~faults'.uploadDied =>
                                     \A k \in objects' : k = ManifestKey \/ InHand(k)')
      BY DEF SweptInv
    <3>1. CASE handler["sweep"].fresh
      BY <1>3, <1>5, <2>2, <2>4, <3>1 DEF MediaInv, SweepingInv
    <3>2. CASE ~handler["sweep"].fresh
      <4>1. ~deletion.sweepAfter
        BY <2>1, <3>2
      <4> QED
        BY <1>3, <1>5, <2>1, <2>2, <4>1 DEF MediaInv, SweptInv
    <3> QED BY <3>1, <3>2
  <2> QED
    BY <2>5, <2>6, <2>7 DEF MediaInv
<1> QED
  BY <1>6, <1>7, <1>8

LEMMA BuildMedia ==
  ASSUME Inv, MediaInv, NEW w \in Worker,
         claimMediaFileBuild(w) \/ buildMediaFile(w) \/ putFile(w) \/ completeMediaFileBuild(w)
  PROVE  MediaInv'
<1>1. TypeOK
  BY DEF Inv
<1>2. UNCHANGED <<asset, deletion, handler>>
  BY DEF claimMediaFileBuild, buildMediaFile, putFile, completeMediaFileBuild
<1>3. \A k : InHand(k) => InHand(k)'
  BY <1>2 DEF InHand
<1>4. faults.uploadDied => faults'.uploadDied
  BY <1>1, FaultStays
  DEF claimMediaFileBuild, buildMediaFile, putFile, completeMediaFileBuild
<1>5. CASE claimMediaFileBuild(w) \/ buildMediaFile(w)
  <2>1. ~Quiet /\ UNCHANGED objects
    BY <1>5 DEF claimMediaFileBuild, buildMediaFile, Quiet, None
  <2> QED
    BY <1>2, <1>3, <1>4, <2>1, Aside
<1>6. CASE putFile(w)
  <2>1. ~Quiet /\ \A k \in objects' : k \in objects \/ k = FileKey
    BY <1>6 DEF putFile, Quiet
  <2>2. KnownInv'
    BY <1>2, <1>3, <1>4, <2>1 DEF MediaInv, KnownInv
  <2>3. DeletedInv'
    BY <1>2 DEF MediaInv, DeletedInv
  <2>4. SweepingInv' /\ SweptInv'
    BY <1>2, <2>1 DEF MediaInv, SweepingInv, SweptInv, Sweeping
  <2> QED
    BY <2>2, <2>3, <2>4 DEF MediaInv
<1>7. CASE completeMediaFileBuild(w)
  <2>1. UNCHANGED objects
    BY <1>7 DEF completeMediaFileBuild
  <2>2. Quiet => Quiet'
    BY <1>1, <1>2, <1>7 DEF completeMediaFileBuild, Quiet, NoBuild, TypeOK
  <2> QED
    BY <1>2, <1>3, <1>4, <2>1, <2>2, Aside
<1> QED
  BY <1>5, <1>6, <1>7

LEMMA CrashMedia ==
  ASSUME Inv, MediaInv, (\E h \in Request : RequestDies(h)) \/ WorkerDies
  PROVE  MediaInv'
<1>1. TypeOK
  BY DEF Inv
<1>2. UNCHANGED <<asset, deletion, objects>>
  BY DEF RequestDies, WorkerDies
<1>3. faults.uploadDied => faults'.uploadDied
  BY <1>1, FaultStays DEF RequestDies, WorkerDies
<1>4. ASSUME NEW h \in Request, RequestDies(h)
      PROVE  MediaInv'
  <2>1. h \in Handler /\ h # "sweep" /\ "sweep" \in Handler /\ Goes(h, Idle)
    BY <1>4, NotSweep DEF RequestDies
  <2>2. handler'[h].step = "IDLE" /\ \A g \in Handler \ {h} : handler'[g] = handler[g]
    BY <1>1, <2>1, Idler
  <2>3. ~faults'.uploadDied => handler[h].step \notin {"ATTACH", "UNDO", "NOTE"}
    BY <1>1, <1>4, <2>1, FaultStays DEF RequestDies, At, Inv, RolesInv
  <2>4. ~faults'.uploadDied => \A k : InHand(k) => InHand(k)'
    BY <2>1, <2>2, <2>3, OneMoves
  <2>5. Quiet => Quiet'
    BY <1>2, <1>4, <2>2 DEF RequestDies, Quiet
  <2> QED
    BY <1>2, <1>3, <2>1, <2>2, <2>4, <2>5, Aside
<1>5. ASSUME WorkerDies
      PROVE  MediaInv'
  <2>1. "sweep" \in Handler /\ Goes("sweep", Idle)
    BY <1>5, NotSweep DEF WorkerDies
  <2>2. handler'["sweep"].step = "IDLE"
          /\ \A g \in Handler \ {"sweep"} : handler'[g] = handler[g]
    BY <1>1, <2>1, Idler
  <2>3. \A k : InHand(k) => InHand(k)'
    BY <2>2, NotSweep DEF InHand
  <2>4. \A w \in Worker : build'[w].step = "IDLE"
    BY <1>5 DEF WorkerDies, NoBuild
  <2>5. Quiet => Quiet'
    BY <1>2, <2>2, <2>4 DEF Quiet
  <2>6. ~Sweeping'
    BY <2>2 DEF Sweeping
  <2> QED
    BY <1>2, <1>3, <2>3, <2>5, <2>6, Aside
<1> QED
  BY <1>4, <1>5

LEMMA StaysMedia == Inv /\ MediaInv /\ [Next]_vars => MediaInv'
<1> SUFFICES ASSUME Inv, MediaInv, [Next]_vars PROVE MediaInv'
  OBVIOUS
<1> QED
  BY BrowserAside, PumpAside, UploadMedia, NoteMedia, FinalizeAside, DeleteMedia, SweepMedia,
     BuildMedia, CrashMedia DEF Next, Serves

LEMMA InitMedia == Init => MediaInv
<1> SUFFICES ASSUME Init PROVE MediaInv
  OBVIOUS
<1>1. handler["sweep"].step = "IDLE"
  BY DEF Init, Idle, Handler
<1> QED
  BY <1>1
  DEF Init, MediaInv, KnownInv, DeletedInv, SweepingInv, SweptInv, Sweeping, None

(* However uploads, finalizes, builds, deletes and the sweep interleave,   *)
(* fail and are resumed: once a recording is deleted and swept again, no   *)
(* segment and no joined file of it is in storage (media.ts:147-156), as   *)
(* long as no upload died between storing its object and attaching it.     *)
THEOREM NoMediaLeftAlways == Spec => []NoMediaLeft
<1>1. MediaInv => NoMediaLeft
  BY DEF MediaInv, SweptInv, NoMediaLeft, Uploading, InHand
<1> QED
  BY <1>1, InitKept, StaysKept, InitMedia, StaysMedia, PTL DEF Spec

-------------------------------------------------------------------------------
(* A READY file joins every segment.  At most one build holds the claim,   *)
(* and while one does the file is PROCESSING; an upload that attached its  *)
(* segment after the finalize owes another one, and what that finalize     *)
(* reads is not empty, so it takes every claim away.  As long as none is   *)
(* owed, the build that holds the claim has read the segments on record.   *)

Owes(h) == handler[h].op = "UPLOAD" /\ handler[h].step \in {"LATE", "MANIFEST", "UPDATE"}

Whole == FileKey \in objects /\ (joined.claimed => joined.of = mediaParts(asset.segments))

ClaimInv ==
  /\ \A v, w \in Worker : build[v].current /\ build[w].current => v = w
  /\ deletion.status = None =>
       /\ \A w \in Worker : build[w].current => file.status = "PROCESSING"
       /\ asset.status \in {None, "RECORDING"} => file.status = None

OwedInv ==
  \A h \in Handler : handler[h].op = "UPLOAD" =>
    /\ h \in Request
    /\ handler[h].step \in {"MANIFEST", "UPDATE"} /\ deletion.status = None
         => handler[h].read # {}

WholeInv ==
  deletion.status = None /\ ~faults.uploadDied /\ (\A h \in Handler : ~Owes(h)) =>
    /\ file.status = "READY" => Whole
    /\ \A w \in Worker : build[w].current =>
         /\ build[w].read = asset.segments
         /\ build[w].step = "RECORD" /\ build[w].outcome = "READY" => Whole

FileInv == ClaimInv /\ OwedInv /\ WholeInv

(* A step that leaves the file and its builds alone and gives up no debt.  *)
LEMMA FileAside ==
  ASSUME FileInv,
         UNCHANGED <<file, build, joined>>,
         deletion'.status = None => deletion.status = None,
         deletion'.status = None => objects \subseteq objects',
         asset'.status \in {None, "RECORDING"} => asset.status \in {None, "RECORDING"},
         faults.uploadDied => faults'.uploadDied,
         deletion'.status = None /\ ~faults'.uploadDied /\ (\A h \in Handler : ~Owes(h)') =>
           asset'.segments = asset.segments /\ \A h \in Handler : ~Owes(h),
         OwedInv'
  PROVE  FileInv'
<1>1. ClaimInv'
  BY DEF FileInv, ClaimInv
<1>2. WholeInv'
  BY DEF FileInv, WholeInv, Whole, mediaParts
<1> QED
  BY <1>1, <1>2 DEF FileInv

(* One handler moves.                                                      *)
LEMMA OwedAside ==
  ASSUME FileInv, NEW h \in Handler,
         deletion'.status = None => deletion.status = None,
         \A g \in Handler \ {h} : handler'[g] = handler[g],
         handler'[h].op = "UPLOAD" =>
           /\ h \in Request
           /\ handler'[h].step \in {"MANIFEST", "UPDATE"} /\ deletion'.status = None
                => handler'[h].read # {}
  PROVE  OwedInv'
BY DEF FileInv, OwedInv

LEMMA BrowserFile ==
  ASSUME Inv, FileInv,
         Record \/ finish \/ ConnectionDrops \/ TabCloses \/ Ends \/ UNCHANGED vars
  PROVE  FileInv'
<1>1. UNCHANGED <<file, build, joined, deletion, objects, asset, handler>>
  BY DEF Record, finish, ConnectionDrops, TabCloses, Ends, vars
<1>2. faults.uploadDied => faults'.uploadDied
  BY FaultStays DEF Record, finish, ConnectionDrops, TabCloses, Ends, vars, Inv
<1>3. OwedInv' /\ \A h \in Handler : ~Owes(h)' => ~Owes(h)
  BY <1>1 DEF FileInv, OwedInv, Owes
<1> QED
  BY <1>1, <1>2, <1>3, FileAside

LEMMA PumpFile ==
  ASSUME Inv, FileInv, NEW h \in Request, pump(h)
  PROVE  FileInv'
<1>1. TypeOK /\ h \in Handler
  BY NotSweep DEF Inv
<1>2. UNCHANGED <<file, build, joined, deletion, objects, asset, faults>>
  BY DEF pump
<1>3. /\ handler[h].step = "IDLE"
      /\ handler'[h].step \in {"UPLOAD", "FINALIZE"}
      /\ \A g \in Handler \ {h} : handler'[g] = handler[g]
  BY <1>1, PumpGoes
<1>4. OwedInv'
  BY <1>1, <1>2, <1>3, OwedAside
<1>5. \A g \in Handler : ~Owes(g)' => ~Owes(g)
  BY <1>3 DEF Owes
<1> QED
  BY <1>2, <1>4, <1>5, FileAside

LEMMA UploadFile ==
  ASSUME Inv, FileInv, NEW h \in Handler,
         uploadSegment(h) \/ StoreSegment(h) \/ Attach(h) \/ UndoUpload(h)
  PROVE  FileInv'
<1>1. /\ TypeOK /\ h \in Request
      /\ handler[h].step \in {"UPLOAD", "STORE", "ATTACH", "UNDO"} /\ handler[h].op = "UPLOAD"
  BY NotSweep DEF Inv, RolesInv, uploadSegment, StoreSegment, Attach, UndoUpload, At
<1>2. UNCHANGED <<file, build, joined, deletion>>
  BY DEF uploadSegment, StoreSegment, Attach, UndoUpload
<1>3. \A g \in Handler \ {h} : handler'[g] = handler[g]
  BY <1>1, Idler, Stepper DEF uploadSegment, StoreSegment, Attach, UndoUpload, Answers
<1>4. handler'[h].step \in {"IDLE", "STORE", "ATTACH", "LATE", "UNDO", "NOTE"}
  BY <1>1, Idler, Stepper DEF uploadSegment, StoreSegment, Attach, UndoUpload, Answers
<1>5. OwedInv'
  BY <1>1, <1>2, <1>3, <1>4, OwedAside
<1>6. faults.uploadDied => faults'.uploadDied
  BY <1>1, FaultStays DEF uploadSegment, StoreSegment, Attach, UndoUpload
<1>7. deletion'.status = None => objects \subseteq objects'
  BY <1>1 DEF uploadSegment, StoreSegment, Attach, UndoUpload, At, Inv, RolesInv
<1>8. asset'.status \in {None, "RECORDING"} => asset.status \in {None, "RECORDING"}
  BY <1>1 DEF uploadSegment, StoreSegment, Attach, UndoUpload, Upserted, TypeOK, AssetRecord
<1>9. \A g \in Handler : ~Owes(g)' => ~Owes(g)
  BY <1>1, <1>3 DEF Owes
<1>10. CASE ~Attach(h) \/ asset'.segments = asset.segments
  <2>1. asset'.segments = asset.segments
    BY <1>1, <1>10 DEF uploadSegment, StoreSegment, UndoUpload, Upserted, TypeOK, AssetRecord
  <2> QED
    BY <1>2, <1>5, <1>6, <1>7, <1>8, <1>9, <2>1, FileAside
<1>11. CASE Attach(h) /\ asset.status # "RECORDING" /\ asset'.segments # asset.segments
  <2>1. Step(h, "LATE")
    BY <1>11 DEF Attach
  <2>2. Owes(h)'
    BY <1>1, <2>1, Stepper DEF Owes
  <2> QED
    BY <1>2, <1>5, <1>6, <1>7, <1>8, <2>2, FileAside
<1>12. CASE Attach(h) /\ asset.status = "RECORDING" /\ asset'.segments # asset.segments
  <2>1. /\ asset'.status = "RECORDING" /\ deletion.status = None
    BY <1>1, <1>12 DEF Attach, Attaches, TypeOK, AssetRecord
  <2>2. file.status = None /\ \A w \in Worker : ~build[w].current
    BY <1>12, <2>1 DEF FileInv, ClaimInv, None
  <2>3. ClaimInv' /\ WholeInv'
    BY <1>2, <2>2 DEF ClaimInv, WholeInv, None
  <2> QED
    BY <1>5, <2>3 DEF FileInv
<1> QED
  BY <1>10, <1>11, <1>12

LEMMA NoteFile ==
  ASSUME Inv, FileInv, NEW h \in Handler, noteOrphanedMediaKey(h)
  PROVE  FileInv'
<1>1. "sweep" \in Handler /\ TypeOK
  BY NotSweep DEF Inv
<1>2. deletion'.status # None /\ UNCHANGED <<file, build, joined, asset, faults>>
  BY <1>1 DEF noteOrphanedMediaKey, At, Inv, RolesInv, TypeOK, DeletionRecord
<1>3. handler'["sweep"].op = handler["sweep"].op
  <2>1. handler["sweep"] \in HandlerRecord
    BY <1>1 DEF TypeOK
  <2> QED
    BY <2>1, NoteKeeps DEF HandlerRecord
<1>4. handler'[h].op = None
  BY <1>1 DEF noteOrphanedMediaKey, Idle, At, Inv, RolesInv, TypeOK, None
<1>5. \A g \in Handler \ {h, "sweep"} : handler'[g] = handler[g]
  BY NoteKeeps
<1>6. OwedInv'
  BY <1>2, <1>3, <1>4, <1>5 DEF FileInv, OwedInv, None
<1> QED
  BY <1>2, <1>6, FileAside

LEMMA FinalizeFile ==
  ASSUME Inv, FileInv, NEW h \in Handler,
         finalize(h) \/ FinalizeReads(h) \/ WriteManifest(h) \/ FinalizeUpdates(h)
  PROVE  FileInv'
<1>1. TypeOK
  BY DEF Inv
<1>2. /\ \A g \in Handler \ {h} : handler'[g] = handler[g]
      /\ \/ handler'[h].step = "IDLE" /\ handler'[h].op = None
         \/ /\ handler'[h].step \in {"LATE", "MANIFEST", "UPDATE"}
            /\ handler'[h].op = handler[h].op /\ handler'[h].idx = handler[h].idx
            /\ handler[h].step \in {"FINALIZE", "LATE", "MANIFEST"}
  BY <1>1, FinalizeMoves
<1>3. UNCHANGED <<deletion, joined>> /\ objects \subseteq objects'
  BY DEF finalize, FinalizeReads, WriteManifest, FinalizeUpdates
<1>4. faults.uploadDied => faults'.uploadDied
  BY <1>1, FaultStays DEF finalize, FinalizeReads, WriteManifest, FinalizeUpdates
<1>5. handler'[h].op = "UPLOAD" => handler[h].op = "UPLOAD" /\ h \in Request
  BY <1>2 DEF FileInv, OwedInv, None
<1>6. asset'.segments = asset.segments
  BY <1>1 DEF finalize, FinalizeReads, WriteManifest, FinalizeUpdates, Upserted, TypeOK, AssetRecord
<1>7. asset'.status \in {None, "RECORDING"} => asset.status \in {None, "RECORDING"}
  BY <1>1 DEF finalize, FinalizeReads, WriteManifest, FinalizeUpdates, Upserted, TypeOK,
              AssetRecord, None
<1>8. ASSUME handler'[h].step \in {"MANIFEST", "UPDATE"}, handler'[h].op = "UPLOAD",
             deletion.status = None
      PROVE  handler'[h].read # {}
  <2>1. handler[h] \in HandlerRecord
    BY <1>1 DEF TypeOK
  <2>2. CASE finalize(h)
    BY <1>1, <1>8, <2>2, Stepper DEF finalize
  <2>3. CASE FinalizeReads(h)
    <3>1. PICK count : Goes(h, [handler[h] EXCEPT !.step = "MANIFEST", !.read = asset.segments,
                                  !.manifest = asset.manifest, !.count = count])
      BY <1>8, <2>3 DEF FinalizeReads
    <3> DEFINE new == [handler[h] EXCEPT !.step = "MANIFEST", !.read = asset.segments,
                                         !.manifest = asset.manifest, !.count = count]
    <3>2. new.read = asset.segments
      BY <2>1 DEF HandlerRecord
    <3>3. Goes(h, new)
      BY <3>1
    <3> HIDE DEF new
    <3>4. handler'[h].read = asset.segments
      BY <1>1, <3>2, <3>3, Goer
    <3>5. handler[h].idx \in asset.segments
      BY <1>5, <1>8, <2>3 DEF FinalizeReads, At, Inv, KeptInv
    <3> QED
      BY <3>4, <3>5
  <2>4. CASE WriteManifest(h)
    <3>1. handler[h].read # {}
      BY <1>5, <1>8, <2>4 DEF WriteManifest, At, FileInv, OwedInv
    <3>2. CASE Step(h, "UPDATE")
      BY <1>1, <3>1, <3>2, Stepper
    <3>3. CASE ~ Step(h, "UPDATE")
      <4> DEFINE new == [handler[h] EXCEPT !.step = "UPDATE",
                                           !.manifest = @ \/ handler[h].read # {}]
      <4>1. new.read = handler[h].read
        BY <2>1 DEF HandlerRecord
      <4>2. Goes(h, new)
        BY <2>4, <3>3 DEF WriteManifest
      <4> HIDE DEF new
      <4> QED
        BY <1>1, <3>1, <4>1, <4>2, Goer
    <3> QED BY <3>2, <3>3
  <2>5. CASE FinalizeUpdates(h)
    BY <1>1, <1>8, <2>5, Idler DEF FinalizeUpdates, Answers
  <2> QED BY <2>2, <2>3, <2>4, <2>5
<1>9. OwedInv'
  BY <1>2, <1>3, <1>5, <1>8, OwedAside
<1>10. CASE ~ (FinalizeUpdates(h) /\ deletion.status = None)
  <2>1. UNCHANGED <<file, build>>
    BY <1>10 DEF finalize, FinalizeReads, WriteManifest, FinalizeUpdates
  <2>2. handler[h].step # "UPDATE" \/ deletion.status # None
    BY <1>10 DEF finalize, FinalizeReads, WriteManifest, At
  <2>3. deletion.status = None => \A g \in Handler : ~Owes(g)' => ~Owes(g)
    <3>1. ASSUME deletion.status = None, Owes(h)
          PROVE  handler'[h].step # "IDLE"
      <4>1. handler[h] \in HandlerRecord
        BY <1>1 DEF TypeOK
      <4>2. CASE finalize(h)
        BY <1>1, <4>2, Stepper DEF finalize
      <4>3. CASE FinalizeReads(h)
        <5>1. PICK read, manifest, count :
                Goes(h, [handler[h] EXCEPT !.step = "MANIFEST", !.read = read,
                                           !.manifest = manifest, !.count = count])
          BY <3>1, <4>3 DEF FinalizeReads
        <5> DEFINE new == [handler[h] EXCEPT !.step = "MANIFEST", !.read = read,
                                             !.manifest = manifest, !.count = count]
        <5>2. new.step = "MANIFEST"
          BY <4>1 DEF HandlerRecord
        <5>3. Goes(h, new)
          BY <5>1
        <5> HIDE DEF new
        <5> QED
          BY <1>1, <5>2, <5>3, Goer
      <4>4. CASE WriteManifest(h)
        <5> DEFINE new == [handler[h] EXCEPT !.step = "UPDATE",
                                             !.manifest = @ \/ handler[h].read # {}]
        <5>1. new.step = "UPDATE"
          BY <4>1 DEF HandlerRecord
        <5>2. Step(h, "UPDATE") \/ Goes(h, new)
          BY <4>4 DEF WriteManifest
        <5> HIDE DEF new
        <5> QED
          BY <1>1, <5>1, <5>2, Goer, Stepper
      <4> QED
        BY <1>10, <3>1, <4>2, <4>3, <4>4
    <3> QED
      BY <1>2, <3>1 DEF Owes
  <2> QED
    BY <1>3, <1>4, <1>6, <1>7, <1>9, <2>1, <2>3, FileAside
<1>11. CASE FinalizeUpdates(h) /\ deletion.status = None /\ handler[h].read = {}
  <2>1. UNCHANGED <<file, build>>
    BY <1>11 DEF FinalizeUpdates, FileAfter
  <2>2. handler[h].op # "UPLOAD"
    BY <1>11 DEF FinalizeUpdates, At, FileInv, OwedInv
  <2>3. \A g \in Handler : ~Owes(g)' => ~Owes(g)
    BY <1>2, <2>2 DEF Owes
  <2> QED
    BY <1>3, <1>4, <1>6, <1>7, <1>9, <2>1, <2>3, FileAside
<1>12. CASE FinalizeUpdates(h) /\ deletion.status = None /\ handler[h].read # {}
  <2>1. file' = Pending /\ build' = Outdated /\ asset'.status \notin {None, "RECORDING"}
    BY <1>1, <1>12 DEF FinalizeUpdates, FileAfter, TypeOK, AssetRecord, None
  <2>2. file'.status = "PENDING" /\ \A w \in Worker : ~build'[w].current
    BY <1>1, <2>1 DEF Pending, Outdated, TypeOK, FileRecord, BuildRecord
  <2>3. ClaimInv' /\ WholeInv'
    BY <2>1, <2>2 DEF ClaimInv, WholeInv
  <2> QED
    BY <1>9, <2>3 DEF FileInv
<1> QED
  BY <1>10, <1>11, <1>12

LEMMA DeleteFile ==
  ASSUME Inv, FileInv, NEW h \in Handler,
         DeleteBegins(h) \/ DeleteObject(h) \/ DeleteFails(h) \/ DeleteEnds(h)
  PROVE  FileInv'
<1>1. TypeOK
  BY DEF Inv
<1>2. deletion'.status # None
  <2>1. CASE DeleteBegins(h)
    BY <1>1, <2>1 DEF DeleteBegins, TypeOK, DeletionRecord, None
  <2>2. CASE DeleteObject(h) \/ DeleteFails(h) \/ DeleteEnds(h)
    BY <2>2 DEF DeleteObject, DeleteFails, DeleteEnds, At, Inv, RolesInv, None
  <2> QED BY <2>1, <2>2
<1>3. build' = build \/ build' = Outdated
  BY DEF DeleteBegins, DeleteObject, DeleteFails, DeleteEnds
<1>4. \A w \in Worker : build'[w].current => build[w].current
  BY <1>1, <1>3 DEF Outdated, TypeOK, BuildRecord
<1>5. ClaimInv' /\ WholeInv'
  BY <1>2, <1>4 DEF FileInv, ClaimInv, WholeInv
<1>6. handler'[h].op = "UPLOAD" => handler[h].op = "UPLOAD"
  <2>1. CASE DeleteBegins(h)
    BY <1>1, <2>1, DeleteMoves
  <2>2. CASE DeleteObject(h)
    <3>1. PICK keys : Goes(h, [handler[h] EXCEPT !.keys = keys])
      BY <2>2 DEF DeleteObject
    <3>2. handler[h] \in HandlerRecord
      BY <1>1 DEF TypeOK
    <3>3. [handler[h] EXCEPT !.keys = keys].op = handler[h].op
      BY <3>2 DEF HandlerRecord
    <3> QED
      BY <1>1, <3>1, <3>3, Goer
  <2>3. CASE DeleteFails(h) \/ DeleteEnds(h)
    BY <1>1, <2>3, Idler DEF DeleteFails, DeleteEnds, None
  <2> QED BY <2>1, <2>2, <2>3
<1>7. \A g \in Handler \ {h} : handler'[g] = handler[g]
  BY <1>1, DeleteMoves
<1>8. OwedInv'
  BY <1>2, <1>6, <1>7 DEF FileInv, OwedInv
<1> QED
  BY <1>5, <1>8 DEF FileInv

LEMMA SweepFile ==
  ASSUME Inv, FileInv, SweepFinalizes \/ SweepAgain \/ SweepEnds
  PROVE  FileInv'
<1>1. TypeOK /\ "sweep" \in Handler /\ "sweep" \notin Request
  BY NotSweep DEF Inv
<1>2. UNCHANGED <<file, build, joined, objects, asset, faults>>
        /\ deletion'.status = deletion.status
  BY <1>1 DEF SweepFinalizes, SweepAgain, SweepEnds, TypeOK, DeletionRecord
<1>3. /\ \A g \in Handler \ {"sweep"} : handler'[g] = handler[g]
      /\ handler["sweep"].op # "UPLOAD"
  BY <1>1, SweepMoves DEF FileInv, OwedInv
<1>4. handler'["sweep"].op # "UPLOAD"
  BY <1>1, SweepMoves, Idler DEF SweepEnds, None
<1>5. OwedInv'
  BY <1>1, <1>2, <1>3, <1>4, OwedAside
<1>6. \A g \in Handler : ~Owes(g)' => ~Owes(g)
  BY <1>3 DEF Owes
<1> QED
  BY <1>2, <1>5, <1>6, FileAside

(* A build stores what it joined under the one key of the recording's      *)
(* files: by the build that holds the claim, the file is whole; by any     *)
(* other, it is the product of a claim that no longer stood.               *)
LEMMA BuildFile ==
  ASSUME Inv, FileInv, NEW w \in Worker,
         claimMediaFileBuild(w) \/ buildMediaFile(w) \/ putFile(w) \/ completeMediaFileBuild(w)
  PROVE  FileInv'
<1>1. TypeOK /\ build[w] \in BuildRecord
  BY DEF Inv, TypeOK
<1>2. UNCHANGED <<asset, deletion, handler>> /\ objects \subseteq objects'
  BY DEF claimMediaFileBuild, buildMediaFile, putFile, completeMediaFileBuild
<1>3. faults.uploadDied => faults'.uploadDied
  BY <1>1, FaultStays
  DEF claimMediaFileBuild, buildMediaFile, putFile, completeMediaFileBuild
<1>4. OwedInv' /\ \A g \in Handler : Owes(g)' <=> Owes(g)
  BY <1>2 DEF FileInv, OwedInv, Owes
<1>5. CASE claimMediaFileBuild(w)
  <2> DEFINE claimed == [step |-> "JOIN", read |-> asset.segments, outcome |-> None,
                         current |-> TRUE]
  <2>1. build' = [Outdated EXCEPT ![w] = claimed] /\ file'.status = "PROCESSING"
          /\ asset.status \notin {None, "RECORDING"}
    BY <1>1, <1>5 DEF claimMediaFileBuild, TypeOK, FileRecord, None
  <2>2. claimed.step = "JOIN" /\ claimed.read = asset.segments
    OBVIOUS
  <2> HIDE DEF claimed
  <2>3. build'[w] = claimed /\ \A v \in Worker \ {w} : ~build'[v].current
    BY <1>1, <2>1 DEF Outdated, TypeOK, BuildRecord
  <2>4. ClaimInv'
    BY <1>2, <2>1, <2>3 DEF ClaimInv
  <2>5. WholeInv'
    BY <1>2, <2>1, <2>2, <2>3 DEF WholeInv
  <2> QED
    BY <1>4, <2>4, <2>5 DEF FileInv
<1>6. ASSUME NEW step, NEW o, Builds(w, step, o)
      PROVE  /\ build'[w].step = step /\ build'[w].outcome = o
             /\ build'[w].read = build[w].read /\ build'[w].current = build[w].current
             /\ \A v \in Worker \ {w} : build'[v] = build[v]
  BY <1>1, <1>6 DEF Builds, TypeOK, BuildRecord
<1>7. CASE buildMediaFile(w)
  <2>1. UNCHANGED <<file, objects, joined>>
    BY <1>7 DEF buildMediaFile
  <2>2. /\ build'[w].outcome # "READY"
        /\ build'[w].read = build[w].read /\ build'[w].current = build[w].current
        /\ \A v \in Worker \ {w} : build'[v] = build[v]
    BY <1>6, <1>7 DEF buildMediaFile, None
  <2>3. ClaimInv'
    BY <1>2, <2>1, <2>2 DEF FileInv, ClaimInv
  <2>4. WholeInv'
    BY <1>2, <1>3, <1>4, <2>1, <2>2 DEF FileInv, WholeInv, Whole, mediaParts
  <2> QED
    BY <1>4, <2>3, <2>4 DEF FileInv
<1>8. CASE putFile(w)
  <2>1. file' = file
    BY <1>8 DEF putFile
  <2>2. /\ build'[w].read = build[w].read /\ build'[w].current = build[w].current
        /\ \A v \in Worker \ {w} : build'[v] = build[v]
    BY <1>6, <1>8 DEF putFile
  <2>3. ClaimInv'
    BY <1>2, <2>1, <2>2 DEF FileInv, ClaimInv
  <2>4. CASE Builds(w, "RECORD", "FAILED") /\ UNCHANGED <<objects, joined>>
    <3>1. build'[w].outcome # "READY"
      BY <1>6, <2>4
    <3>2. WholeInv'
      BY <1>2, <1>3, <1>4, <2>1, <2>2, <2>4, <3>1 DEF FileInv, WholeInv, Whole, mediaParts
    <3> QED
      BY <1>4, <2>3, <3>2 DEF FileInv
  <2>5. CASE /\ Builds(w, "RECORD", "READY")
             /\ objects' = objects \cup {FileKey}
             /\ joined' = [of |-> mediaParts(build[w].read), claimed |-> build[w].current]
    <3>1. FileKey \in objects' /\ joined'.of = mediaParts(build[w].read)
            /\ joined'.claimed = build[w].current
      BY <2>5
    <3>2. CASE build[w].current
      <4>1. ASSUME deletion'.status = None, ~faults'.uploadDied, \A g \in Handler : ~Owes(g)'
            PROVE  build[w].read = asset.segments /\ file.status = "PROCESSING"
        BY <1>2, <1>3, <1>4, <3>2, <4>1 DEF FileInv, ClaimInv, WholeInv
      <4>2. \A v \in Worker \ {w} : ~build'[v].current
        BY <2>2, <3>2 DEF FileInv, ClaimInv
      <4>3. build[w].read = asset.segments => Whole'
        BY <1>2, <3>1 DEF Whole, mediaParts
      <4>4. WholeInv'
        BY <1>2, <2>1, <2>2, <4>1, <4>2, <4>3 DEF WholeInv
      <4> QED
        BY <1>4, <2>3, <4>4 DEF FileInv
    <3>3. CASE ~build[w].current
      <4>1. Whole'
        BY <3>1, <3>3 DEF Whole
      <4>2. WholeInv'
        BY <1>2, <1>3, <1>4, <2>1, <2>2, <3>3, <4>1 DEF FileInv, WholeInv
      <4> QED
        BY <1>4, <2>3, <4>2 DEF FileInv
    <3> QED BY <3>2, <3>3
  <2> QED
    BY <1>8, <2>4, <2>5 DEF putFile
<1>9. CASE completeMediaFileBuild(w)
  <2>1. UNCHANGED <<objects, joined>> /\ ~build'[w].current
          /\ \A v \in Worker \ {w} : build'[v] = build[v]
    BY <1>1, <1>9 DEF completeMediaFileBuild, NoBuild, TypeOK
  <2>2. CASE file' = file
    <3>1. ClaimInv' /\ WholeInv'
      BY <1>2, <1>3, <1>4, <2>1, <2>2 DEF FileInv, ClaimInv, WholeInv, Whole, mediaParts
    <3> QED
      BY <1>4, <3>1 DEF FileInv
  <2>3. CASE file' # file
    <3>1. /\ build[w].current /\ build[w].step = "RECORD" /\ deletion.status = None
          /\ file.status = "PROCESSING"
          /\ file'.status = "READY" => build[w].outcome = "READY"
      BY <1>1, <1>9, <2>3 DEF completeMediaFileBuild, TypeOK, FileRecord
    <3>2. \A v \in Worker : ~build'[v].current
      BY <2>1, <3>1 DEF FileInv, ClaimInv
    <3>3. asset.status \notin {None, "RECORDING"}
      BY <3>1 DEF FileInv, ClaimInv, None
    <3>4. ClaimInv'
      BY <1>2, <3>2, <3>3 DEF ClaimInv
    <3>5. WholeInv'
      BY <1>2, <1>3, <1>4, <2>1, <3>1, <3>2 DEF FileInv, WholeInv, Whole, mediaParts
    <3> QED
      BY <1>4, <3>4, <3>5 DEF FileInv
  <2> QED BY <2>2, <2>3
<1> QED
  BY <1>5, <1>7, <1>8, <1>9

LEMMA RequeueFile ==
  ASSUME Inv, FileInv, requestMediaFileRebuild \/ requeueUnavailableMediaFiles
  PROVE  FileInv'
<1>1. PICK from \in SUBSET {"READY", "FAILED", "UNAVAILABLE"} : Requeue(from)
  BY DEF requestMediaFileRebuild, requeueUnavailableMediaFiles
<1>2. /\ UNCHANGED <<asset, deletion, objects, joined, handler, build, faults>>
      /\ deletion.status = None /\ asset.status \notin {None, "RECORDING"}
      /\ file.status # "PROCESSING"
  BY <1>1 DEF Requeue, None
<1>3. file'.status = "PENDING"
  BY <1>1 DEF Requeue, Pending, Inv, TypeOK, FileRecord
<1>4. \A w \in Worker : ~build'[w].current
  BY <1>2 DEF FileInv, ClaimInv
<1>5. ClaimInv' /\ WholeInv'
  BY <1>2, <1>3, <1>4 DEF ClaimInv, WholeInv
<1>6. OwedInv'
  BY <1>2 DEF FileInv, OwedInv
<1> QED
  BY <1>5, <1>6 DEF FileInv

LEMMA CrashFile ==
  ASSUME Inv, FileInv, (\E h \in Request : RequestDies(h)) \/ WorkerDies
  PROVE  FileInv'
<1>1. TypeOK
  BY DEF Inv
<1>2. UNCHANGED <<asset, file, deletion, objects, joined>>
  BY DEF RequestDies, WorkerDies
<1>3. faults.uploadDied => faults'.uploadDied
  BY <1>1, FaultStays DEF RequestDies, WorkerDies
<1>4. ASSUME NEW h \in Request, RequestDies(h)
      PROVE  FileInv'
  <2>1. h \in Handler /\ handler'[h].op = None
          /\ \A g \in Handler \ {h} : handler'[g] = handler[g]
    BY <1>1, <1>4, NotSweep, Idler DEF RequestDies
  <2>2. OwedInv'
    BY <1>2, <2>1, OwedAside DEF None
  <2>3. Owes(h) => faults'.uploadDied
    BY <1>1, <1>4, FaultStays DEF RequestDies, Owes, At
  <2>4. ~faults'.uploadDied => \A g \in Handler : ~Owes(g)' => ~Owes(g)
    BY <2>1, <2>3 DEF Owes
  <2>5. build' = build
    BY <1>4 DEF RequestDies
  <2> QED
    BY <1>2, <1>3, <2>2, <2>4, <2>5, FileAside
<1>5. ASSUME WorkerDies
      PROVE  FileInv'
  <2>1. "sweep" \in Handler /\ "sweep" \notin Request /\ handler'["sweep"].op = None
          /\ \A g \in Handler \ {"sweep"} : handler'[g] = handler[g]
    BY <1>1, <1>5, NotSweep, Idler DEF WorkerDies
  <2>2. OwedInv'
    BY <1>2, <2>1, OwedAside DEF None
  <2>3. \A g \in Handler : ~Owes(g)' => ~Owes(g)
    BY <2>1 DEF Owes, FileInv, OwedInv
  <2>4. \A w \in Worker : ~build'[w].current
    BY <1>5 DEF WorkerDies, NoBuild
  <2>5. ClaimInv' /\ WholeInv'
    BY <1>2, <1>3, <2>3, <2>4 DEF FileInv, ClaimInv, WholeInv, Whole, mediaParts
  <2> QED
    BY <2>2, <2>5 DEF FileInv
<1> QED
  BY <1>4, <1>5

LEMMA StaysFile == Inv /\ FileInv /\ [Next]_vars => FileInv'
<1> SUFFICES ASSUME Inv, FileInv, [Next]_vars PROVE FileInv'
  OBVIOUS
<1> QED
  BY BrowserFile, PumpFile, UploadFile, NoteFile, FinalizeFile, DeleteFile, SweepFile, BuildFile,
     RequeueFile, CrashFile DEF Next, Serves

LEMMA InitFile == Init => FileInv
<1> SUFFICES ASSUME Init PROVE FileInv
  OBVIOUS
<1>1. \A h \in Handler : handler[h].op = None
  BY DEF Init, Idle
<1>2. \A w \in Worker : ~build[w].current
  BY DEF Init, NoBuild
<1>3. file.status = None
  BY DEF Init
<1> QED
  BY <1>1, <1>2, <1>3 DEF FileInv, ClaimInv, OwedInv, WholeInv, None

(* However builds, finalizes and late uploads interleave, and whichever of *)
(* them fails, with any number of builders: a READY file is in storage,    *)
(* and it joins every playable segment of the record unless a build that   *)
(* had lost its claim has written over it (media-file.ts:153).             *)
THEOREM FileIsWholeAlways == Spec => []FileIsWhole
<1>1. Inv /\ FileInv => FileIsWhole
  <2> SUFFICES ASSUME Inv, FileInv, file.status = "READY", ~\E h \in Request : Late(h),
                      ~faults.uploadDied, deletion.status = None
               PROVE  Whole
    BY DEF FileIsWhole, Whole
  <2>1. \A h \in Handler : ~Owes(h)
    BY DEF FileInv, OwedInv, Owes, Late, At
  <2> QED
    BY <2>1 DEF FileInv, WholeInv
<1> QED
  BY <1>1, InitKept, StaysKept, InitFile, StaysFile, PTL DEF Spec
=============================================================================
