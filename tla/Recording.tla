------------------------------ MODULE Recording ------------------------------
(***************************************************************************)
(* The recording of one video interview: the browser's upload queue, the   *)
(* requests that store, finalize and delete, and the worker's sweep and    *)
(* file builds, over one record (a mediaAsset) and the objects in storage. *)
(*                                                                         *)
(* The record changes by one conditional update at a time; a write to      *)
(* storage comes before the update that records it, so what happens in     *)
(* between is up to the others.  Storage is external: an object is there   *)
(* or not; of the joined file also what it was joined from.                *)
(***************************************************************************)
EXTENDS Integers, FiniteSets, FiniteSetsExt

CONSTANTS
  Segments,     \* bound: how many segments the browser records
  PartOf,       \* PartOf[i]: the recorder that produces segment i
  Request,      \* requests the API serves at a time
  Worker,       \* processes that build joined files
  MaxAttempts,  \* MEDIA_FILE_MAX_ATTEMPTS
  MaxFaults,    \* bound: how many things go wrong
  Faults        \* which of FaultKind may go wrong

Segment == 0..(Segments - 1)

FaultKind == {
  "DROPPED",      \* the browser's connection drops while its request goes on
  "STORAGE",      \* a call of the storage, or of ffmpeg, fails
  "NO_FFMPEG",    \* ffmpeg is not installed
  "UPLOAD_DIES",  \* a replica dies with an upload it has stored an object for
  "CRASH"}        \* a replica dies with another request, or the worker dies

ASSUME RecordingAssumption ==
  /\ Segments \in Nat \ {0}
  /\ PartOf \in [Segment -> Nat]
  /\ {"sweep", "NONE"} \cap Request = {}
  /\ MaxAttempts \in Nat \ {0}
  /\ MaxFaults \in Nat
  /\ Faults \subseteq FaultKind

VARIABLES
  session,    \* the interview: live, ended less than uploadGraceMs ago, or longer
  queue,      \* the browser's SegmentUploadQueue
  asset,      \* the record without the two parts that follow
  file,       \* its playbackFile
  deletion,   \* its deletion
  objects,    \* the keys that exist in storage
  joined,     \* what the stored joined file was made of, by a claim that stood or not
  handler,    \* the API's requests and the worker's sweep
  build,      \* the file builds
  faults      \* how many things have gone wrong, and whether an upload has died

vars == <<session, queue, asset, file, deletion, objects, joined, handler, build, faults>>

None == "NONE"

(* Keys of storage, numbered in the order in which a delete takes them.    *)
SegmentKey(i) == i
ManifestKey == Segments
FileKey == Segments + 1

Unknown == -1                \* expectedSegments: null
Handler == Request \cup {"sweep"}

Idle == [step |-> "IDLE", op |-> None, idx |-> 0, count |-> Unknown, read |-> {},
         keys |-> {}, all |-> {}, manifest |-> FALSE, fresh |-> FALSE]
NoBuild == [step |-> "IDLE", read |-> {}, outcome |-> None, current |-> FALSE]

Init ==
  /\ session = "LIVE"
  /\ queue = [recorded |-> 0, pending |-> {}, dropped |-> {}, ended |-> FALSE,
              waiting |-> None, open |-> TRUE]
  /\ asset = [status |-> None, segments |-> {}, expected |-> Unknown, manifest |-> FALSE]
  /\ file = [status |-> None, attempts |-> 0]
  /\ deletion = [status |-> None, keys |-> {}, sweepAfter |-> FALSE]
  /\ objects = {}
  /\ joined = [of |-> {}, claimed |-> TRUE]
  /\ handler = [h \in Handler |-> Idle]
  /\ build = [w \in Worker |-> NoBuild]
  /\ faults = [count |-> 0, uploadDied |-> FALSE]

Fault(k) ==
  /\ k \in Faults
  /\ faults.count < MaxFaults
  /\ faults' = [count |-> faults.count + 1, uploadDied |-> faults.uploadDied \/ k = "UPLOAD_DIES"]

At(h, step) == handler[h].step = step
Goes(h, new) == handler' = [handler EXCEPT ![h] = new]
Step(h, step) == Goes(h, [handler[h] EXCEPT !.step = step])

(* The parts that can be played: the browser starts each with a header, so *)
(* a part without its first segment is skipped.                            *)
mediaParts(segs) ==
  {i \in segs : Min({j \in Segment : PartOf[j] = PartOf[i]}) \in segs}

-------------------------------------------------------------------------------
(* The browser                                                             *)

Record ==
  /\ session = "LIVE"
  /\ queue.open /\ ~queue.ended
  /\ queue.recorded < Segments
  /\ queue' = [queue EXCEPT !.recorded = @ + 1, !.pending = @ \cup {queue.recorded}]
  /\ UNCHANGED <<session, asset, file, deletion, objects, joined, handler, build, faults>>

(* The interview is over, or goes on without video. *)
finish ==
  /\ queue.open /\ ~queue.ended
  /\ queue.recorded > 0
  /\ queue' = [queue EXCEPT !.ended = TRUE]
  /\ UNCHANGED <<session, asset, file, deletion, objects, joined, handler, build, faults>>

(* One segment at a time in index order, and after the last the finalize. *)
pump(h) ==
  /\ h \in Request
  /\ At(h, "IDLE")
  /\ queue.open /\ queue.waiting = None
  /\ queue.pending # {} \/ queue.ended
  /\ queue' = [queue EXCEPT !.waiting = h]
  /\ Goes(h, IF queue.pending # {}
               THEN [Idle EXCEPT !.step = "UPLOAD", !.op = "UPLOAD", !.idx = Min(queue.pending)]
               ELSE [Idle EXCEPT !.step = "FINALIZE", !.op = "FINALIZE", !.count = queue.recorded])
  /\ UNCHANGED <<session, asset, file, deletion, objects, joined, build, faults>>

(* What the browser makes of the answer. *)
Heard(outcome, op, idx) ==
  LET closes == outcome # "retry" /\ (op = "FINALIZE" \/ outcome = "stop")
      handled == IF op # "UPLOAD" THEN {}
                 ELSE IF outcome = "stop" THEN queue.pending
                 ELSE IF outcome \in {"drop", "done"} THEN {idx} ELSE {}
  IN [queue EXCEPT !.waiting = None,
                   !.open = @ /\ ~closes,
                   !.pending = @ \ handled,
                   !.dropped = @ \cup (IF outcome = "drop" THEN {idx} ELSE {})]

(* A handler ends; the browser hears of it if it still waits. *)
Answers(h, outcome) ==
  /\ Goes(h, Idle)
  /\ queue' = IF queue.waiting = h THEN Heard(outcome, handler[h].op, handler[h].idx) ELSE queue

ConnectionDrops ==
  /\ queue.waiting # None
  /\ Fault("DROPPED")
  /\ queue' = [queue EXCEPT !.waiting = None]
  /\ UNCHANGED <<session, asset, file, deletion, objects, joined, handler, build>>

TabCloses ==
  /\ queue.open
  /\ queue' = [queue EXCEPT !.open = FALSE, !.waiting = None]
  /\ UNCHANGED <<session, asset, file, deletion, objects, joined, handler, build, faults>>

(* Time: the interview ends, then the grace period. *)
Ends ==
  /\ session # "OVER"
  /\ session' = IF session = "LIVE" THEN "GRACE" ELSE "OVER"
  /\ UNCHANGED <<queue, asset, file, deletion, objects, joined, handler, build, faults>>

-------------------------------------------------------------------------------
(* uploadSegment                                                           *)

(* The record as the upload's upsert leaves it. *)
Upserted == [asset EXCEPT !.status = IF @ = None THEN "RECORDING" ELSE @]

uploadSegment(h) ==
  /\ At(h, "UPLOAD")
  /\ \/ /\ session = "OVER"
        /\ Answers(h, "stop")
        /\ UNCHANGED asset
     \/ /\ session # "OVER"
        /\ asset' = Upserted
        /\ \/ deletion.status # None /\ Answers(h, "stop")
           \/ deletion.status = None /\ handler[h].idx \in asset.segments /\ Answers(h, "done")
           \/ deletion.status = None /\ handler[h].idx \notin asset.segments
              /\ \/ Step(h, "STORE") /\ UNCHANGED queue
                 \/ Answers(h, "drop")    \* too large
  /\ UNCHANGED <<session, file, deletion, objects, joined, build, faults>>

StoreSegment(h) ==
  /\ At(h, "STORE")
  /\ \/ /\ objects' = objects \cup {SegmentKey(handler[h].idx)}
        /\ Step(h, "ATTACH")
        /\ UNCHANGED <<queue, faults>>
     \/ /\ Fault("STORAGE")
        /\ Answers(h, "retry")
        /\ UNCHANGED objects
  /\ UNCHANGED <<session, asset, file, deletion, joined, build>>

Attaches(h) == handler[h].idx \notin asset.segments /\ deletion.status = None

(* Mutant: an upload that could not attach its segment removes it, also    *)
(* when another request has attached it.                                   *)
Undoes_Always(h) == ~Attaches(h)

Undoes(h) == ~Attaches(h) /\ deletion.status # None

Attach(h) ==
  /\ At(h, "ATTACH")
  /\ \/ /\ Attaches(h)
        /\ asset' = [asset EXCEPT !.segments = @ \cup {handler[h].idx}]
        /\ IF asset.status = "RECORDING"
             THEN Answers(h, "done")
             ELSE Step(h, "LATE") /\ UNCHANGED queue
     \/ /\ Undoes(h)
        /\ Step(h, "UNDO")
        /\ UNCHANGED <<queue, asset>>
     \/ /\ ~Attaches(h) /\ ~Undoes(h)      \* a retry was faster
        /\ Answers(h, "done")
        /\ UNCHANGED asset
  /\ UNCHANGED <<session, file, deletion, objects, joined, build, faults>>

(* Deleted while the segment was being stored. *)
UndoUpload(h) ==
  /\ At(h, "UNDO")
  /\ \/ /\ objects' = objects \ {SegmentKey(handler[h].idx)}
        /\ Answers(h, "stop")
        /\ UNCHANGED faults
     \/ /\ Fault("STORAGE")
        /\ Step(h, "NOTE")
        /\ UNCHANGED <<queue, objects>>
  /\ UNCHANGED <<session, asset, file, deletion, joined, build>>

(* A sweep under way finds that sweepAfter has moved. *)
noteOrphanedMediaKey(h) ==
  /\ At(h, "NOTE")
  /\ deletion' = [deletion EXCEPT !.keys = @ \cup {SegmentKey(handler[h].idx)},
                                  !.sweepAfter = TRUE]
  /\ handler' = [handler EXCEPT ![h] = Idle, !["sweep"].fresh = FALSE]
  /\ queue' = IF queue.waiting = h THEN Heard("stop", "UPLOAD", handler[h].idx) ELSE queue
  /\ UNCHANGED <<session, asset, file, objects, joined, build, faults>>

-------------------------------------------------------------------------------
(* finalizeMediaAsset: read, write the manifest, update                    *)

(* The browser's finalize makes a record if every upload failed. *)
finalize(h) ==
  /\ At(h, "FINALIZE")
  /\ asset' = IF asset.status = None THEN Upserted ELSE asset
  /\ Step(h, "LATE")
  /\ UNCHANGED <<session, queue, file, deletion, objects, joined, build, faults>>

FinalizeReads(h) ==
  /\ At(h, "LATE")
  /\ IF deletion.status # None
       THEN Answers(h, "done")
       ELSE /\ Goes(h, [handler[h] EXCEPT
                          !.step = "MANIFEST", !.read = asset.segments, !.manifest = asset.manifest,
                          !.count = IF @ # Unknown THEN @
                                    ELSE IF asset.expected # Unknown THEN asset.expected
                                    ELSE IF asset.segments = {} THEN 0
                                    ELSE Max(asset.segments) + 1])
            /\ UNCHANGED queue
  /\ UNCHANGED <<session, asset, file, deletion, objects, joined, build, faults>>

WriteManifest(h) ==
  /\ At(h, "MANIFEST")
  /\ \/ /\ objects' = IF handler[h].read = {} THEN objects ELSE objects \cup {ManifestKey}
        /\ Goes(h, [handler[h] EXCEPT !.step = "UPDATE", !.manifest = @ \/ handler[h].read # {}])
        /\ UNCHANGED faults
     \/ /\ handler[h].read # {}
        /\ Fault("STORAGE")
        /\ Step(h, "UPDATE")
        /\ UNCHANGED objects
  /\ UNCHANGED <<session, queue, asset, file, deletion, joined, build>>

Outdated == [w \in Worker |-> [build[w] EXCEPT !.current = FALSE]]
Pending == [file EXCEPT !.status = "PENDING", !.attempts = 0]

(* Mutant: a file that is READY is not built again. *)
FileAfter_KeepsReady(h) ==
  IF handler[h].read = {} \/ file.status = "READY" THEN file ELSE Pending

(* What a finalize that read some segments makes of the joined file. *)
FileAfter(h) == IF handler[h].read = {} THEN file ELSE Pending

FinalizeUpdates(h) ==
  /\ At(h, "UPDATE")
  /\ IF deletion.status = None
       THEN /\ asset' = [asset EXCEPT
                !.status = IF handler[h].read = {} THEN "FAILED"
                           ELSE IF 0..(handler[h].count - 1) \subseteq handler[h].read
                                THEN "COMPLETE" ELSE "PARTIAL",
                !.expected = handler[h].count,
                !.manifest = handler[h].manifest]
            /\ file' = FileAfter(h)
            /\ build' = IF handler[h].read = {} THEN build ELSE Outdated
       ELSE UNCHANGED <<asset, file, build>>
  /\ Answers(h, "done")
  /\ UNCHANGED <<session, deletion, objects, joined, faults>>

-------------------------------------------------------------------------------
(* deleteMediaAsset: mark, delete what the record names, mark again        *)

DeleteBegins(h) ==
  /\ At(h, "IDLE")
  /\ asset.status # None
  /\ \/ h \in Request /\ deletion.status \in {None, "DELETING"}
     \/ h = "sweep" /\ deletion.status = None /\ session = "OVER"     \* retention ended
     \/ h = "sweep" /\ deletion.status = "DELETING"
        /\ \A r \in Request : handler[r].op # "DELETE"                \* stopped half-way
  /\ deletion' = [deletion EXCEPT !.status = "DELETING"]
  /\ LET keys == {SegmentKey(i) : i \in asset.segments}
                   \cup (IF asset.manifest THEN {ManifestKey} ELSE {})
                   \cup {FileKey} \cup deletion.keys IN
     Goes(h, [Idle EXCEPT !.step = "DELETE", !.op = "DELETE", !.keys = keys, !.all = keys])
  /\ UNCHANGED <<session, queue, asset, file, objects, joined, build, faults>>

DeleteObject(h) ==
  /\ At(h, "DELETE")
  /\ handler[h].keys # {}
  /\ LET k == Min(handler[h].keys) IN
       /\ objects' = objects \ {k}
       /\ Goes(h, [handler[h] EXCEPT !.keys = @ \ {k}])
  /\ UNCHANGED <<session, queue, asset, file, deletion, joined, build, faults>>

DeleteFails(h) ==
  /\ At(h, "DELETE")
  /\ handler[h].keys # {}
  /\ Fault("STORAGE")
  /\ Goes(h, Idle)
  /\ UNCHANGED <<session, queue, asset, file, deletion, objects, joined, build>>

(* Mutant: the keys of this delete replace those noted meanwhile. *)
KeysKept_Replaced(h) == handler[h].all

KeysKept(h) == deletion.keys \cup handler[h].all

DeleteEnds(h) ==
  /\ At(h, "DELETE") /\ handler[h].op = "DELETE"
  /\ handler[h].keys = {}
  /\ IF deletion.status = "DELETING"
       THEN /\ asset' = [asset EXCEPT !.segments = {}, !.manifest = FALSE]
            /\ file' = [status |-> None, attempts |-> 0]
            /\ build' = Outdated
            /\ deletion' = [status |-> "DELETED", keys |-> KeysKept(h),
                            sweepAfter |-> TRUE]
       ELSE UNCHANGED <<asset, file, build, deletion>>
  /\ Goes(h, Idle)
  /\ UNCHANGED <<session, queue, objects, joined, faults>>

-------------------------------------------------------------------------------
(* sweepMedia                                                              *)

(* Nobody has touched the record for longer than a request takes. *)
SweepFinalizes ==
  /\ At("sweep", "IDLE")
  /\ \A h \in Request : At(h, "IDLE")
  /\ asset.status = "RECORDING"
  /\ deletion.status = None
  /\ session # "LIVE"
  /\ Goes("sweep", [Idle EXCEPT !.step = "LATE", !.op = "FINALIZE"])
  /\ UNCHANGED <<session, queue, asset, file, deletion, objects, joined, build, faults>>

(* Once more, when every upload and build of the time of the delete has    *)
(* written its object: both take less than MEDIA_DELETE_SWEEP_DELAY_MS.    *)
SweepAgain ==
  /\ At("sweep", "IDLE")
  /\ deletion.status = "DELETED" /\ deletion.sweepAfter
  /\ \A h \in Request : ~At(h, "STORE")
  /\ \A w \in Worker : build[w].step \notin {"JOIN", "PUT"}
  /\ Goes("sweep", [Idle EXCEPT !.step = "DELETE", !.op = "SWEEP", !.keys = deletion.keys,
                                !.fresh = TRUE])
  /\ UNCHANGED <<session, queue, asset, file, deletion, objects, joined, build, faults>>

SweepEnds ==
  /\ At("sweep", "DELETE") /\ handler["sweep"].op = "SWEEP"
  /\ handler["sweep"].keys = {}
  /\ deletion' = [deletion EXCEPT !.sweepAfter = @ /\ ~handler["sweep"].fresh]
  /\ Goes("sweep", Idle)
  /\ UNCHANGED <<session, queue, asset, file, objects, joined, build, faults>>

-------------------------------------------------------------------------------
(* The joined file                                                         *)

claimMediaFileBuild(w) ==
  /\ build[w].step = "IDLE"
  /\ deletion.status = None
  /\ asset.status \in {"COMPLETE", "PARTIAL"}
  /\ \/ file.status = "PENDING"
     \/ file.status = "PROCESSING" /\ \A v \in Worker : ~build[v].current   \* crashed
  /\ file' = [file EXCEPT !.status = "PROCESSING", !.attempts = @ + 1]
  /\ build' = [Outdated EXCEPT ![w] = [step |-> "JOIN", read |-> asset.segments,
                                       outcome |-> None, current |-> TRUE]]
  /\ UNCHANGED <<session, queue, asset, deletion, objects, joined, handler, faults>>

Builds(w, step, outcome) ==
  build' = [build EXCEPT ![w] = [@ EXCEPT !.step = step, !.outcome = outcome]]

buildMediaFile(w) ==
  /\ build[w].step = "JOIN"
  /\ LET parts == mediaParts(build[w].read) IN
     \/ /\ parts # {} /\ {SegmentKey(i) : i \in parts} \subseteq objects
        /\ Builds(w, "PUT", None)
        /\ UNCHANGED faults
     \/ /\ parts = {} \/ ~({SegmentKey(i) : i \in parts} \subseteq objects)
        /\ Builds(w, "RECORD", "FAILED")
        /\ UNCHANGED faults
     \/ Fault("STORAGE") /\ Builds(w, "RECORD", "FAILED")
     \/ Fault("NO_FFMPEG") /\ Builds(w, "RECORD", "UNAVAILABLE")
  /\ UNCHANGED <<session, queue, asset, file, deletion, objects, joined, handler>>

putFile(w) ==
  /\ build[w].step = "PUT"
  /\ \/ /\ objects' = objects \cup {FileKey}
        /\ joined' = [of |-> mediaParts(build[w].read), claimed |-> build[w].current]
        /\ Builds(w, "RECORD", "READY")
        /\ UNCHANGED faults
     \/ /\ Fault("STORAGE")
        /\ Builds(w, "RECORD", "FAILED")
        /\ UNCHANGED <<objects, joined>>
  /\ UNCHANGED <<session, queue, asset, file, deletion, handler>>

completeMediaFileBuild(w) ==
  /\ build[w].step = "RECORD"
  /\ LET b == build[w]
         retry == b.outcome = "FAILED" /\ file.attempts < MaxAttempts IN
     IF deletion.status = None /\ file.status = "PROCESSING" /\ b.current
       THEN file' = [file EXCEPT !.status = IF retry THEN "PENDING" ELSE b.outcome]
       ELSE UNCHANGED file
  /\ build' = [build EXCEPT ![w] = NoBuild]
  /\ UNCHANGED <<session, queue, asset, deletion, objects, joined, handler, faults>>

(* An admin's rebuild; ffmpeg is found again. *)
Requeue(from) ==
  /\ deletion.status = None
  /\ asset.status \in {"COMPLETE", "PARTIAL"}
  /\ file.status \in from
  /\ file' = Pending
  /\ UNCHANGED <<session, queue, asset, deletion, objects, joined, handler, build, faults>>

requestMediaFileRebuild == Requeue({"READY", "FAILED", "UNAVAILABLE"})
requeueUnavailableMediaFiles == Requeue({"UNAVAILABLE"})

-------------------------------------------------------------------------------
(* Crashes                                                                 *)

RequestDies(h) ==
  /\ h \in Request
  /\ ~At(h, "IDLE")
  /\ IF handler[h].op = "UPLOAD" /\ ~At(h, "UPLOAD") /\ ~At(h, "STORE")
       THEN Fault("UPLOAD_DIES") ELSE Fault("CRASH")
  /\ Goes(h, Idle)
  /\ queue' = IF queue.waiting = h THEN [queue EXCEPT !.waiting = None] ELSE queue
  /\ UNCHANGED <<session, asset, file, deletion, objects, joined, build>>

WorkerDies ==
  /\ ~At("sweep", "IDLE") \/ \E w \in Worker : build[w].step # "IDLE"
  /\ Fault("CRASH")
  /\ Goes("sweep", Idle)
  /\ build' = [w \in Worker |-> NoBuild]
  /\ UNCHANGED <<session, queue, asset, file, deletion, objects, joined>>

Serves(h) ==
  \/ uploadSegment(h) \/ StoreSegment(h) \/ Attach(h) \/ UndoUpload(h)
  \/ noteOrphanedMediaKey(h)
  \/ finalize(h) \/ FinalizeReads(h) \/ WriteManifest(h) \/ FinalizeUpdates(h)
  \/ DeleteBegins(h) \/ DeleteObject(h) \/ DeleteFails(h) \/ DeleteEnds(h)

Next ==
  \/ Record \/ finish \/ ConnectionDrops \/ TabCloses \/ Ends
  \/ \E h \in Request : pump(h) \/ RequestDies(h)
  \/ \E h \in Handler : Serves(h)
  \/ SweepFinalizes \/ SweepAgain \/ SweepEnds
  \/ \E w \in Worker :
       claimMediaFileBuild(w) \/ buildMediaFile(w) \/ putFile(w) \/ completeMediaFileBuild(w)
  \/ requestMediaFileRebuild \/ requeueUnavailableMediaFiles
  \/ WorkerDies

Spec == Init /\ [][Next]_vars

-------------------------------------------------------------------------------
(* Properties                                                              *)

Key == 0..(Segments + 1)
Count == {Unknown} \cup 0..Segments

QueueRecord ==
  [recorded: 0..Segments, pending: SUBSET Segment, dropped: SUBSET Segment,
   ended: BOOLEAN, waiting: Request \cup {None}, open: BOOLEAN]
AssetRecord ==
  [status: {None, "RECORDING", "COMPLETE", "PARTIAL", "FAILED"},
   segments: SUBSET Segment, expected: Count, manifest: BOOLEAN]
FileRecord ==
  [status: {None, "PENDING", "PROCESSING", "READY", "FAILED", "UNAVAILABLE"}, attempts: Nat]
DeletionRecord ==
  [status: {None, "DELETING", "DELETED"}, keys: SUBSET Key, sweepAfter: BOOLEAN]
HandlerRecord ==
  [step: {"IDLE", "UPLOAD", "STORE", "ATTACH", "UNDO", "NOTE", "FINALIZE", "LATE",
          "MANIFEST", "UPDATE", "DELETE"},
   op: {None, "UPLOAD", "FINALIZE", "DELETE", "SWEEP"}, idx: Segment, count: Count,
   read: SUBSET Segment, keys: SUBSET Key, all: SUBSET Key, manifest: BOOLEAN, fresh: BOOLEAN]
BuildRecord ==
  [step: {"IDLE", "JOIN", "PUT", "RECORD"}, read: SUBSET Segment,
   outcome: {None, "READY", "FAILED", "UNAVAILABLE"}, current: BOOLEAN]

TypeOK ==
  /\ session \in {"LIVE", "GRACE", "OVER"}
  /\ queue \in QueueRecord
  /\ asset \in AssetRecord
  /\ file \in FileRecord
  /\ deletion \in DeletionRecord
  /\ objects \subseteq Key
  /\ joined \in [of: SUBSET Segment, claimed: BOOLEAN]
  /\ handler \in [Handler -> HandlerRecord]
  /\ build \in [Worker -> BuildRecord]
  /\ faults \in [count: 0..MaxFaults, uploadDied: BOOLEAN]

(* Uploads that still have to attach their segment, or to remove it.       *)
Uploading == \E h \in Request : handler[h].step \in {"ATTACH", "UNDO", "NOTE"}

(* "A delete runs in this order, so no object is left unreferenced"        *)
(* (media-and-consent.md:98): once a recording is deleted and swept again, *)
(* no segment and no joined file is in storage, whatever was being         *)
(* uploaded, finalized or built when the delete began and whoever died     *)
(* while deleting.                                                         *)
NoMediaLeft ==
  (/\ deletion.status = "DELETED" /\ ~deletion.sweepAfter
   /\ ~Uploading
   /\ ~faults.uploadDied)
    => objects \subseteq {ManifestKey}

(* A segment the browser has forgotten is on the record and in storage:    *)
(* retries, dropped connections and crashes lose none.                     *)
NothingIsLost ==
  deletion.status = None =>
    \A i \in 0..(queue.recorded - 1) :
      \/ i \in queue.pending \cup queue.dropped
      \/ i \in asset.segments /\ SegmentKey(i) \in objects
      \/ session = "OVER"      \* uploads are closed

(* An upload has attached its segment and has still to have it joined.     *)
Late(h) == handler[h].op = "UPLOAD" /\ ~At(h, "UPLOAD") /\ ~At(h, "STORE")

(* The file marked READY is there and joins every playable segment on the  *)
(* record, except while a late segment is about to have it built again.    *)
(* A build stores the file under a key all builds share before it looks    *)
(* whether its claim still stands: one that had lost it may have written   *)
(* over the file of the next (media-file.ts:153, media.ts:278).            *)
FileIsWhole ==
  (/\ file.status = "READY"
   /\ ~\E h \in Request : Late(h)
   /\ ~faults.uploadDied
   /\ deletion.status = None)
    => FileKey \in objects /\ (joined.claimed => joined.of = mediaParts(asset.segments))
===============================================================================
