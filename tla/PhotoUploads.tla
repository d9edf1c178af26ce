---------------------------- MODULE PhotoUploads ----------------------------
(***************************************************************************)
(* Photo uploads: media.Service Reserve and Complete, the photo.process    *)
(* handler, the hourly photo.cleanup handler and the chain of its jobs,    *)
(* over the statements of queries/photos.sql and the object store.         *)
(*                                                                         *)
(* The database and the object store share no transaction: every row       *)
(* statement and every object call is a step of its own.  The client's PUT *)
(* goes straight to the object store, at any time until its presigned URL  *)
(* runs out.                                                               *)
(***************************************************************************)
EXTENDS Naturals, FiniteSets

CONSTANTS
  Photos,       \* photo ids, each made by one insert of Reserve
  Requests,     \* client_request_ids
  RequestOf(_), \* the request a photo id is inserted for
  Decodes(_),   \* the uploaded bytes are an image of the declared type
  Processors,   \* workers running photo.process
  Cleaners,     \* workers running photo.cleanup
  CleanupBatch, \* photos one cleanup claims (100)
  MaxAttempts,  \* attempts of a photo.process job (5)
  MaxFaults     \* bound: failed calls and stopped workers

ASSUME RequestAssumption == \A p \in Photos : RequestOf(p) \in Requests
ASSUME BoundAssumption ==
  CleanupBatch \in Nat \ {0} /\ MaxAttempts \in Nat \ {0} /\ MaxFaults \in Nat

VARIABLES
  status,      \* status of each photo row
  old,         \* rows created more than 24 hours ago
  objects,     \* originals in the object store
  thumbnails,  \* thumbnails in the object store
  url,         \* photos whose presigned PUT URL is still valid
  completing,  \* per photo: how far a Complete request for it is
  job,         \* per photo: its photo.process row
  processing,  \* per processor: the photo and how far its handler is
  cleaning,    \* per cleaner: photos claimed, and the one whose object is gone
  chain,       \* the next photo.cleanup row
  faults       \* failures so far (bounded by MaxFaults)

photoVars == <<status, old, objects, thumbnails, url>>
vars == <<photoVars, completing, job, processing, cleaning, chain, faults>>

Statuses == {"none", "pending", "uploaded", "processed", "failed", "deleted"}
NoPhoto == "no photo"
ASSUME NoPhotoAssumption == NoPhoto \notin Photos

NoJob == [state |-> "none", attempts |-> 0]
NotProcessing == [photo |-> NoPhoto, step |-> "idle"]
NotCleaning == [step |-> "idle", claimed |-> {}, at |-> NoPhoto]

Exists(p) == status[p] \notin {"none", "deleted"}

Init ==
  /\ status = [p \in Photos |-> "none"]
  /\ old = {} /\ objects = {} /\ thumbnails = {} /\ url = {}
  /\ completing = [p \in Photos |-> "no"]
  /\ job = [p \in Photos |-> NoJob]
  /\ processing = [w \in Processors |-> NotProcessing]
  /\ cleaning = [w \in Cleaners |-> NotCleaning]
  /\ chain = "queued"
  /\ faults = 0

Fault == faults < MaxFaults /\ faults' = faults + 1

(***************************************************************************)
(* Reserve: the upsert keeps the row an earlier request made, of whatever  *)
(* status and age; every call hands out a new URL for its object key.      *)
(***************************************************************************)
CreatePhotoUpload(r, p) ==
  /\ RequestOf(p) = r
  /\ \/ Exists(p) /\ UNCHANGED status
     \/ /\ \A q \in Photos : RequestOf(q) = r => ~Exists(q)
        /\ status[p] = "none"
        /\ status' = [status EXCEPT ![p] = "pending"]

Reserve(r) ==
  /\ \E p \in Photos : CreatePhotoUpload(r, p) /\ url' = url \cup {p}
  /\ UNCHANGED <<old, objects, thumbnails, completing, job, processing, cleaning, chain, faults>>

\* 24 hours pass since the insert.
Age(p) ==
  /\ Exists(p)
  /\ p \notin old
  /\ old' = old \cup {p}
  /\ UNCHANGED <<status, objects, thumbnails, url, completing, job, processing, cleaning, chain, faults>>

\* The presigned URL runs out 15 minutes after it was made.
ExpireUrl(p) ==
  /\ p \in url
  /\ url' = url \ {p}
  /\ UNCHANGED <<status, old, objects, thumbnails, completing, job, processing, cleaning, chain, faults>>

\* The client's PUT reaches the object store.
Put(p) ==
  /\ p \in url
  /\ objects' = objects \cup {p}
  /\ UNCHANGED <<status, old, thumbnails, url, completing, job, processing, cleaning, chain, faults>>

(***************************************************************************)
(* Complete: read the row, look at the object, then mark it uploaded and   *)
(* enqueue its processing in one transaction whose WHERE clause looks at   *)
(* the status again.                                                       *)
(***************************************************************************)
CompleteReads(p) ==
  /\ completing[p] = "no"
  /\ status[p] \in {"pending", "uploaded"}
  /\ completing' = [completing EXCEPT ![p] = "read"]
  /\ UNCHANGED <<photoVars, job, processing, cleaning, chain, faults>>

CompleteStats(p) ==
  /\ completing[p] = "read"
  /\ completing' = [completing EXCEPT ![p] = IF p \in objects THEN "found" ELSE "no"]
  /\ UNCHANGED <<photoVars, job, processing, cleaning, chain, faults>>

\* Mutant of CompletePhotoUpload: the status is not looked at again.
CompletePhotoUploadAnyStatus(p) == [status EXCEPT ![p] = "uploaded"]

\* The statement: a photo in another status by now stays as it is.
CompletePhotoUpload(p) ==
  IF status[p] \in {"pending", "uploaded"} THEN [status EXCEPT ![p] = "uploaded"] ELSE status

\* Mutant of EnqueueProcessing: the photo is marked and nothing is enqueued.
EnqueueNothing(p) == job

EnqueueProcessing(p) ==
  IF CompletePhotoUpload(p)[p] = "uploaded" /\ job[p].state = "none"
  THEN [job EXCEPT ![p] = [state |-> "queued", attempts |-> 0]] ELSE job

CompleteCommits(p) ==
  /\ completing[p] = "found"
  /\ completing' = [completing EXCEPT ![p] = "no"]
  /\ status' = CompletePhotoUpload(p)
  /\ job' = EnqueueProcessing(p)
  /\ UNCHANGED <<old, objects, thumbnails, url, processing, cleaning, chain, faults>>

(***************************************************************************)
(* photo.process.  The row stays queued while a handler is at it, so that  *)
(* two processors may work on one photo; it is stuck when its worker       *)
(* stopped, until a worker that starts takes it back.                      *)
(***************************************************************************)
Running(row) == row.state \in {"queued", "stuck"}
JobDone(p) == [job EXCEPT ![p] = IF Running(@) THEN NoJob ELSE @]

JobRetried(p) ==
  LET row == job[p]
  IN IF Running(row)
     THEN [job EXCEPT ![p].state = IF row.attempts >= MaxAttempts THEN "dead" ELSE "queued"]
     ELSE job

\* GetPhotoByID; a photo already processed leaves nothing to do, and with no
\* row the handler fails.
ProcessReads(w, p) ==
  /\ processing[w] = NotProcessing
  /\ job[p].state = "queued"
  /\ job' = IF status[p] = "processed" THEN JobDone(p)
            ELSE [job EXCEPT ![p].attempts = @ + 1]
  /\ processing' =
       CASE status[p] = "processed" -> processing
         [] Exists(p) -> [processing EXCEPT ![w] = [photo |-> p, step |-> "read"]]
         [] OTHER     -> [processing EXCEPT ![w] = [photo |-> p, step |-> "missing"]]
  /\ UNCHANGED <<photoVars, completing, cleaning, chain, faults>>

\* Get and makeThumbnail.
ProcessDecodes(w) ==
  LET p == processing[w].photo
  IN /\ processing[w].step = "read"
     /\ p \in objects
     /\ processing' = [processing EXCEPT ![w].step = IF Decodes(p) THEN "decoded" ELSE "invalid"]
     /\ UNCHANGED <<photoVars, completing, job, cleaning, chain, faults>>

\* The statement looks at no status.
MarkPhotoFailed(p) == IF Exists(p) THEN [status EXCEPT ![p] = "failed"] ELSE status

FailPermanently(w) ==
  LET p == processing[w].photo
  IN /\ processing[w].step = "invalid"
     /\ status' = MarkPhotoFailed(p)
     /\ job' = JobDone(p)
     /\ processing' = [processing EXCEPT ![w] = NotProcessing]
     /\ UNCHANGED <<old, objects, thumbnails, url, completing, cleaning, chain, faults>>

PutThumbnail(w) ==
  /\ processing[w].step = "decoded"
  /\ thumbnails' = thumbnails \cup {processing[w].photo}
  /\ processing' = [processing EXCEPT ![w].step = "stored"]
  /\ UNCHANGED <<status, old, objects, url, completing, job, cleaning, chain, faults>>

MarkPhotoProcessed(p) ==
  IF status[p] \in {"uploaded", "processed"} THEN [status EXCEPT ![p] = "processed"] ELSE status

\* With no row to update the handler fails.
ProcessMarks(w) ==
  LET p == processing[w].photo
  IN /\ processing[w].step = "stored"
     /\ status' = MarkPhotoProcessed(p)
     /\ job' = IF status'[p] = "processed" THEN JobDone(p) ELSE JobRetried(p)
     /\ processing' = [processing EXCEPT ![w] = NotProcessing]
     /\ UNCHANGED <<old, objects, thumbnails, url, completing, cleaning, chain, faults>>

\* A call of the handler fails, a missing row or object included.
ProcessFails(w) ==
  /\ processing[w] # NotProcessing
  /\ IF \/ processing[w].step = "missing"
        \/ processing[w].step = "read" /\ processing[w].photo \notin objects
     THEN UNCHANGED faults
     ELSE Fault
  /\ job' = JobRetried(processing[w].photo)
  /\ processing' = [processing EXCEPT ![w] = NotProcessing]
  /\ UNCHANGED <<photoVars, completing, cleaning, chain>>

ProcessorStops(w) ==
  /\ processing[w] # NotProcessing
  /\ Fault
  /\ job' = [job EXCEPT ![processing[w].photo] =
       IF Running(@) THEN [@ EXCEPT !.state = "stuck"] ELSE @]
  /\ processing' = [processing EXCEPT ![w] = NotProcessing]
  /\ UNCHANGED <<photoVars, completing, cleaning, chain>>

RequeueStaleJob(p) ==
  /\ job[p].state = "stuck"
  /\ job' = [job EXCEPT ![p].state = "queued"]
  /\ UNCHANGED <<photoVars, completing, processing, cleaning, chain, faults>>

(***************************************************************************)
(* photo.cleanup.  Claiming turns abandoned rows to failed; the object is  *)
(* deleted next, and the row last.  The job enqueues its successor when it *)
(* is through: the chain goes on only if it gets that far.                 *)
(***************************************************************************)
Abandoned(p) == status[p] \in {"pending", "failed"} /\ p \in old

\* Mutant of ClaimAbandonedPhotoUploads: the rows are selected and keep their status.
SelectAbandonedPhotoUploads(S) ==
  S \subseteq {p \in Photos : Abandoned(p)} /\ Cardinality(S) <= CleanupBatch /\ UNCHANGED status

ClaimAbandonedPhotoUploads(S) ==
  /\ S \subseteq {p \in Photos : Abandoned(p)}
  /\ Cardinality(S) <= CleanupBatch
  /\ S # {p \in Photos : Abandoned(p)} => Cardinality(S) = CleanupBatch
  /\ status' = [p \in Photos |-> IF p \in S THEN "failed" ELSE status[p]]

ClaimAbandoned(w) ==
  /\ cleaning[w] = NotCleaning
  /\ chain = "queued"
  /\ \E S \in SUBSET Photos :
       /\ ClaimAbandonedPhotoUploads(S)
       /\ cleaning' = [cleaning EXCEPT ![w] = [step |-> "claimed", claimed |-> S, at |-> NoPhoto]]
  /\ UNCHANGED <<old, objects, thumbnails, url, completing, job, processing, chain, faults>>

DeleteObject(w) ==
  /\ cleaning[w].step = "claimed"
  /\ cleaning[w].at = NoPhoto
  /\ \E p \in cleaning[w].claimed :
       /\ objects' = objects \ {p}
       /\ cleaning' = [cleaning EXCEPT ![w].at = p]
  /\ UNCHANGED <<status, old, thumbnails, url, completing, job, processing, chain, faults>>

\* Mutant of DeleteAbandonedPhotoUpload: it still looks for pending rows.
DeletePendingPhotoUpload(p) ==
  IF status[p] = "pending" /\ p \in old THEN [status EXCEPT ![p] = "deleted"] ELSE status

DeleteAbandonedPhotoUpload(p) ==
  IF status[p] = "failed" /\ p \in old THEN [status EXCEPT ![p] = "deleted"] ELSE status

DeleteRow(w) ==
  LET p == cleaning[w].at
  IN /\ p # NoPhoto
     /\ status' = DeleteAbandonedPhotoUpload(p)
     /\ cleaning' = [cleaning EXCEPT ![w].claimed = @ \ {p}, ![w].at = NoPhoto]
     /\ UNCHANGED <<old, objects, thumbnails, url, completing, job, processing, chain, faults>>

\* Schedule(now + 1h) and the end of the handler.
CleanupEnds(w) ==
  /\ cleaning[w].step = "claimed"
  /\ cleaning[w].claimed = {}
  /\ cleaning' = [cleaning EXCEPT ![w] = NotCleaning]
  /\ chain' = "queued"
  /\ UNCHANGED <<photoVars, completing, job, processing, faults>>

\* The handler fails: it is retried, or its row is dead; or the worker stops
\* and the row stays running with nobody to take it.
CleanupFails(w) ==
  /\ cleaning[w] # NotCleaning \/ chain = "queued"
  /\ Fault
  /\ cleaning' = [cleaning EXCEPT ![w] = NotCleaning]
  /\ chain' \in {"queued", "broken"}
  /\ UNCHANGED <<photoVars, completing, job, processing>>

\* A worker starts in an hour whose key no row has: it schedules a cleanup.
WorkerStarts ==
  /\ chain = "broken"
  /\ chain' = "queued"
  /\ UNCHANGED <<photoVars, completing, job, processing, cleaning, faults>>

ProcessorStep(w) ==
  \/ \E p \in Photos : ProcessReads(w, p)
  \/ ProcessDecodes(w) \/ FailPermanently(w) \/ PutThumbnail(w)
  \/ ProcessMarks(w) \/ ProcessFails(w)

CleanerStep(w) ==
  ClaimAbandoned(w) \/ DeleteObject(w) \/ DeleteRow(w) \/ CleanupEnds(w)

Next ==
  \/ \E r \in Requests : Reserve(r)
  \/ \E p \in Photos :
       \/ Age(p) \/ ExpireUrl(p) \/ Put(p)
       \/ CompleteReads(p) \/ CompleteStats(p) \/ CompleteCommits(p)
       \/ RequeueStaleJob(p)
  \/ \E w \in Processors : ProcessorStep(w) \/ ProcessorStops(w)
  \/ \E w \in Cleaners : CleanerStep(w) \/ CleanupFails(w)
  \/ WorkerStarts

Spec == Init /\ [][Next]_vars

\* Workers keep polling, handlers end, requests are answered, time passes.  That
\* calls of the object store return is assumed here: its transport sets no
\* timeout for an answer, nor does the context Run gives the handlers.
FairSpec ==
  /\ Spec
  /\ \A w \in Processors : WF_vars(ProcessorStep(w))
  /\ \A w \in Cleaners : WF_vars(CleanerStep(w))
  /\ \A p \in Photos : WF_vars(Age(p)) /\ WF_vars(CompleteStats(p) \/ CompleteCommits(p))
-----------------------------------------------------------------------------

TypeOK ==
  /\ status \in [Photos -> Statuses]
  /\ old \subseteq Photos /\ objects \subseteq Photos
  /\ thumbnails \subseteq Photos /\ url \subseteq Photos
  /\ completing \in [Photos -> {"no", "read", "found"}]
  /\ job \in [Photos -> [state : {"none", "queued", "stuck", "dead"}, attempts : Nat]]
  /\ processing \in [Processors -> [photo : Photos \cup {NoPhoto},
                       step : {"idle", "read", "missing", "decoded", "invalid", "stored"}]]
  /\ cleaning \in [Cleaners -> [step : {"idle", "claimed"}, claimed : SUBSET Photos,
                                at : Photos \cup {NoPhoto}]]
  /\ chain \in {"queued", "broken"}
  /\ faults \in Nat

\* A photo the server has taken over is never lost: while its row says
\* uploaded or processed the original is in the object store, although the
\* cleanup deletes objects and completion looked at the object some time ago;
\* and a processed photo has its thumbnail, which another call stored.
TakenOverIsStored ==
  \A p \in Photos :
    /\ status[p] \in {"uploaded", "processed"} => p \in objects
    /\ status[p] = "processed" => p \in thumbnails

\* An uploaded photo is never forgotten: its photo.process row is there, to be
\* tried or for an operator to see.
UploadedHasJob ==
  \A p \in Photos : status[p] = "uploaded" => job[p].state # "none"

\* A processed photo stays processed, however late a repeated completion, a
\* second handler or a cleanup arrives.
ProcessedStays ==
  [][\A p \in Photos : status[p] = "processed" => status'[p] = "processed"]_vars

\* Uploads end: processed, rejected or removed, unless the job is dead or was
\* left running by a worker that stopped; provided the calls of the object store
\* return.
UploadedIsHandled ==
  \A p \in Photos :
    status[p] = "uploaded" ~> status[p] # "uploaded" \/ job[p].state \in {"dead", "stuck"}

\* An abandoned photo is taken over after all, or removed, as long as the
\* chain of cleanup jobs does not break and the object store's calls return.
AbandonedIsRemoved ==
  \A p \in Photos : Abandoned(p) ~> ~Abandoned(p) \/ chain = "broken"
=============================================================================
