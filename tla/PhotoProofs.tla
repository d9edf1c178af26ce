----------------------------- MODULE PhotoProofs -----------------------------
(***************************************************************************)
(* Theorems about PhotoUploads, for any photos, workers and bounds.  A     *)
(* photo that a cleanup claimed is failed or deleted for good              *)
(* (ClaimedIsOver), so that the object a completion has found stays where  *)
(* it is as long as the row can still be completed (FoundIsStored).        *)
(***************************************************************************)
EXTENDS PhotoUploads, TLAPS

JobRow == [state : {"none", "queued", "stuck", "dead"}, attempts : Nat]
Processing == [photo : Photos \cup {NoPhoto},
               step : {"idle", "read", "missing", "decoded", "invalid", "stored"}]
Cleaning == [step : {"idle", "claimed"}, claimed : SUBSET Photos, at : Photos \cup {NoPhoto}]

\* A handler that is at work has a photo.
AtWorkOnPhoto ==
  \A w \in Processors : processing[w] # NotProcessing => processing[w].photo \in Photos

\* No claimed photo can be completed any more.
ClaimedIsOver ==
  \A w \in Cleaners : \A p \in cleaning[w].claimed : status[p] \in {"failed", "deleted"}

\* Only a photo that was reserved is completed; what completion found is there.
FoundIsStored ==
  \A p \in Photos :
    /\ status[p] = "none" => completing[p] = "no"
    /\ completing[p] = "found" /\ status[p] \in {"pending", "uploaded"} => p \in objects

\* What the step of a handler says of its photo.
StepIsTrue ==
  \A w \in Processors :
    /\ processing[w].step = "invalid" => ~Decodes(processing[w].photo)
    /\ processing[w].step \in {"decoded", "stored"} => Decodes(processing[w].photo)
    /\ processing[w].step = "stored" => processing[w].photo \in thumbnails

ProcessedDecodes == \A p \in Photos : status[p] = "processed" => Decodes(p)

Base == TypeOK /\ AtWorkOnPhoto

IInv ==
  /\ Base
  /\ ClaimedIsOver
  /\ FoundIsStored
  /\ StepIsTrue
  /\ ProcessedDecodes
  /\ TakenOverIsStored
  /\ UploadedHasJob
-----------------------------------------------------------------------------

LEMMA InitIInv == Init => IInv
<1>. SUFFICES ASSUME Init PROVE IInv
  OBVIOUS
<1>. USE DEF Init, NoJob, NotProcessing, NotCleaning
<1>1. TypeOK /\ AtWorkOnPhoto
  BY DEF TypeOK, Statuses, AtWorkOnPhoto
<1>2. ClaimedIsOver /\ FoundIsStored /\ StepIsTrue /\ ProcessedDecodes
  BY DEF ClaimedIsOver, FoundIsStored, StepIsTrue, ProcessedDecodes
<1>3. TakenOverIsStored /\ UploadedHasJob
  BY DEF TakenOverIsStored, UploadedHasJob
<1>. QED BY <1>1, <1>2, <1>3 DEF IInv, Base

\* What the operators on rows do to a row, and to no other.
LEMMA JobUpdates ==
  ASSUME job \in [Photos -> JobRow], NEW p \in Photos
  PROVE  /\ JobDone(p) \in [Photos -> JobRow] /\ JobRetried(p) \in [Photos -> JobRow]
         /\ EnqueueProcessing(p) \in [Photos -> JobRow]
         /\ \A q \in Photos : q # p => /\ JobDone(p)[q] = job[q] /\ JobRetried(p)[q] = job[q]
                                       /\ EnqueueProcessing(p)[q] = job[q]
         /\ job[p].state # "none" => JobRetried(p)[p].state # "none"
         /\ CompletePhotoUpload(p)[p] = "uploaded" => EnqueueProcessing(p)[p].state # "none"
  BY DEF JobRow, JobDone, JobRetried, EnqueueProcessing, NoJob, Running

LEMMA StatusUpdates ==
  ASSUME status \in [Photos -> Statuses], NEW p \in Photos
  PROVE  /\ CompletePhotoUpload(p) \in [Photos -> Statuses]
         /\ MarkPhotoFailed(p) \in [Photos -> Statuses]
         /\ MarkPhotoProcessed(p) \in [Photos -> Statuses]
         /\ DeleteAbandonedPhotoUpload(p) \in [Photos -> Statuses]
         /\ \A q \in Photos : q # p => /\ CompletePhotoUpload(p)[q] = status[q]
                                       /\ MarkPhotoFailed(p)[q] = status[q]
                                       /\ MarkPhotoProcessed(p)[q] = status[q]
                                       /\ DeleteAbandonedPhotoUpload(p)[q] = status[q]
         /\ CompletePhotoUpload(p)[p] =
              IF status[p] \in {"pending", "uploaded"} THEN "uploaded" ELSE status[p]
         /\ MarkPhotoFailed(p)[p] = IF Exists(p) THEN "failed" ELSE status[p]
         /\ MarkPhotoProcessed(p)[p] =
              IF status[p] \in {"uploaded", "processed"} THEN "processed" ELSE status[p]
         /\ DeleteAbandonedPhotoUpload(p)[p] =
              IF status[p] = "failed" /\ p \in old THEN "deleted" ELSE status[p]
  BY DEF Statuses, CompletePhotoUpload, MarkPhotoFailed, MarkPhotoProcessed,
         DeleteAbandonedPhotoUpload

\* What an action of each kind leaves alone.
LEMMA BaseStep == Base /\ [Next]_vars => Base'
<1>. SUFFICES ASSUME Base, [Next]_vars PROVE Base'
  OBVIOUS
<1>0. /\ TypeOK /\ AtWorkOnPhoto
      /\ status \in [Photos -> Statuses] /\ job \in [Photos -> JobRow]
      /\ processing \in [Processors -> Processing] /\ cleaning \in [Cleaners -> Cleaning]
      /\ NotProcessing \in Processing /\ NotCleaning \in Cleaning /\ NoJob \in JobRow
      /\ faults \in Nat
  BY DEF Base, TypeOK, JobRow, Processing, Cleaning, NotProcessing, NotCleaning, NoJob
<1>a. ASSUME status' \in [Photos -> Statuses], job' \in [Photos -> JobRow],
             processing' \in [Processors -> Processing], cleaning' \in [Cleaners -> Cleaning],
             completing' \in [Photos -> {"no", "read", "found"}], chain' \in {"queued", "broken"},
             old' \subseteq Photos, objects' \subseteq Photos, thumbnails' \subseteq Photos,
             url' \subseteq Photos, faults' \in Nat
      PROVE  TypeOK'
  BY <1>a DEF TypeOK, JobRow, Processing, Cleaning
<1>1. ASSUME NEW r \in Requests, Reserve(r) PROVE Base'
  <2>1. PICK p \in Photos : CreatePhotoUpload(r, p) /\ url' = url \cup {p}
    BY <1>1 DEF Reserve
  <2>2. status' \in [Photos -> Statuses]
    BY <1>0, <2>1 DEF CreatePhotoUpload, Statuses
  <2>. QED BY <1>0, <1>1, <2>1, <2>2 DEF Reserve, TypeOK, Base, AtWorkOnPhoto
<1>2. ASSUME NEW p \in Photos, Age(p) \/ ExpireUrl(p) \/ Put(p) PROVE Base'
  BY <1>0, <1>2 DEF Age, ExpireUrl, Put, TypeOK, Base, AtWorkOnPhoto
<1>3. ASSUME NEW p \in Photos, CompleteReads(p) \/ CompleteStats(p) PROVE Base'
  BY <1>0, <1>3 DEF CompleteReads, CompleteStats, photoVars, TypeOK, Base, AtWorkOnPhoto
<1>4. ASSUME NEW p \in Photos, CompleteCommits(p) PROVE Base'
  <2>1. status' \in [Photos -> Statuses] /\ job' \in [Photos -> JobRow]
    BY <1>0, <1>4, JobUpdates, StatusUpdates DEF CompleteCommits
  <2>. QED BY <1>0, <1>4, <2>1 DEF CompleteCommits, TypeOK, JobRow, Base, AtWorkOnPhoto
<1>5. ASSUME NEW p \in Photos, RequeueStaleJob(p) PROVE Base'
  <2>1. job' \in [Photos -> JobRow]
    BY <1>0, <1>5 DEF RequeueStaleJob, JobRow
  <2>. QED BY <1>0, <1>5, <2>1 DEF RequeueStaleJob, photoVars, TypeOK, JobRow, Base, AtWorkOnPhoto
<1>6. ASSUME NEW w \in Processors, NEW p \in Photos, ProcessReads(w, p) PROVE Base'
  <2>1. job' \in [Photos -> JobRow]
    BY <1>0, <1>6, JobUpdates DEF ProcessReads, JobRow
  <2>2. /\ processing' \in [Processors -> Processing]
        /\ \A v \in Processors : processing'[v] = processing[v] \/ processing'[v].photo = p
    BY <1>0, <1>6 DEF ProcessReads, Processing
  <2>. QED BY <1>0, <1>6, <2>1, <2>2
           DEF ProcessReads, photoVars, TypeOK, JobRow, Processing, Base, AtWorkOnPhoto
<1>7. ASSUME NEW w \in Processors, ProcessDecodes(w) \/ PutThumbnail(w) PROVE Base'
  <2>0. processing[w].photo \in Photos
    BY <1>0, <1>7 DEF ProcessDecodes, PutThumbnail, AtWorkOnPhoto, NotProcessing
  <2>1. /\ processing' \in [Processors -> Processing]
        /\ \A v \in Processors : processing'[v] = processing[v]
                                 \/ processing'[v].photo = processing[w].photo
    BY <1>0, <1>7 DEF ProcessDecodes, PutThumbnail, Processing
  <2>2. thumbnails' \subseteq Photos
    BY <1>0, <1>7, <2>0 DEF ProcessDecodes, PutThumbnail, photoVars, TypeOK
  <2>. QED BY <1>0, <1>7, <2>0, <2>1, <2>2
           DEF ProcessDecodes, PutThumbnail, photoVars, TypeOK, Processing, Base, AtWorkOnPhoto
<1>8. ASSUME NEW w \in Processors,
             FailPermanently(w) \/ ProcessMarks(w) \/ ProcessFails(w) \/ ProcessorStops(w)
      PROVE  Base'
  <2>0. processing[w].photo \in Photos
    BY <1>0, <1>8 DEF FailPermanently, ProcessMarks, ProcessFails, ProcessorStops, AtWorkOnPhoto,
                      NotProcessing
  <2>1. processing' \in [Processors -> Processing]
        /\ \A v \in Processors : processing'[v] = processing[v] \/ processing'[v] = NotProcessing
    BY <1>0, <1>8 DEF FailPermanently, ProcessMarks, ProcessFails, ProcessorStops
  <2>2. job' \in [Photos -> JobRow]
    <3>1. CASE FailPermanently(w) \/ ProcessMarks(w) \/ ProcessFails(w)
      BY <1>0, <2>0, <3>1, JobUpdates DEF FailPermanently, ProcessMarks, ProcessFails
    <3>2. CASE ProcessorStops(w)
      <4>1. [job[processing[w].photo] EXCEPT !.state = "stuck"] \in JobRow
        BY <1>0, <2>0 DEF JobRow
      <4>. QED BY <1>0, <2>0, <3>2, <4>1 DEF ProcessorStops
    <3>. QED BY <1>8, <3>1, <3>2
  <2>3. status' \in [Photos -> Statuses]
    BY <1>0, <1>8, <2>0, StatusUpdates
       DEF FailPermanently, ProcessMarks, ProcessFails, ProcessorStops, photoVars
  <2>4. /\ faults' \in Nat /\ completing' = completing /\ cleaning' = cleaning /\ chain' = chain
        /\ old' = old /\ objects' = objects /\ thumbnails' = thumbnails /\ url' = url
    BY <1>0, <1>8 DEF FailPermanently, ProcessMarks, ProcessFails, ProcessorStops, photoVars, Fault
  <2>5. TypeOK'
    BY <1>0, <1>a, <2>1, <2>2, <2>3, <2>4 DEF TypeOK
  <2>. QED BY <1>0, <2>1, <2>5 DEF Base, AtWorkOnPhoto
<1>9. ASSUME NEW w \in Cleaners, ClaimAbandoned(w) PROVE Base'
  <2>1. PICK S \in SUBSET Photos :
          /\ ClaimAbandonedPhotoUploads(S)
          /\ cleaning' = [cleaning EXCEPT ![w] = [step |-> "claimed", claimed |-> S, at |-> NoPhoto]]
    BY <1>9 DEF ClaimAbandoned
  <2>2. status' \in [Photos -> Statuses] /\ cleaning' \in [Cleaners -> Cleaning]
    BY <1>0, <2>1 DEF ClaimAbandonedPhotoUploads, Statuses, Cleaning
  <2>. QED BY <1>0, <1>9, <2>2 DEF ClaimAbandoned, TypeOK, Cleaning, Base, AtWorkOnPhoto
<1>10. ASSUME NEW w \in Cleaners, DeleteObject(w) PROVE Base'
  <2>1. PICK p \in cleaning[w].claimed :
          objects' = objects \ {p} /\ cleaning' = [cleaning EXCEPT ![w].at = p]
    BY <1>10 DEF DeleteObject
  <2>2. p \in Photos /\ cleaning' \in [Cleaners -> Cleaning]
    BY <1>0, <2>1 DEF Cleaning
  <2>. QED BY <1>0, <1>10, <2>1, <2>2 DEF DeleteObject, TypeOK, Cleaning, Base, AtWorkOnPhoto
<1>11. ASSUME NEW w \in Cleaners, DeleteRow(w) PROVE Base'
  <2>1. cleaning[w].at \in Photos
    BY <1>0, <1>11 DEF DeleteRow, Cleaning
  <2>2. status' \in [Photos -> Statuses]
    BY <1>0, <1>11, <2>1, StatusUpdates DEF DeleteRow
  <2>3. cleaning' \in [Cleaners -> Cleaning]
    BY <1>0, <1>11 DEF DeleteRow, Cleaning
  <2>. QED BY <1>0, <1>11, <2>2, <2>3 DEF DeleteRow, TypeOK, Cleaning, Base, AtWorkOnPhoto
<1>12. ASSUME NEW w \in Cleaners, CleanupEnds(w) \/ CleanupFails(w) PROVE Base'
  <2>1. cleaning' \in [Cleaners -> Cleaning] /\ chain' \in {"queued", "broken"} /\ faults' \in Nat
    BY <1>0, <1>12 DEF CleanupEnds, CleanupFails, Fault
  <2>. QED BY <1>0, <1>12, <2>1
           DEF CleanupEnds, CleanupFails, photoVars, TypeOK, Cleaning, Base, AtWorkOnPhoto
<1>13. CASE WorkerStarts
  BY <1>0, <1>13 DEF WorkerStarts, photoVars, TypeOK, Base, AtWorkOnPhoto
<1>14. CASE UNCHANGED vars
  BY <1>0, <1>14 DEF vars, photoVars, TypeOK, Base, AtWorkOnPhoto
<1>. QED BY <1>1, <1>2, <1>3, <1>4, <1>5, <1>6, <1>7, <1>8, <1>9, <1>10, <1>11, <1>12, <1>13, <1>14
         DEF Next, ProcessorStep, CleanerStep
-----------------------------------------------------------------------------

\* Every change of a status: who makes it and from where.
Changes(p) ==
  \/ status[p] = "none" /\ status'[p] = "pending" /\ completing' = completing
  \/ /\ status[p] \in {"pending", "uploaded"} /\ status'[p] = "uploaded"
     /\ completing[p] = "found" /\ job'[p].state # "none"
  \/ /\ status'[p] = "failed" /\ Exists(p)
     /\ \E w \in Processors : processing[w].step = "invalid" /\ processing[w].photo = p
  \/ /\ status[p] \in {"uploaded", "processed"} /\ status'[p] = "processed"
     /\ \E w \in Processors : processing[w].step = "stored" /\ processing[w].photo = p
  \/ status[p] \in {"pending", "failed"} /\ status'[p] = "failed"
  \/ status[p] = "failed" /\ status'[p] = "deleted"

LEMMA StatusChange ==
  Base /\ [Next]_vars => \A p \in Photos : status'[p] = status[p] \/ Changes(p)
<1>. SUFFICES ASSUME Base, [Next]_vars, NEW p \in Photos PROVE status'[p] = status[p] \/ Changes(p)
  OBVIOUS
<1>0. /\ status \in [Photos -> Statuses] /\ job \in [Photos -> JobRow]
      /\ cleaning \in [Cleaners -> Cleaning] /\ AtWorkOnPhoto
      /\ NotProcessing.step = "idle"
  BY DEF Base, TypeOK, JobRow, Cleaning, NotProcessing
<1>1. ASSUME NEW r \in Requests, Reserve(r) PROVE status'[p] = status[p] \/ Changes(p)
  <2>1. PICK q \in Photos : CreatePhotoUpload(r, q)
    BY <1>1 DEF Reserve
  <2>2. completing' = completing
    BY <1>1 DEF Reserve
  <2>. QED BY <1>0, <2>1, <2>2 DEF CreatePhotoUpload, Changes
<1>2. ASSUME NEW q \in Photos, CompleteCommits(q) PROVE status'[p] = status[p] \/ Changes(p)
  <2>1. CASE p = q
    BY <1>0, <1>2, <2>1, StatusUpdates, JobUpdates DEF CompleteCommits, Changes
  <2>2. CASE p # q
    BY <1>0, <1>2, <2>2, StatusUpdates DEF CompleteCommits
  <2>. QED BY <2>1, <2>2
<1>3. ASSUME NEW w \in Processors, FailPermanently(w) PROVE status'[p] = status[p] \/ Changes(p)
  <2>1. processing[w].photo \in Photos /\ processing[w].step = "invalid"
    BY <1>0, <1>3 DEF FailPermanently, AtWorkOnPhoto
  <2>. QED BY <1>0, <1>3, <2>1, StatusUpdates DEF FailPermanently, Changes
<1>4. ASSUME NEW w \in Processors, ProcessMarks(w) PROVE status'[p] = status[p] \/ Changes(p)
  <2>1. processing[w].photo \in Photos /\ processing[w].step = "stored"
    BY <1>0, <1>4 DEF ProcessMarks, AtWorkOnPhoto
  <2>. QED BY <1>0, <1>4, <2>1, StatusUpdates DEF ProcessMarks, Changes
<1>5. ASSUME NEW w \in Cleaners, ClaimAbandoned(w) PROVE status'[p] = status[p] \/ Changes(p)
  BY <1>0, <1>5 DEF ClaimAbandoned, ClaimAbandonedPhotoUploads, Abandoned, Changes
<1>6. ASSUME NEW w \in Cleaners, DeleteRow(w) PROVE status'[p] = status[p] \/ Changes(p)
  <2>1. cleaning[w].at \in Photos
    BY <1>0, <1>6 DEF DeleteRow, Cleaning
  <2>. QED BY <1>0, <1>6, <2>1, StatusUpdates DEF DeleteRow, Changes
<1>7. CASE status' = status
  BY <1>7
<1>. QED BY <1>1, <1>2, <1>3, <1>4, <1>5, <1>6, <1>7
         DEF Next, ProcessorStep, CleanerStep, vars, photoVars, Age, ExpireUrl, Put, CompleteReads,
             CompleteStats, RequeueStaleJob, ProcessReads, ProcessDecodes, PutThumbnail,
             ProcessFails, ProcessorStops, DeleteObject, CleanupEnds, CleanupFails, WorkerStarts

\* A cleanup holds what it has claimed; a new claim makes its photos failed.
LEMMA ClaimStep == Base /\ ClaimedIsOver /\ [Next]_vars => ClaimedIsOver'
<1>. SUFFICES ASSUME Base, ClaimedIsOver, [Next]_vars PROVE ClaimedIsOver'
  OBVIOUS
<1>0. /\ cleaning \in [Cleaners -> Cleaning] /\ NotCleaning.claimed = {}
      /\ status \in [Photos -> Statuses]
  BY DEF Base, TypeOK, Cleaning, NotCleaning
<1>1. \A p \in Photos : status[p] \in {"failed", "deleted"} => status'[p] \in {"failed", "deleted"}
  BY StatusChange DEF Changes
<1>2. ASSUME \A w \in Cleaners : cleaning'[w].claimed \subseteq cleaning[w].claimed
      PROVE  ClaimedIsOver'
  BY <1>0, <1>1, <1>2 DEF ClaimedIsOver, Cleaning
<1>3. ASSUME NEW w \in Cleaners, ClaimAbandoned(w) PROVE ClaimedIsOver'
  <2>1. PICK S \in SUBSET Photos :
          /\ ClaimAbandonedPhotoUploads(S)
          /\ cleaning' = [cleaning EXCEPT ![w] = [step |-> "claimed", claimed |-> S, at |-> NoPhoto]]
    BY <1>3 DEF ClaimAbandoned
  <2>2. \A p \in S : status'[p] = "failed"
    BY <2>1 DEF ClaimAbandonedPhotoUploads
  <2>3. cleaning'[w].claimed = S /\ \A v \in Cleaners : v # w => cleaning'[v] = cleaning[v]
    BY <1>0, <2>1
  <2>. QED BY <1>0, <1>1, <2>2, <2>3 DEF ClaimedIsOver, Cleaning
<1>4. ASSUME NEW w \in Cleaners, DeleteObject(w) \/ DeleteRow(w) \/ CleanupEnds(w) \/ CleanupFails(w)
      PROVE  ClaimedIsOver'
  BY <1>0, <1>2, <1>4 DEF DeleteObject, DeleteRow, CleanupEnds, CleanupFails, Cleaning
<1>5. CASE cleaning' = cleaning
  BY <1>2, <1>5
<1>. QED BY <1>3, <1>4, <1>5
         DEF Next, ProcessorStep, CleanerStep, vars, photoVars, Reserve, Age, ExpireUrl, Put,
             CompleteReads, CompleteStats, CompleteCommits, RequeueStaleJob, ProcessReads,
             ProcessDecodes, FailPermanently, PutThumbnail, ProcessMarks, ProcessFails,
             ProcessorStops, WorkerStarts

\* Objects are deleted of photos that are over, thumbnails never.
LEMMA StoredStays ==
  Base /\ ClaimedIsOver /\ [Next]_vars =>
    /\ \A p \in objects \ objects' : status'[p] \in {"failed", "deleted"} /\ completing' = completing
    /\ thumbnails \subseteq thumbnails'
<1>. SUFFICES ASSUME Base, ClaimedIsOver, [Next]_vars
              PROVE  /\ \A p \in objects \ objects' : /\ status'[p] \in {"failed", "deleted"}
                                                     /\ completing' = completing
                     /\ thumbnails \subseteq thumbnails'
  OBVIOUS
<1>1. CASE \E w \in Cleaners : DeleteObject(w)
  BY <1>1 DEF DeleteObject, ClaimedIsOver
<1>2. CASE objects \subseteq objects' /\ thumbnails \subseteq thumbnails'
  BY <1>2
<1>. QED BY <1>1, <1>2
         DEF Next, ProcessorStep, CleanerStep, vars, photoVars, Reserve, Age, ExpireUrl, Put,
             CompleteReads, CompleteStats, CompleteCommits, RequeueStaleJob, ProcessReads,
             ProcessDecodes, FailPermanently, PutThumbnail, ProcessMarks, ProcessFails,
             ProcessorStops, ClaimAbandoned, DeleteRow, CleanupEnds, CleanupFails, WorkerStarts

LEMMA FoundStep == Base /\ ClaimedIsOver /\ FoundIsStored /\ [Next]_vars => FoundIsStored'
<1>. SUFFICES ASSUME Base, ClaimedIsOver, FoundIsStored, [Next]_vars PROVE FoundIsStored'
  OBVIOUS
<1>0. completing \in [Photos -> {"no", "read", "found"}]
  BY DEF Base, TypeOK
<1>1. \A p \in Photos :
        /\ status'[p] = "none" => status[p] = "none"
        /\ status'[p] \in {"pending", "uploaded"} => status[p] \in {"none", "pending", "uploaded"}
        /\ status[p] = "none" /\ status'[p] # "none" => completing' = completing
  BY StatusChange DEF Changes, Exists
<1>2. \A p \in objects : status'[p] \in {"pending", "uploaded"} => p \in objects'
  BY StoredStays
<1>3. ASSUME NEW p \in Photos, CompleteReads(p) PROVE FoundIsStored'
  BY <1>0, <1>3 DEF CompleteReads, photoVars, FoundIsStored
<1>4. ASSUME NEW p \in Photos, CompleteStats(p) PROVE FoundIsStored'
  BY <1>0, <1>4 DEF CompleteStats, photoVars, FoundIsStored
<1>5. ASSUME NEW p \in Photos, CompleteCommits(p) PROVE FoundIsStored'
  BY <1>0, <1>1, <1>2, <1>5 DEF CompleteCommits, FoundIsStored
<1>6. CASE completing' = completing
  BY <1>0, <1>1, <1>2, <1>6 DEF FoundIsStored
<1>. QED BY <1>3, <1>4, <1>5, <1>6
         DEF Next, ProcessorStep, CleanerStep, vars, Reserve, Age, ExpireUrl, Put,
             RequeueStaleJob, ProcessReads, ProcessDecodes, FailPermanently, PutThumbnail,
             ProcessMarks, ProcessFails, ProcessorStops, ClaimAbandoned, DeleteObject, DeleteRow,
             CleanupEnds, CleanupFails, WorkerStarts

LEMMA StepTrueStep == Base /\ ClaimedIsOver /\ StepIsTrue /\ [Next]_vars => StepIsTrue'
<1>. SUFFICES ASSUME Base, ClaimedIsOver, StepIsTrue, [Next]_vars PROVE StepIsTrue'
  OBVIOUS
<1>0. /\ processing \in [Processors -> Processing] /\ NotProcessing.step = "idle"
      /\ thumbnails \subseteq thumbnails'
  BY StoredStays DEF Base, TypeOK, Processing, NotProcessing
<1>1. ASSUME \A w \in Processors : \/ processing'[w] = processing[w]
                                  \/ processing'[w].step \in {"idle", "read", "missing"}
      PROVE  StepIsTrue'
  BY <1>0, <1>1 DEF StepIsTrue
<1>2. ASSUME NEW w \in Processors, NEW p \in Photos, ProcessReads(w, p) PROVE StepIsTrue'
  BY <1>0, <1>1, <1>2 DEF ProcessReads
<1>3. ASSUME NEW w \in Processors, ProcessDecodes(w) \/ PutThumbnail(w) PROVE StepIsTrue'
  <2>1. /\ \A v \in Processors : v # w => processing'[v] = processing[v]
        /\ processing'[w].photo = processing[w].photo
    BY <1>0, <1>3 DEF ProcessDecodes, PutThumbnail, Processing
  <2>2. CASE ProcessDecodes(w)
    <3>1. processing'[w].step = IF Decodes(processing[w].photo) THEN "decoded" ELSE "invalid"
      BY <1>0, <2>2 DEF ProcessDecodes, Processing
    <3>. QED BY <1>0, <2>1, <3>1 DEF StepIsTrue
  <2>3. CASE PutThumbnail(w)
    <3>1. /\ processing[w].step = "decoded" /\ processing'[w].step = "stored"
          /\ processing[w].photo \in thumbnails'
      BY <1>0, <2>3 DEF PutThumbnail, Processing
    <3>. QED BY <1>0, <2>1, <3>1 DEF StepIsTrue
  <2>. QED BY <1>3, <2>2, <2>3
<1>4. ASSUME NEW w \in Processors,
             FailPermanently(w) \/ ProcessMarks(w) \/ ProcessFails(w) \/ ProcessorStops(w)
      PROVE  StepIsTrue'
  BY <1>0, <1>1, <1>4 DEF FailPermanently, ProcessMarks, ProcessFails, ProcessorStops
<1>5. CASE processing' = processing
  BY <1>1, <1>5
<1>. QED BY <1>2, <1>3, <1>4, <1>5
         DEF Next, ProcessorStep, CleanerStep, vars, photoVars, Reserve, Age, ExpireUrl, Put,
             CompleteReads, CompleteStats, CompleteCommits, RequeueStaleJob, ClaimAbandoned,
             DeleteObject, DeleteRow, CleanupEnds, CleanupFails, WorkerStarts

\* A row of photo.process is deleted when its photo is not uploaded any more.
LEMMA JobStays ==
  Base /\ [Next]_vars =>
    \A p \in Photos : job[p].state # "none" /\ job'[p].state = "none" => status'[p] # "uploaded"
<1>. SUFFICES ASSUME Base, [Next]_vars, NEW p \in Photos,
                     job[p].state # "none", job'[p].state = "none"
              PROVE  status'[p] # "uploaded"
  OBVIOUS
<1>0. /\ status \in [Photos -> Statuses] /\ job \in [Photos -> JobRow] /\ AtWorkOnPhoto
      /\ NotProcessing.step = "idle"
  BY DEF Base, TypeOK, JobRow, NotProcessing
<1>1. ASSUME NEW q \in Photos, CompleteCommits(q) PROVE FALSE
  BY <1>0, <1>1 DEF CompleteCommits, EnqueueProcessing
<1>2. ASSUME NEW q \in Photos, RequeueStaleJob(q) PROVE FALSE
  BY <1>0, <1>2 DEF RequeueStaleJob, JobRow
<1>3. ASSUME NEW w \in Processors, NEW q \in Photos, ProcessReads(w, q) PROVE status'[p] # "uploaded"
  <2>1. CASE status[q] = "processed"
    BY <1>0, <1>3, <2>1, JobUpdates DEF ProcessReads, photoVars
  <2>2. CASE status[q] # "processed"
    BY <1>0, <1>3, <2>2 DEF ProcessReads, JobRow
  <2>. QED BY <2>1, <2>2
<1>4. ASSUME NEW w \in Processors, FailPermanently(w) PROVE status'[p] # "uploaded"
  <2>1. processing[w].photo \in Photos
    BY <1>0, <1>4 DEF FailPermanently, AtWorkOnPhoto
  <2>2. p = processing[w].photo
    BY <1>0, <1>4, <2>1, JobUpdates DEF FailPermanently
  <2>. QED BY <1>0, <1>4, <2>1, <2>2, StatusUpdates DEF FailPermanently, Exists, Statuses
<1>5. ASSUME NEW w \in Processors, ProcessMarks(w) PROVE status'[p] # "uploaded"
  <2>1. processing[w].photo \in Photos
    BY <1>0, <1>5 DEF ProcessMarks, AtWorkOnPhoto
  <2>2. p = processing[w].photo
    BY <1>0, <1>5, <2>1, JobUpdates DEF ProcessMarks
  <2>. QED BY <1>0, <1>5, <2>1, <2>2, JobUpdates DEF ProcessMarks
<1>6. ASSUME NEW w \in Processors, ProcessFails(w) \/ ProcessorStops(w) PROVE FALSE
  <2>1. processing[w].photo \in Photos
    BY <1>0, <1>6 DEF ProcessFails, ProcessorStops, AtWorkOnPhoto
  <2>2. CASE ProcessFails(w)
    BY <1>0, <2>1, <2>2, JobUpdates DEF ProcessFails
  <2>3. CASE ProcessorStops(w)
    BY <1>0, <2>1, <2>3 DEF ProcessorStops, JobRow
  <2>. QED BY <1>6, <2>2, <2>3
<1>7. CASE job' = job
  BY <1>7
<1>. QED BY <1>1, <1>2, <1>3, <1>4, <1>5, <1>6, <1>7
         DEF Next, ProcessorStep, CleanerStep, vars, Reserve, Age, ExpireUrl, Put, CompleteReads,
             CompleteStats, ProcessDecodes, PutThumbnail, ClaimAbandoned, DeleteObject, DeleteRow,
             CleanupEnds, CleanupFails, WorkerStarts

LEMMA StepIInv == IInv /\ [Next]_vars => IInv'
<1>. SUFFICES ASSUME IInv, [Next]_vars PROVE IInv'
  OBVIOUS
<1>0. /\ Base /\ ClaimedIsOver /\ FoundIsStored /\ StepIsTrue
      /\ \A p \in Photos : status'[p] = status[p] \/ Changes(p)
  BY StatusChange DEF IInv
<1>1. Base' /\ ClaimedIsOver' /\ FoundIsStored' /\ StepIsTrue'
  BY <1>0, BaseStep, ClaimStep, FoundStep, StepTrueStep
<1>2. ProcessedDecodes'
  BY <1>0 DEF IInv, ProcessedDecodes, StepIsTrue, Changes
<1>3. TakenOverIsStored'
  <2>1. /\ \A p \in objects \ objects' : status'[p] \in {"failed", "deleted"}
        /\ thumbnails \subseteq thumbnails'
    BY <1>0, StoredStays
  <2>. QED BY <1>0, <2>1 DEF IInv, TakenOverIsStored, FoundIsStored, StepIsTrue, Changes
<1>4. UploadedHasJob'
  BY <1>0, JobStays DEF IInv, UploadedHasJob, Changes
<1>. QED BY <1>1, <1>2, <1>3, <1>4 DEF IInv

LEMMA Invariance == Spec => []IInv
  BY InitIInv, StepIInv, PTL DEF Spec
-----------------------------------------------------------------------------

\* Rows of photos and jobs, requests, handlers and claims have their types.
THEOREM TypeCorrect == Spec => []TypeOK
<1>1. IInv => TypeOK
  BY DEF IInv, Base
<1>. QED BY <1>1, Invariance, PTL

\* Complete against the cleanup: the object of a photo that was taken over is
\* in the store, and so is the thumbnail of one that was processed.
THEOREM TakenOverStaysStored == Spec => []TakenOverIsStored
<1>1. IInv => TakenOverIsStored
  BY DEF IInv
<1>. QED BY <1>1, Invariance, PTL

\* Complete marks and enqueues in one transaction, and handlers delete the row
\* of no photo that is still uploaded.
THEOREM UploadedKeepsJob == Spec => []UploadedHasJob
<1>1. IInv => UploadedHasJob
  BY DEF IInv
<1>. QED BY <1>1, Invariance, PTL

\* MarkPhotoFailed looks at no status, and yet a processed photo stays so: its
\* file decodes for every handler.
THEOREM ProcessedIsFinal == Spec => ProcessedStays
<1>1. IInv /\ [Next]_vars => [\A p \in Photos : status[p] = "processed" => status'[p] = "processed"]_vars
  BY StatusChange DEF IInv, StepIsTrue, ProcessedDecodes, Changes
<1>. QED BY <1>1, Invariance, PTL DEF Spec, ProcessedStays
=============================================================================
