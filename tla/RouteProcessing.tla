-------------------------- MODULE RouteProcessing --------------------------
(***************************************************************************)
(* GPS ingestion and the derived route of one journey: tracking.Service    *)
(* Ingest, the track.process handler (Processor) and the track.match       *)
(* handler (Matcher), over the statements of queries/tracking.sql.         *)
(*                                                                         *)
(* Workers interleave at the statements that read and the transactions     *)
(* that write.  A job row is queued, running or dead; RequeueStale is the  *)
(* startup recovery that gives a running row to a second worker.  Claiming a *)
(* row and the first read of its handler are one step: a row that is       *)
(* claimed and not begun absorbs inserts like one that is queued.          *)
(***************************************************************************)
EXTENDS Naturals, Cleaner

CONSTANTS
  Batches,       \* the batches it sends them in: sets of samples.  A batch sent
                 \* again holds all that has no answer yet, and so may differ
                 \* from the first try although it ends with the same sample
  LastOf(_),     \* the last sample of a batch, which names its job
  Flagged,       \* samples Ingest stores as not accepted
  Workers,
  MaxCalls,      \* bound: batches that arrive, repeats included
  MaxFaults      \* bound: failed handlers and recoveries of running rows

ASSUME BatchAssumption == \A b \in Batches : b \subseteq Samples /\ LastOf(b) \in b
ASSUME FlaggedAssumption == Flagged \subseteq Samples

VARIABLES
  active,      \* the journey is active
  samples,     \* rows of location_samples
  accepted,    \* those with is_accepted
  segments,    \* rows of route_segments
  routes,      \* times the segments were replaced, for their ids
  processJob,  \* the track.process row named by each last sample
  matchJob,    \* the track.match row of the journey
  worker,      \* per worker: the handler it runs and what that read
  processed,   \* history: samples some committed processing had read
  absorbed,    \* history: samples that came when a handler was at the job of
               \* their batch, and in no later batch that left it a row
  overlapped,  \* history: two workers were at jobs of the journey at once
  calls,       \* batches so far (bounded by MaxCalls)
  faults       \* failures and recoveries so far (bounded by MaxFaults)

vars == <<active, samples, accepted, segments, routes, processJob, matchJob,
          worker, processed, absorbed, overlapped, calls, faults>>

JobStates == {"none", "queued", "running", "dead"}
NoSample == "no sample"
Idle == [step |-> "idle", job |-> NoSample, read |-> {}, kept |-> {}, todo |-> {}]

SegmentRows == [route : Nat, points : SUBSET Samples, matched : BOOLEAN]

Init ==
  /\ active = TRUE
  /\ samples = {} /\ accepted = {}
  /\ segments = {} /\ routes = 0
  /\ processJob = [s \in Samples |-> "none"]
  /\ matchJob = "none"
  /\ worker = [w \in Workers |-> Idle]
  /\ processed = {} /\ absorbed = {}
  /\ overlapped = FALSE
  /\ calls = 0 /\ faults = 0

\* A worker takes a job of the journey; others may be at one already.
Takes(w) == overlapped' = (overlapped \/ \E v \in Workers \ {w} : worker[v] # Idle)

\* EnqueueJob: any row with the key absorbs the insert.
Enqueued(state) == IF state = "none" THEN "queued" ELSE state

\* A handler is at the job: it has read the track and not completed the row.
AtJob(s) == \E w \in Workers : worker[w].step \in {"processing", "processed"} /\ worker[w].job = s

(***************************************************************************)
(* Ingest: one transaction under the lock of the active journey.  Samples  *)
(* already stored are left alone, but the job is enqueued by every batch:  *)
(* under the batch's last sample, whose row may be there already, and may  *)
(* be at work on a track that was read before.                             *)
(***************************************************************************)
InsertLocationSamples(b) == b \ samples

Ingest(b) ==
  /\ active
  /\ calls < MaxCalls
  /\ calls' = calls + 1
  /\ samples' = samples \cup InsertLocationSamples(b)
  /\ accepted' = accepted \cup (InsertLocationSamples(b) \ Flagged)
  /\ processJob' = [processJob EXCEPT ![LastOf(b)] = Enqueued(@)]
  /\ absorbed' = IF AtJob(LastOf(b)) THEN absorbed \cup InsertLocationSamples(b) ELSE absorbed \ b
  /\ UNCHANGED <<active, segments, routes, matchJob, worker, processed, overlapped, faults>>

\* CompleteJourney; batches that arrive later are refused.
EndJourney ==
  /\ active
  /\ active' = FALSE
  /\ UNCHANGED <<samples, accepted, segments, routes, processJob, matchJob,
                 worker, processed, absorbed, overlapped, calls, faults>>

(***************************************************************************)
(* track.process.  The samples are read before the transaction begins;     *)
(* flags, segments and the match job are written in one transaction.       *)
(***************************************************************************)

\* Mutant of ListLocationSamplesForProcessing: only what no run has read yet.
ListNewLocationSamples(s) ==
  [Idle EXCEPT !.step = "processing", !.job = s, !.read = samples, !.kept = accepted \ processed]

ListLocationSamplesForProcessing(s) ==
  [Idle EXCEPT !.step = "processing", !.job = s, !.read = samples, !.kept = accepted]

ProcessReads(w, s) ==
  /\ worker[w] = Idle
  /\ processJob[s] = "queued"
  /\ processJob' = [processJob EXCEPT ![s] = "running"]
  /\ worker' = [worker EXCEPT ![w] = ListLocationSamplesForProcessing(s)]
  /\ Takes(w)
  /\ UNCHANGED <<active, samples, accepted, segments, routes, matchJob, processed, absorbed, calls, faults>>

\* What the cleaner makes of the accepted samples: those it rejects, and how it
\* splits the others.
Rejects(S) == Clean(S).rejected
Segments(S) == Clean(S).segments

UpdateLocationSampleQuality(rejected) == accepted \ rejected

\* The rows left, none of the journey's.
DeleteRouteSegments == {}

CreateRouteSegment(p) == [route |-> routes + 1, points |-> p, matched |-> FALSE]

\* Mutant of EnqueueMatch: nothing is enqueued.
EnqueueNothing == matchJob

EnqueueMatch == Enqueued(matchJob)

ProcessCommits(w) ==
  /\ worker[w].step = "processing"
  /\ routes' = routes + 1
  /\ accepted' = UpdateLocationSampleQuality(Rejects(worker[w].kept))
  /\ segments' = DeleteRouteSegments \cup {CreateRouteSegment(p) : p \in Segments(worker[w].kept)}
  /\ matchJob' = EnqueueMatch
  /\ processed' = processed \cup worker[w].read
  /\ worker' = [worker EXCEPT ![w].step = "processed"]
  /\ UNCHANGED <<active, samples, processJob, absorbed, overlapped, calls, faults>>

(***************************************************************************)
(* track.match.  The segments are listed once; every one is matched by the *)
(* routing service and then updated by its id, if it is still there.       *)
(***************************************************************************)
ListRouteSegmentsForMatching == segments

MatchLists(w) ==
  /\ worker[w] = Idle
  /\ matchJob = "queued"
  /\ matchJob' = "running"
  /\ worker' = [worker EXCEPT ![w] = [Idle EXCEPT !.step = "matching", !.todo = ListRouteSegmentsForMatching]]
  /\ Takes(w)
  /\ UNCHANGED <<active, samples, accepted, segments, routes, processJob, processed, absorbed, calls, faults>>

SameSegment(g, h) == g.route = h.route /\ g.points = h.points

\* Mutant of UpdateMatchedRouteSegment: an upsert, which brings old segments back.
UpsertMatchedRouteSegment(g) ==
  {h \in segments : ~SameSegment(g, h)} \cup {[g EXCEPT !.matched = TRUE]}

UpdateMatchedRouteSegment(g) ==
  {IF SameSegment(g, h) THEN [h EXCEPT !.matched = TRUE] ELSE h : h \in segments}

MatchNext(w) ==
  /\ worker[w].step = "matching"
  /\ \E g \in worker[w].todo :
       /\ worker' = [worker EXCEPT ![w].todo = @ \ {g}]
       /\ segments' = UpdateMatchedRouteSegment(g)
  /\ UNCHANGED <<active, samples, accepted, routes, processJob, matchJob, processed, absorbed, overlapped, calls, faults>>

\* Mutant of Completed: the row is left running.
CompletedNothing(state) == state

\* CompleteJob deletes the row if it is still running.
Completed(state) == IF state = "running" THEN "none" ELSE state

Complete(w) ==
  /\ \/ /\ worker[w].step = "processed"
        /\ processJob' = [processJob EXCEPT ![worker[w].job] = Completed(@)]
        /\ UNCHANGED matchJob
     \/ /\ worker[w].step = "matching"
        /\ worker[w].todo = {}
        /\ matchJob' = Completed(matchJob)
        /\ UNCHANGED processJob
  /\ worker' = [worker EXCEPT ![w] = Idle]
  /\ UNCHANGED <<active, samples, accepted, segments, routes, processed, absorbed, overlapped, calls, faults>>

\* Mutant of Retried: the error is swallowed and the row removed.
RetriedNever(state) == IF state = "running" THEN {"none"} ELSE {state}

\* The handler fails before its next write: the row is queued again, or dead
\* when that was its last attempt; or the worker stops and leaves it running.
\* (How many attempts there were is left to JobQueue.)
Retried(state) == IF state = "running" THEN {"queued", "dead", "running"} ELSE {state}

Fails(w) ==
  /\ worker[w] # Idle
  /\ faults < MaxFaults
  /\ faults' = faults + 1
  /\ worker' = [worker EXCEPT ![w] = Idle]
  /\ IF worker[w].step = "matching"
     THEN matchJob' \in Retried(matchJob) /\ UNCHANGED processJob
     ELSE /\ \E state \in Retried(processJob[worker[w].job]) :
               processJob' = [processJob EXCEPT ![worker[w].job] = state]
          /\ UNCHANGED matchJob
  /\ UNCHANGED <<active, samples, accepted, segments, routes, processed, absorbed, overlapped, calls>>

\* A worker that starts takes back rows locked for too long, although their
\* holder may still be at work.
RequeueStale ==
  /\ faults < MaxFaults
  /\ faults' = faults + 1
  /\ \/ /\ matchJob = "running"
        /\ matchJob' = "queued"
        /\ UNCHANGED processJob
     \/ /\ \E s \in Samples : processJob[s] = "running"
                              /\ processJob' = [processJob EXCEPT ![s] = "queued"]
        /\ UNCHANGED matchJob
  /\ UNCHANGED <<active, samples, accepted, segments, routes, worker, processed, absorbed, overlapped, calls>>

WorkerStep(w) ==
  \/ \E s \in Samples : ProcessReads(w, s)
  \/ ProcessCommits(w) \/ MatchLists(w) \/ MatchNext(w) \/ Complete(w)

Next ==
  \/ \E b \in Batches : Ingest(b)
  \/ EndJourney
  \/ \E w \in Workers : WorkerStep(w) \/ Fails(w)
  \/ RequeueStale

Spec == Init /\ [][Next]_vars

\* Workers keep polling and their handlers come to an end: track.match gives its
\* calls of the routing service 20 seconds, the rest is database calls.  That
\* the workers' handlers of other jobs end is assumed here.
FairSpec == Spec /\ \A w \in Workers : WF_vars(WorkerStep(w))
-----------------------------------------------------------------------------

TypeOK ==
  /\ active \in BOOLEAN
  /\ samples \subseteq Samples
  /\ accepted \subseteq samples /\ processed \subseteq samples /\ absorbed \subseteq samples
  /\ segments \subseteq SegmentRows
  /\ routes \in Nat /\ calls \in Nat /\ faults \in Nat
  /\ processJob \in [Samples -> JobStates]
  /\ matchJob \in JobStates
  /\ overlapped \in BOOLEAN
  /\ worker \in [Workers ->
       [step : {"idle", "processing", "processed", "matching"}, job : Samples \cup {NoSample},
        read : SUBSET Samples, kept : SUBSET Samples, todo : SUBSET SegmentRows]]

HasRow(s) == \E b \in Batches : s \in b /\ processJob[LastOf(b)] # "none"

\* What the design document promises of Ingest, that a batch and its job are
\* stored together: every stored sample was read by a processing that committed,
\* or a track.process row of a batch it came in is still there.
EverySampleHasWork == \A s \in samples \ processed : HasRow(s)

\* No point is forgotten except by one way: it came in a repeated batch, with
\* others, while a handler that had not read it was at the job of that batch.
\* Failures, recoveries, dead rows and workers that meet lose none.
WorkUnlessAbsorbed == \A s \in samples \ (processed \cup absorbed) : HasRow(s)

\* The rows of the route always come from one processing and have different
\* points, whatever a matcher that still works on an older route does.
RouteFromOneRun ==
  \A g, h \in segments : g.route = h.route /\ (g.points = h.points => g = h)

\* What the design asks of the cleaner, of the route as it is stored: no line
\* is drawn across a gap, to an impossible place or within the noise, in
\* whichever batches and runs the samples were cleaned.
RouteIsTraversable == \A g \in segments : Traversable(g.points)

Drained == \A s \in Samples : processJob[s] = "none"

\* What the runbook promises of workers that compete for jobs: when no
\* processing is left to do, the route shows every sample that was read and
\* kept, so no older view of the samples replaced a newer one.
DrainedRouteIsCurrent ==
  Drained => {g.points : g \in segments} = Segments(accepted)

\* What the design document promises of track.match: a segment that is not
\* matched has a track.match row that will get to it.
UnmatchedHasJob ==
  (\E g \in segments : ~g.matched) => matchJob # "none"

\* Both hold, through failures, stops and recoveries, as long as no two workers
\* have been at jobs of the journey at the same time; the first while no sample
\* that was absorbed waits for a later batch.
CurrentWithoutOverlap ==
  ~overlapped /\ absorbed \subseteq processed => DrainedRouteIsCurrent
MatchedWithoutOverlap == ~overlapped => UnmatchedHasJob

\* As long as nothing fails every stored sample that was not absorbed is
\* processed in the end, and every segment matched if no two jobs overlap.
RouteSettles ==
  [](faults = 0) =>
    []<>(samples \subseteq processed \cup absorbed /\ (overlapped \/ \A g \in segments : g.matched))
=============================================================================
