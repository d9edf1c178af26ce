# Pinerary: a TLA+ model of the backend and of the web client

Pinerary records journeys (outings that expire after a while, and trips), the
stops pinned on the way, the GPS samples of the route, and photos.  A Go API and
Go workers share a PostgreSQL database and an S3-compatible object store; a web
client keeps an outbox in IndexedDB and delivers it when it can.  Almost
everything that is hard about it lies between two statements: jobs that run
twice, requests that are repeated because their answer was lost, reads that are
stale when they are used, and captures that wait on a device while the journey
they belong to ends.

The modules here model that.  TLC checks them on small instances, and the
`*Proofs` modules prove the results that matter most for every value of the
constants.  Paths below are relative to `src/`; backend paths to
`src/backend/internal/`.

## 1. Inventory

| Component | State | Operations | Talks to |
| --- | --- | --- | --- |
| Job queue: `jobs/runner.go`, `database/queries/jobs.sql`, `cmd/worker` | rows of `background_jobs` (state, key, attempts, run_at, lock) | enqueue, claim a batch, complete, retry, requeue stale rows at startup | every handler below |
| Journeys and outing expiry: `journeys/service.go`, `notifications/lifecycle.go`, `httpapi/journeys.go` | rows of `journeys` (kind, status, label, version) | create (idempotent), rename, complete, convert, get; job `outing.expire` | the queue |
| Timeline: `places/service.go`, `queries/places.sql` | `places`, `journey_stops` numbered per journey | pin and save (idempotent), update and delete a place, update a stop | journeys, by row lock |
| Sharing: `sharing/service.go` | `itinerary_shares` with their snapshots | create (three reads, one insert), resolve, revoke | journeys, timeline, photos |
| Route: `tracking/*.go`, `queries/tracking.sql` | `location_samples`, `route_segments` | ingest a batch; jobs `track.process`, `track.match` | journeys, queue, Valhalla |
| Track cleaner: `tracking/cleaner.go` | none | reject outliers, cut a track into segments | route |
| Photos: `media/*.go`, `queries/photos.sql` | `photos`, objects and thumbnails | reserve, upload to a presigned URL, complete; jobs `photo.process`, `photo.cleanup` | queue, object store |
| Outing warning and Web Push: `notifications/` | `devices` with their subscriptions | job `outing.warn`; register and delete a device | queue, push services |
| Rate limiter: `httpapi/ratelimit.go` | windows in memory | allow, sweep | API requests |
| Place search: `placesearch/`, `queries/geocoding.sql` | cache rows, daily usage, the provider client's slot | search, reserve budget, wait for the slot, cache | Geoapify |
| Search box of the client: `web/src/lib/place-search.ts`, `web/src/app/places/page.tsx` | generation, timer, what the page shows | schedule, run now, cancel, callbacks | place search |
| Outbox of the client: `web/src/lib/repository.ts`, `sync.ts`, `db.ts` | IndexedDB: journeys, stops, samples, outbox records | capture, finish, synchronise, pull | the API |
| Reverse geocoding, identity, profile, router, nearby places, routing client, telemetry, configuration, migrations, pages, service worker | none, or one row per request | | |

What is hard:

- **Interleaving.**  Any number of workers claim with `FOR UPDATE SKIP LOCKED`;
  handlers read outside the transaction they write in (`tracking/processor.go`,
  `media/service.go`, `notifications/lifecycle.go`); a share is read in three
  statements; every `await` of the client lets the user act.
- **Crashes.**  A worker's claim outlives it.  Recovery runs only when a worker
  starts and only on locks older than 15 minutes.
- **Lost answers and retries.**  Create, pin, save, ingest, reserve, complete and
  register are all repeated by the client.
- **Absorbed work.**  `EnqueueJob` does nothing while any row with the key is
  there, a running or a dead one included.
- **No deadlines.**  Handlers run on a context without one (`jobs/runner.go:102`), and
  neither the push client nor the object store's transport has a timeout.
- **Order.**  The client promises captures before the end of their journey, over
  calls that fail one by one and batches of 500 samples; answers of superseded
  searches arrive after newer searches began.
- **Limits.**  A fixed window, a daily budget and a minimum delay are each kept by
  a different mechanism (a mutex, an upsert, a mutex held while a timer runs).

`PROJECT.json` lists these hazards at their lines with the properties that look
for each of them.

## 2. Modules

| Module | Models | Checked by | Proved in |
| --- | --- | --- | --- |
| `AtLeastOnce` | what the queue promises whoever enqueues | refinement from `JobQueue` | |
| `JobQueue` | the table, its statements, the worker loop | `queue` | `JobQueueProofs` |
| `Journeys` | journeys, versions, the expiry as two statements | `journeys`, `journeys_conversion` | `JourneysProofs` |
| `JourneyLog` | what a journey promises those who pin to it | refinement from `Timeline` | |
| `Timeline` | pins under the row lock, places, stops | `itinerary` | `ItineraryProofs` |
| `Sharing` | Create, Resolve and Revoke, over `Timeline` | `itinerary` | `ItineraryProofs` |
| `Cleaner` | the pass of `tracking.Clean` | `route` | `RouteProofs` |
| `RouteProcessing` | ingestion and the derived route of a journey, over `Cleaner` | `route`, `route_stale` | `RouteProofs` |
| `PhotoUploads` | photo rows and the object store | `photos` | `PhotoProofs` |
| `OutingWarning` | the warning, devices and their subscriptions | `outing_warning` | `JourneysProofs` |
| `RateLimiter` | the fixed-window limiter | `search`, `Limiter.cfg` | `PlaceSearchProofs` |
| `PlaceSearch` | the search endpoint, over `RateLimiter` | `search` | `PlaceSearchProofs` |
| `SearchBox` | the coordinator and the page, over `PlaceSearch` | `search` | `PlaceSearchProofs` |
| `Delivery` | what offline capture promises | refinement from `Outbox` | |
| `Outbox` | capture, delivery, pull, and what the API answers | `outbox`, `outbox_long_trip`, `outbox_lost_sample` | `OutboxProofs` |
| `Induction` | lemmas on passes over a sequence | | itself |
| `MC<Module>` | instances for TLC | | |

Definitions that begin as a comment "Mutant of ..." are plausible faults of the
action they precede, and are in no next-state relation.  They show that each
property can fail.

**JobQueue.**  A row keeps `wait`, the time to its `run_at`, and `age`, the time
since it was locked, both saturating; `Tick` moves them.  `ClaimNextJobs`,
`Handle`, `HandlerReturns`, then `CompleteJob` or `RetryJob` are separate steps
of a worker, as in `Runner.work` and `Runner.handle`.  `RequeueStaleJobs` is part
of `Start`, since `Run` calls it once, before it polls.  `ClaimLost`,
`SettleFails` and `Stop` are the faults.

**How the other modules use the queue.**  They do not repeat its loop: a handler
is a read step and later write steps, a row stays claimable while a handler is at
it (what `AtLeastOnce` allows), it is removed when a handler succeeds, it is dead
after its last attempt, and it may stay running with nobody at it.  `JobQueue`
implementing `AtLeastOnce` is why that is a fair account of the real queue.

**Journeys.**  `seen` is what each installation last saw, so a lost response is an
update that leaves `seen` behind.  The expiry's read (`HandleExpiryRead`) and its
update (`HandleExpiryUpdate`) are apart.

**Timeline.**  `Pin` is split where another request may get in: the early read of
an existing stop, `LockActiveJourney`, `NextJourneyStopSequence`, and the insert
with the commit.  A place is "none", "live", "edited" or "deleted", and `edited`
holds the stops whose text was changed: what a late repeat may not undo.  The rows of
a journey by their numbers are the log of `JourneyLog` (`ImplementsJourneyLog`): each
pin is written once, one after the other and only while the journey is active, and
nothing is taken out or moved.

**Sharing.**  `Sharing` extends `Timeline`: pins, edits, deletions and the end of the
journey go on between `GetJourney`, `ReadStops`, `ReadPhotos` and
`CreateItineraryShare`.  `ResolveReads` and `ResolveSigns` are apart, so that a
revocation can come between the read of the row and the signing of the URLs.

**RouteProcessing and Cleaner.**  One journey.  `RouteProcessing` extends `Cleaner`:
what a processing rejects and the segments it makes are those of the pass (`Clean`) over
the samples it read.  The great-circle distance, the accuracies and the list in the order
of the query (`Track`) are parameters; `MCRouteProcessing` gives concrete ones.  Claiming a
row and the first read of its handler are one step.

A job is named by the last sample of a batch, and the client builds a repeated batch from
all that has no answer yet, in the order of its times: two batches with one name may have
different samples.  `Batches` may therefore be any sets of samples.  Two history variables
say what happened on the way: `absorbed` has the samples that came when a handler was at
the job of their batch, until a later batch with them leaves a row, and `overlapped` is
whether two workers met at jobs of the journey.

**PhotoUploads.**  Rows and objects are separate state, and each database
statement and object call is a step.  The client's PUT may arrive at any time
while its URL is valid.  Whether a file decodes is a constant of the photo, since its
object is written under one URL: a late handler that fails a photo another handler
processed (`MarkPhotoFailed` does not look at the status) is outside the model.

**OutingWarning.**  The handler lists the subscriptions once and pushes one by one;
`ClearDevicePushSubscription` follows each push the service calls gone.  A browser may
subscribe, be unsubscribed by its service, register and delete its row meanwhile.  Of
the journey only `outing` is left, whether it is an active outing; that it never is one
again is a theorem about `Journeys` (`OutingIsOverForGood`).

**RateLimiter, PlaceSearch, SearchBox.**  Three layers.  `Allow` is a whole request
under the limiter's mutex.  `PlaceSearch` puts it in front of the cache read, the
reservation, `WaitForSlot` (which takes the mutex and keeps it while its timer runs),
`TakeSlot` (which records the time and unlocks), `Send` (the request, however long after),
the provider's answer and the cache write.  `SearchBox` is the caller: the
coordinator's generation is kept as `current`, the search whose generation it still
is.

**Outbox.**  One tab, one journey, its pins and samples.  The executor stops at
every `await`: dispatch, the server's step, the write of the answer, the removal
of the record.  Records are ordered by `createdAt`.  `ChangeElsewhere` is another
installation or the expiry.  `Delivery` is what all of this is for (`ImplementsDelivery`):
an item is captured once, reaches the server after that, counts as synced after that and
for good, and the record of a pin waits until then.

## 3. Runs

| Run | Question | Instance | States |
| --- | --- | --- | --- |
| `queue` | leases, duplicates, attempts, dead rows, refinement, and that a row is settled unless a fault strands it or a handler hangs | 2 workers, 2 rows, batches of 2, 2 attempts, 1 fault | 707,708 |
| `journeys` | versions, expiry, final ends | 2 installations, 2 workers, an outing and a trip, versions to 3 | 177,752 |
| `journeys_conversion` | is a conversion safe from the expiry? No | 1 installation, 1 worker | |
| `itinerary` | numbering, the timeline as a log, no endless wait; snapshots and revocation | 2 calls, 2 pins, 1 saved place, 2 changes, 1 share, 1 photo | 200,008 |
| `route` | nothing is forgotten but what a running job absorbs; current and matched without overlap; traversable segments | 2 workers, 8 samples in 2 overlapping batches, one of them with a shorter first try, 3 calls, 2 faults | 633,250 |
| `route_stale` | is a drained route current with two workers? No | no fault, no shorter first try | |
| `photos` | objects of photos the server has taken over; everything ends | 2 processors, 1 cleaner, a photo reserved twice, 1 fault | 99,869 |
| `outing_warning` | is a done job's warning complete, is every device warned, and are dead subscriptions cleared, unless a push hangs? | 2 workers, 2 devices, 2 and 1 subscriptions, 2 attempts | 584,038 |
| `search` | budget, slot and the newest search | 2 searches of the box, 1 other call, limit 1, budget 1 | 989,992 |
| `outbox` | order, captures are delivered as `Delivery` says, and the outbox drains | 1 pin, 2 samples, uploads of 1, 1 failure, 2 edits elsewhere | 2,338,984 |
| `outbox_long_trip` | is the end sent after the captures? No | no failure | |
| `outbox_lost_sample` | has every unsent sample a record? No | no failure | |

Four configurations answer a narrower question each and are run by hand.  The first three
end with a counterexample, the last one passes (304,143 states).

| Configuration | Question | Instance |
| --- | --- | --- |
| `RouteRetry.cfg` of `MCRouteProcessing` | does every stored sample have work (`EverySampleHasWork`)? No | 1 worker, no fault |
| `OutingWarningHangs.cfg` of `MCOutingWarning` | does a push that never ends leave the other devices alone (`NoPushStopsTheOthers`)? No | 1 worker, no fault |
| `SearchRate.cfg` of `MCSearchBox` | do no more requests leave in a second than there are slots (`RateHolds`)? No | 3 calls, 2 slots a second |
| `Limiter.cfg` of `MCRateLimiter` | does twice the limit pass, and never more (`AtMostTwiceTheLimit`)? Yes | 2 keys, limit 2, a window of 2 in 7 ticks |

What they show:

- The queue keeps its promise: a row that recovery never took back is in one
  worker's hands, a handler's success is repeated once per recovery at most, and
  attempts exceed the limit by recoveries at most.  Recovery leaves a row alone within its
  lease.  A dead row stays, whichever late worker
  settles it.  Every row is settled, with two exceptions: after a stop or a lost database call a
  row may stay running for as long as no worker starts more than 15 minutes later
  (`Stranded`), and a handler that never returns keeps its batch (`HangsOver`) or, if every
  worker has one, the whole queue (`Hangs`).
- Optimistic concurrency of journeys is sound, and neither a late repeat nor an
  expiry reopens or ends a journey twice.  But a conversion that commits between
  the handler's check and its update lets a trip expire.
- Stops are numbered 1 .. n whatever races; the row lock alone keeps two pins
  apart.  A late repeat of a pin or a save undoes no edit and no deletion.
- A share that says when its journey ended is complete for ever although it was
  read in three statements, because the journey is read first and no stop joins a
  journey that is over.  A share of an active journey may lack later stops, but its
  positions are the timeline's.  Once revoked, a share's photo URLs lapse for good.
- A sample can be forgotten in one way: it comes in a repeated batch with the same last
  sample while the job of the first try has read the track and is not completed.  The
  running row absorbs the request (`queries/jobs.sql:4`) and is then deleted, although the
  design has a batch and its job commit together (`docs/backend-detailed-design.md:883`);
  the route lacks the sample until another batch comes (`RouteRetry.cfg`).  A sample that is not lost so
  (`WorkUnlessAbsorbed`) keeps a row until a processing has read it, through failures,
  dead rows, recoveries and workers that meet.  With two workers the queue may drain with an
  older route in place, and segments may stay unmatched (`UnmatchedHasJob`, taken as
  the invariant of `RouteStale.cfg`, fails as well).  Both need two jobs of
  the journey to overlap: `CurrentWithoutOverlap` and `MatchedWithoutOverlap`
  show that nothing else breaks them, failures and recoveries included (the first also
  waits for absorbed samples to come again).  However
  often a track is cleaned again, no segment crosses a gap or an impossible jump.
- Cleanup never deletes the object of a photo that is uploaded or processed: the
  claim changes the status, and completion looks at the status again.
- Every registered device is warned in the end, unless the outing ends, the attempts
  are used up, a worker stops with the row or a push never returns.  Nothing in
  the code prevents the last, since neither `notifications/webpush.go:38` nor
  `jobs/runner.go:102` sets a deadline, although outbound clients are meant to
  (`docs/architecture-design.md:284`, `OutingWarningHangs.cfg`).  A job that is done has warned all that kept
  their subscription, whatever dead ones were on its list.  A repeat pushes again to devices that
  were served.
- The limiter admits up to twice its limit around the edge of a window and never
  more, whatever its sweeps forget.  The provider gets no more requests than the
  day's budget.  No two calls get the client's slot within the minimum delay, and a
  cancelled wait hands it on; but the request leaves after the slot, so that a delayed one
  leaves with the next, and more may leave in a second than the four that
  `docs/place-search-implementation-plan.md:289` allows (`SearchRate.cfg`).  The box never shows the answer of a superseded search.
- A pin keeps its record through lost answers, reloads and pulls.  Samples do not:
  one recorded while an upload is on its way loses its record.  The end of a
  journey overtakes the samples one upload does not take.  A pin goes before the end
  of its journey as long as no call failed; after a failed call the end may overtake a
  pin that waits for its backoff.

**Bounds.**  Two workers and one row show every race for a row; the second row
makes a batch in which one row ages while the other is handled.  Two attempts give
a retry and a limit.  One fault is enough to strand a row or lose an answer, and
the route needs two, for a worker that stops and a recovery of its row.  Two
calls race for a number, and either repeats what the other did; two changes are
enough for an edit that a repeat could undo and a deletion.  One share meets every
interleaving of its three reads with the pins, and shares do not touch each other.
Two overlapping batches with a gap, noise, a jump, a repeated time and a sample that
ingestion flags give a route of two segments and rejections that depend on both
batches; the second one's first try lacks two samples, which a repeat then brings.  The phone subscribes twice so that a dead subscription can be replaced; the
laptop does not, which keeps the product in reach.  A budget of one is
passed by the second call and reached by the first; three ticks hold a change of day.  The
limiter has an instance of its own with a limit of two (`Limiter.cfg`), where seven ticks hold three windows:
the fifth request of a key, the first that its bound speaks of, comes in the third.  Two samples and uploads of one give an upload that leaves
samples.  Versions, calls, faults, rows, edits and the clock are bounded by guards
with the constants `MaxVersion`, `MaxCalls`, `MaxFaults`, `MaxJobs`, `MaxChanges`,
`MaxEdits`, `MaxCreates`, `MaxSubscriptions`, `MaxTime`; what is proved needs none of
these bounds.  `journeys` has one label: that labels are covered by versions for any
number of them is the theorem `VersionsNameContent`.

**Deadlock.**  Checked for the queue, where time always passes.  Elsewhere the
system may rest with nothing left to do, and the cfg says so.

**Fairness.**

- Queue: `WF(Tick)`, since time passes, and `WF(LoopStep(w))`, since the loop polls
  every second and a stopped worker is restarted.  The return of a handler has none,
  because nothing in the code bounds one, and faults have none.
- Journeys: time reaches the expiry; workers take due jobs and finish them.  The expiry
  itself is database calls only, but it shares the worker with handlers that have no
  deadline: that those return is assumed here, and for the route and photos.
- Timeline and sharing: a transaction that holds the row lock ends, by commit or
  rollback, with strong fairness for the lock, which PostgreSQL grants in queue order;
  a `Resolve` that began ends, and signed URLs expire.  A request that waits need not
  be cancelled, and nobody need revoke a share.
- Route, photos: workers poll; requests in progress are answered; a day passes.  The
  routing service has 20 seconds; that MinIO calls return is assumed, since the code
  gives them no deadline.  Nothing says the client completes an upload.
- Outing warning: the hour of the warning comes, and workers take the job and go on
  when a push has returned.  Nothing says that a push succeeds, that it returns, or that
  a device registers.
- Search: time passes, each call's steps go on, answers are delivered and the debounce
  timer fires.  Users need not type, ask or dismiss.
- Outbox: the app flushes every 30 seconds while it is open
  (`web/src/components/app-provider.tsx:57`), every call returns, backoffs run
  out.  The user is never obliged to act.

## 4. Proofs

Every theorem holds for all values of the constants that the named assumptions
allow, for any number of workers, calls, captures and faults.  Most assumptions only say
that sets are finite, bounds are numbers, and that distinguished values are distinct.
Two say more, and TLC evaluates them on every run: `TrackAssumption` of `Cleaner` (the
list of a set of samples is in the order of the query's `ORDER BY captured_at, id`) and
`BoxAssumption` (the box numbers its searches in the order it makes them).

- **`Induction`.**  The provers cannot use an induction theorem with an operator
  parameter.  Induction is done over a set of numbers instead: a set with 0 and with the
  next of each of its members below N has all up to N, since what it lacked would have a
  least member (`IntervalInduction`).  From that follow that a function computed along a
  sequence exists and obeys its recursion (`RecursionComputes`), which is what the
  pass of the cleaner and the due list of the outbox are.
- **`JobQueueProofs`.**  Types, leasing, the bounds on attempts and duplicates,
  final dead rows, and `Spec => ImplementsPromise`.  Leasing alone is not
  inductive, because the settling statements look at the row's id and state and
  never at its holder.  The invariant counts: what a row's successes, the
  workers that may still report one, and one more if the row is claimable add up
  to is at most one plus its recoveries (`TriesLeft`).  Only a recovery
  adds to that sum; `ClaimsLeft` does the same for attempts, and `TriesMade`
  bounds successes by claims, which is what the refinement needs.  `LeaseRespected` follows
  from what a step may do to one row (`EveryRowStep`).
- **`JourneysProofs`.**  One active journey per owner, versions name contents,
  an active outing keeps its expiry, and an end is final.  `VersionIsContent` is
  inductive only with `SeenNotAhead`: an update must make a version nobody has
  seen.
- **`JourneysProofs`, the warning.**  A done job has warned every installation that kept its
  subscription.  The invariant follows such an installation: its row is as it was when the
  outing began (`RowIsKept`), so no worker's list has it with another subscription or finds
  it gone (`ListIsKept`), and a worker with the job has it still on its list or has pushed
  to it (`ListedOrWarned`).  A browser that subscribed again has another subscription
  (`InstalledSubscribed`), so nobody becomes one that kept it.
- **`ItineraryProofs`, the timeline.**  Contiguous numbers, one stop per pin, repeats
  that undo nothing, and `Spec => ImplementsJourneyLog`.  A step between the read of the
  highest number and the insert would break the numbers, so the invariant says who may
  be there: a call past the lock is the one the lock names, its journey is active, and
  its number is the cardinality of the stops plus one (`LockHeld`, `NumberIsNext`).
  Numbered stops are a sequence, and the stop a commit inserts is appended to it
  (`AppendStop`): every commit writes to the log and no other step does
  (`JourneyLogStep`).  That no stop joins a journey that is over (`TimelineIsClosed`)
  is proved apart as well.
- **`ItineraryProofs`, sharing.**  `ShareSpec => Spec`: sharing only reads the timeline,
  so the theorems above carry over.  The two snapshot theorems rest on what
  `Create` has in hand between its statements: stops that were read are numbered
  1 .. n (`ReadsNumbered`), and are all there will ever be if the journey was over
  (`ReadsComplete`, with `OverStays`); `PositionIsSequence` is the counting argument
  that turns a position into a number.
- **`RouteProofs`.**  Types, no forgotten sample but an absorbed one, routes of one run,
  and the two properties without overlap.  That a sample has work is inductive only with
  the promise that a row no handler is at will still read it: a sample that is neither
  processed nor absorbed is in a batch with a row, and any handler at that row's job has
  it among what it read (`Tended`).  The latter need what every worker holds to be said as
  long as nothing overlapped: at most one worker is at a job, and what it read is what
  the route lacks or has.  The cleaner is proved about by induction over a track
  (`ScanIsSound`): finished segments and the current one are linked listings of samples
  that were scanned, so no segment crosses a gap, an impossible jump, a time that does
  not advance or the noise, whatever the distance is (`CleanedIsTraversable`).
  `RouteStaysTraversable` carries that to the stored segments.  That cleaning what was kept makes
  the same segments again (`CleanAgain`), which a repeated processing relies on, is a
  second induction: the pass over the kept samples follows the first one (`FollowsOn`),
  because a rejected sample is nobody's previous one.
- **`PhotoProofs`.**  Types, stored objects, the job of an uploaded photo, and that
  processing is final.  A photo that a
  cleanup claimed is failed or deleted for good (`ClaimedIsOver`), and completion looks at
  the status in the statement that marks a photo uploaded; so an object that completion
  has found stays as long as its row can still be completed (`FoundIsStored`).
- **`PlaceSearchProofs`, the limiter.**  The bound of twice the limit.  The invariant (`Fits`) says
  of a key's history what its bucket still remembers: what came before this window's
  requests came before it began, and what came a limit earlier came a window before it
  began; a sweep forgets a bucket only when all of that is two windows old.
- **`PlaceSearchProofs`, the search.**  Two refinements, `Spec => SearchSpec` and
  `SearchSpec => LimiterSpec`, give the box's specification the limiter's theorem.
  `SlotsApart` needs that whoever waits holds the slot and counts from the last
  request (`SlotInv`); the budget that the calls on a day's budget are as many as the
  row of that day counts at most, and that no later day has any (`BudgetInv`), for
  which the quotient of a growing clock grows (`DivisionGrows`).  The newest search
  wins because searches start in the order of their numbers (`StartedInOrder`) and the
  one that counts is the last that started (`CurrentIsLatest`).
- **`OutboxProofs`.**  Types, the records of pins, what synced means, the two orders, and
  `Spec => ImplementsDelivery`.  What the executor has still to do is queued and named once
  (`TodoQueued`), and a key has one record at most that was not refused (`LiveOnce`), so
  the record it removes is the one whose answer it has just stored (`AnswerIsTrue`);
  that keeps the records of pins and gives the refinement its steps
  (`DeliveryStep`).  Nothing is sent under the journey's server id before its creation
  was answered (`Acknowledged`).  `EndAfterPins` needs the order kept three times: records
  are in the order of capture, the due list is in the order of the outbox
  (`TodoKeepsOrder`, by induction over the records), and what is before the end in the
  outbox is before it in the list (`EndLast`).  It holds only as long as no call failed, for
  then nothing waits for a backoff unless the creation was refused (`CreationFirst`,
  `DoomedIsUnknown`).

Every invariant, action property and refinement the passing runs check is proved, and
`AtMostTwiceTheLimit`.  Only
checked by TLC is all liveness, which rests on fairness and ENABLED: `SettledOrStranded`,
`OutingEnds`, `CallsEnd`, `RevokedIsGone`, `RouteSettles`, `UploadedIsHandled`,
`AbandonedIsRemoved`, `OutboxDrains`, `SpinnerStops`, `EveryDeviceIsWarned` and
`GoneIsCleared`.  The modules declare no RECURSIVE operator: passes over sequences are recursive
functions.

## 5. Not modelled

- Reverse geocoding: cache, call and write without budget or expiry, which
  `PlaceSearch` contains.  Nearby places and the routing client: a read and HTTP calls.
- Authentication and identity, the profile, the router, API description, configuration,
  telemetry and migrations: a token check by a library, or one row per request.
- Pages, rendering and the service worker, except where a page starts something the
  modules model.
- In the outbox `update_journey` and `update_stop`, which have no caller in the pages,
  and `save_place` and `upload_photo`, which follow the path of pins.
- In place search the two readings of the clock at midnight (the day a unit is reserved
  for and the day of the call are one), and a provider that is switched off.
- Text validation, formatting and listings.  A table operation that fails as a whole is
  a fault of the module that issues it.

One observation has no run.  `ClearDevicePushSubscription` names a device, not the
subscription that was pushed to (`notifications/lifecycle.go:58`): if the device
registers a new subscription between the list and the clear, the new one is removed.
`GoneIsCleared` and `EveryDeviceIsWarned` hold in spite of it, since they promise
nothing to a device whose subscription was replaced.

## 6. What is left

1. `Outbox` with photos, composed with `PhotoUploads` through the reservation, and with
   `JourneyLog` in place of its account of the server's stops.
2. `OutingWarning` composed with `Journeys`, with a journey's row in place of `outing`.
3. One account of a job's row for the handlers' modules, shown to be what `JobQueue`
   does with a row.

## 7. Running it

```
tlc -workers 2 -config JobQueueWorkers.cfg MCJobQueue
tlapm JobQueueProofs.tla
```

A run's module and configuration are in `PROJECT.json`, those run by hand in section 3.  Runs marked `violation`
end with the counterexample they are about.
