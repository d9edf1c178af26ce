------------------------------ MODULE JobQueue ------------------------------
(***************************************************************************)
(* The PostgreSQL job queue: rows of background_jobs, the statements of    *)
(* queries/jobs.sql that change them, and the loop of jobs/runner.go that  *)
(* a worker process runs.  Every statement is one step; the claim, the     *)
(* handler, and the statement that settles the row are separate steps, so  *)
(* workers interleave, stop and lose database calls between them.          *)
(*                                                                         *)
(* Time is relative: a row keeps how long it still has to wait and how     *)
(* long ago it was locked, both saturating, so that no clock bounds a run. *)
(***************************************************************************)
EXTENDS Integers, FiniteSets

CONSTANTS
  Workers,      \* worker processes
  Keys,         \* (job_type, idempotency_key) pairs
  MaxJobs,      \* bound: rows inserted in a behaviour
  MaxAttempts,  \* max_attempts of the rows
  BatchSize,    \* rows one claim takes (10)
  BackoffCap,   \* largest exponent of the retry delay (8)
  StaleAfter,   \* age of a lock that startup recovers (15 minutes)
  Delays,       \* distances of run_at from now that enqueuers ask for
  MaxOverdue,   \* bound: how far past run_at the claim order is remembered
  MaxFaults     \* bound: process stops and failed database calls

ASSUME WorkersAssumption == IsFiniteSet(Workers)
ASSUME BoundsAssumption ==
  /\ MaxJobs \in Nat /\ MaxFaults \in Nat /\ MaxOverdue \in Nat
  /\ StaleAfter \in Nat /\ BackoffCap \in Nat
ASSUME AttemptsAssumption == MaxAttempts \in Nat \ {0}
ASSUME BatchAssumption == BatchSize \in Nat \ {0}
ASSUME DelaysAssumption == Delays \subseteq Nat

Ids == 1 .. MaxJobs
NoId == 0
NoWorker == "none"
NoKey == "none"

ASSUME NoWorkerAssumption == NoWorker \notin Workers

VARIABLES
  jobs,       \* the table, by id
  pc,         \* what each worker process is doing
  batch,      \* attempts of each row as the worker's last claim returned it, 0: not in the batch
  cur,        \* the row the worker's loop is at
  faults,     \* stops and failed calls so far (bounded by MaxFaults)
  requeues,   \* history: times startup recovery took the row back
  successes   \* history: times a handler returned nil for the row

rowVars == <<jobs, requeues>>
workerVars == <<pc, batch, cur>>
vars == <<jobs, pc, batch, cur, faults, requeues, successes>>

(***************************************************************************)
(* Rows.  "none": not inserted yet, "deleted": removed by CompleteJob.     *)
(***************************************************************************)
RowStates == {"none", "available", "running", "dead", "deleted"}

Rows == [state : RowStates, key : Keys \cup {NoKey}, attempts : Nat,
         wait : Int, age : Nat, lockedBy : Workers \cup {NoWorker}]

Live(i) == jobs[i].state \in {"available", "running", "dead"}
Holds(w, i) == batch[w][i] > 0
Holders(i) == {w \in Workers : Holds(w, i)}
Empty == [i \in Ids |-> 0]

\* The delay of runner.go's retry, from the attempts the claim returned.
Backoff(attempts) == 2 ^ (IF attempts <= BackoffCap THEN attempts ELSE BackoffCap)

Init ==
  /\ jobs = [i \in Ids |-> [state |-> "none", key |-> NoKey, attempts |-> 0,
                             wait |-> 0, age |-> 0, lockedBy |-> NoWorker]]
  /\ pc = [w \in Workers |-> "down"]
  /\ batch = [w \in Workers |-> Empty]
  /\ cur = [w \in Workers |-> NoId]
  /\ faults = 0
  /\ requeues = [i \in Ids |-> 0]
  /\ successes = [i \in Ids |-> 0]

(***************************************************************************)
(* EnqueueJob: a row with the same type and key, in whatever state, makes  *)
(* the insert a no-op; otherwise the identity column gives the next id.    *)
(***************************************************************************)
Enqueue(k, delay) ==
  \/ /\ \E i \in Ids : Live(i) /\ jobs[i].key = k
     /\ UNCHANGED vars
  \/ /\ \A i \in Ids : Live(i) => jobs[i].key # k
     /\ \E i \in Ids :
          /\ jobs[i].state = "none"
          /\ \A j \in 1 .. (i - 1) : jobs[j].state # "none"
          /\ jobs' = [jobs EXCEPT ![i] =
               [state |-> "available", key |-> k, attempts |-> 0,
                wait |-> delay, age |-> 0, lockedBy |-> NoWorker]]
     /\ UNCHANGED <<workerVars, faults, requeues, successes>>

(***************************************************************************)
(* Process start: Run recovers stale rows once, before it polls.           *)
(***************************************************************************)
\* Mutant of Stale: the age of the lock is not looked at.
StaleAtAnyAge(i) == jobs[i].state = "running"

Stale(i) == jobs[i].state = "running" /\ jobs[i].age > StaleAfter

RequeueStaleJobs ==
  /\ jobs' = [i \in Ids |->
       IF Stale(i)
       THEN [jobs[i] EXCEPT !.state = "available", !.lockedBy = NoWorker,
                            !.age = 0, !.wait = 0]
       ELSE jobs[i]]
  /\ requeues' = [i \in Ids |-> requeues[i] + (IF Stale(i) THEN 1 ELSE 0)]

Start(w) ==
  /\ pc[w] = "down"
  /\ pc' = [pc EXCEPT ![w] = "idle"]
  /\ RequeueStaleJobs
  /\ UNCHANGED <<batch, cur, faults, successes>>

(***************************************************************************)
(* work: claim up to BatchSize due rows, earliest run_at first, when the   *)
(* previous batch is finished.  RETURNING promises no order, so the rows   *)
(* of a batch are handled in any order.                                    *)
(***************************************************************************)
\* Mutant of Due: a row that is running may be claimed again.
DueOrRunning == {i \in Ids : jobs[i].state \in {"available", "running"} /\ jobs[i].wait <= 0}

Due == {i \in Ids : jobs[i].state = "available" /\ jobs[i].wait <= 0}

Selection(S) ==
  /\ S \subseteq Due
  /\ Cardinality(S) <= BatchSize
  /\ S # Due => Cardinality(S) = BatchSize
  /\ \A i \in S, j \in Due \ S : jobs[i].wait <= jobs[j].wait

\* Mutants of Claimed: the claim does not mark the row, or does not count it.
ClaimedUnmarked(S, w) ==
  [i \in Ids |-> IF i \in S THEN [jobs[i] EXCEPT !.attempts = @ + 1] ELSE jobs[i]]

ClaimedUncounted(S, w) ==
  [i \in Ids |->
     IF i \in S THEN [jobs[i] EXCEPT !.state = "running", !.age = 0, !.lockedBy = w]
     ELSE jobs[i]]

Claimed(S, w) ==
  [i \in Ids |->
     IF i \in S
     THEN [jobs[i] EXCEPT !.state = "running", !.attempts = @ + 1,
                          !.age = 0, !.lockedBy = w]
     ELSE jobs[i]]

ClaimNextJobs(w) ==
  /\ pc[w] = "idle"
  /\ batch[w] = Empty
  /\ \E S \in SUBSET Due :
       /\ S # {}
       /\ Selection(S)
       /\ jobs' = Claimed(S, w)
       /\ batch' = [batch EXCEPT ![w] =
            [i \in Ids |-> IF i \in S THEN jobs[i].attempts + 1 ELSE 0]]
  /\ UNCHANGED <<pc, cur, faults, requeues, successes>>

\* The statement commits but its result does not reach the worker: work
\* returns the error, Run logs it and polls again.
ClaimLost(w) ==
  /\ pc[w] = "idle"
  /\ batch[w] = Empty
  /\ faults < MaxFaults
  /\ faults' = faults + 1
  /\ \E S \in SUBSET Due : S # {} /\ Selection(S) /\ jobs' = Claimed(S, w)
  /\ UNCHANGED <<pc, batch, cur, requeues, successes>>

(***************************************************************************)
(* handle: call the handler, then settle the row by id and state alone.    *)
(* A handler that is not registered is a handler that fails.               *)
(***************************************************************************)
Handle(w) ==
  /\ pc[w] = "idle"
  /\ \E i \in Ids : Holds(w, i) /\ cur' = [cur EXCEPT ![w] = i]
  /\ pc' = [pc EXCEPT ![w] = "handling"]
  /\ UNCHANGED <<jobs, batch, faults, requeues, successes>>

HandlerReturns(w) ==
  /\ pc[w] = "handling"
  /\ \/ /\ pc' = [pc EXCEPT ![w] = "succeeded"]
        /\ successes' = [successes EXCEPT ![cur[w]] = @ + 1]
     \/ /\ pc' = [pc EXCEPT ![w] = "failed"]
        /\ UNCHANGED successes
  /\ UNCHANGED <<jobs, batch, cur, faults, requeues>>

\* The loop moves on: the row leaves this worker's hands.
NextInBatch(w) ==
  /\ pc' = [pc EXCEPT ![w] = "idle"]
  /\ batch' = [batch EXCEPT ![w][cur[w]] = 0]
  /\ cur' = [cur EXCEPT ![w] = NoId]

\* Mutant of CompleteJob: the row is deleted whatever its state.
CompleteAnyState(w) ==
  /\ pc[w] = "succeeded"
  /\ NextInBatch(w)
  /\ jobs' = [jobs EXCEPT ![cur[w]].state = "deleted", ![cur[w]].lockedBy = NoWorker,
                           ![cur[w]].age = 0, ![cur[w]].wait = 0]
  /\ UNCHANGED <<faults, requeues, successes>>

CompleteJob(w) ==
  /\ pc[w] = "succeeded"
  /\ NextInBatch(w)
  /\ jobs' = IF jobs[cur[w]].state = "running"
             THEN [jobs EXCEPT ![cur[w]].state = "deleted", ![cur[w]].lockedBy = NoWorker,
                               ![cur[w]].age = 0, ![cur[w]].wait = 0]
             ELSE jobs
  /\ UNCHANGED <<faults, requeues, successes>>

\* Mutants of RetriedRow: the limit compared with >, or one attempt early.
RetriedRowLate(row, attemptsSeen) ==
  [row EXCEPT !.state = IF row.attempts > MaxAttempts THEN "dead" ELSE "available",
              !.lockedBy = NoWorker, !.age = 0,
              !.wait = IF row.attempts > MaxAttempts THEN @ ELSE Backoff(attemptsSeen)]

RetriedRowEarly(row, attemptsSeen) ==
  [row EXCEPT !.state = IF row.attempts + 1 >= MaxAttempts THEN "dead" ELSE "available",
              !.lockedBy = NoWorker, !.age = 0,
              !.wait = IF row.attempts + 1 >= MaxAttempts THEN @ ELSE Backoff(attemptsSeen)]

RetriedRow(row, attemptsSeen) ==
  IF row.attempts >= MaxAttempts
  THEN [row EXCEPT !.state = "dead", !.lockedBy = NoWorker, !.age = 0]
  ELSE [row EXCEPT !.state = "available", !.lockedBy = NoWorker, !.age = 0,
                   !.wait = Backoff(attemptsSeen)]

RetryJob(w) ==
  /\ pc[w] = "failed"
  /\ NextInBatch(w)
  /\ jobs' = IF jobs[cur[w]].state = "running"
             THEN [jobs EXCEPT ![cur[w]] = RetriedRow(@, batch[w][cur[w]])]
             ELSE jobs
  /\ UNCHANGED <<faults, requeues, successes>>

\* CompleteJob or RetryJob returned an error: it is logged and the loop goes on.
SettleFails(w) ==
  /\ pc[w] \in {"succeeded", "failed"}
  /\ faults < MaxFaults
  /\ faults' = faults + 1
  /\ NextInBatch(w)
  /\ UNCHANGED <<jobs, requeues, successes>>

(***************************************************************************)
(* A crash, or SIGTERM: the context the loop runs under is cancelled, the  *)
(* handler and every later database call fail with it, and no row of the   *)
(* batch is settled.                                                       *)
(***************************************************************************)
Stop(w) ==
  /\ pc[w] # "down"
  /\ faults < MaxFaults
  /\ faults' = faults + 1
  /\ pc' = [pc EXCEPT ![w] = "down"]
  /\ batch' = [batch EXCEPT ![w] = Empty]
  /\ cur' = [cur EXCEPT ![w] = NoId]
  /\ UNCHANGED <<jobs, requeues, successes>>

\* One unit of time passes for every row.
Aged(row) ==
  CASE row.state = "available" /\ row.wait > -MaxOverdue -> [row EXCEPT !.wait = @ - 1]
    [] row.state = "running" /\ row.age <= StaleAfter    -> [row EXCEPT !.age = @ + 1]
    [] OTHER                                             -> row

Tick ==
  /\ jobs' = [i \in Ids |-> Aged(jobs[i])]
  /\ UNCHANGED <<workerVars, faults, requeues, successes>>

LoopStep(w) ==
  \/ Start(w) \/ ClaimNextJobs(w) \/ Handle(w)
  \/ CompleteJob(w) \/ RetryJob(w)

WorkerStep(w) == LoopStep(w) \/ HandlerReturns(w)

Next ==
  \/ \E k \in Keys, delay \in Delays : Enqueue(k, delay)
  \/ \E w \in Workers : WorkerStep(w) \/ ClaimLost(w) \/ SettleFails(w) \/ Stop(w)
  \/ Tick

Spec == Init /\ [][Next]_vars

\* Time passes, a stopped worker is started again, and the loop of a running one
\* goes on.  A handler need not return: Run gives it a context without a
\* deadline, and the clients of the push service and of the object store set
\* none of their own.
Fairness ==
  /\ WF_vars(Tick)
  /\ \A w \in Workers : WF_vars(LoopStep(w))

FairSpec == Spec /\ Fairness

-----------------------------------------------------------------------------

TypeOK ==
  /\ jobs \in [Ids -> Rows]
  /\ pc \in [Workers -> {"down", "idle", "handling", "succeeded", "failed"}]
  /\ batch \in [Workers -> [Ids -> Nat]]
  /\ cur \in [Workers -> Ids \cup {NoId}]
  /\ faults \in Nat
  /\ requeues \in [Ids -> Nat]
  /\ successes \in [Ids -> Nat]

\* Leasing: as long as startup recovery never took a row back, at most one
\* worker has it in its batch, and then the row is running and locked by that
\* worker, although CompleteJob and RetryJob never look at locked_by.
ExclusiveUntilRequeued ==
  \A i \in Ids : requeues[i] = 0 =>
    \A w \in Holders(i) :
      /\ Holders(i) = {w}
      /\ jobs[i].state = "running"
      /\ jobs[i].lockedBy = w

\* The price of at-least-once delivery: a job's effect is applied again only
\* when startup recovery took its row back, at most once more each time.
DuplicatesBounded ==
  \A i \in Ids : successes[i] <= 1 + requeues[i]

\* Attempts exceed max_attempts by at most the recoveries of the row: a
\* recovered row is claimed again whatever its attempts were.
AttemptsBounded ==
  \A i \in Ids : jobs[i].attempts <= MaxAttempts + requeues[i]

\* A row a worker still holds becomes claimable within its lease only because
\* one of its holders gave it up; startup recovery leaves it alone.
LeaseRespected ==
  [][\A i \in Ids :
       /\ jobs[i].state = "running" /\ jobs[i].age <= StaleAfter
       /\ jobs'[i].state = "available"
       => \E w \in Workers : Holds(w, i) /\ batch'[w][i] = 0]_vars

\* A dead row stays as it is until an operator acts, and so keeps absorbing the
\* inserts that carry its key: a worker whose row was recovered, claimed by
\* another and given up there may still finish, and does not remove it.
DeadStays ==
  [][\A i \in Ids : jobs[i].state = "dead" => jobs'[i] = jobs[i]]_vars

Stranded(i) == faults > 0 /\ jobs[i].state = "running" /\ Holders(i) = {}
Settled(i) == jobs[i].state \in {"deleted", "dead"}

\* A handler of w never returns.
Hangs(w) == <>[](pc[w] = "handling")
HangsOver(w, i) == <>[](pc[w] = "handling" /\ Holds(w, i))

\* The ways a job is left behind: a worker stopped or lost a database call, and
\* its row is running with no worker at it; or a handler hangs in a batch that
\* has the row, or in every worker.  Any other row is settled in the end.
SettledOrStranded ==
  \A i \in Ids :
    \/ jobs[i].state = "available" ~> Settled(i) \/ Stranded(i)
    \/ \E w \in Workers : HangsOver(w, i)
    \/ \A w \in Workers : Hangs(w)

\* Refinement: the queue implements AtLeastOnce.  A row of the table is a
\* submitted job until it is deleted or dead, a claim is a try.
Phase(state) ==
  CASE state = "none"                     -> "new"
    [] state \in {"available", "running"} -> "queued"
    [] state = "deleted"                  -> "done"
    [] OTHER                              -> "givenUp"

Promise == INSTANCE AtLeastOnce WITH
  Jobs <- Ids,
  phase <- [i \in Ids |-> Phase(jobs[i].state)],
  tries <- [i \in Ids |-> jobs[i].attempts],
  delivered <- successes

\* Every step of the table and the workers is a step of the promise: no row
\* is removed before one of its handlers succeeded, and none goes dead before
\* max_attempts claims, whatever workers that lost their lease do to it.
ImplementsPromise == Promise!Spec
=============================================================================
