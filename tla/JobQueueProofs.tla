--------------------------- MODULE JobQueueProofs ---------------------------
(***************************************************************************)
(* Theorems about JobQueue, for every set of workers and keys and every    *)
(* value of the bounds.  The inductive invariant has one part per          *)
(* property: what a worker has in hand (InHand), who may hold a row        *)
(* (ExclusiveUntilRequeued), and how often a row may still be claimed      *)
(* (ClaimsLeft).                                                           *)
(***************************************************************************)
EXTENDS JobQueue, FiniteSetTheorems, TLAPS

\* A worker that is at a row has it in its batch; a stopped one has no batch.
InHand ==
  \A w \in Workers :
    /\ pc[w] \in {"handling", "succeeded", "failed"} => cur[w] \in Ids /\ Holds(w, cur[w])
    /\ pc[w] = "down" => batch[w] = Empty

\* A row that may be claimed again has used up fewer than its attempts and
\* its recoveries together.
ClaimsLeft ==
  \A i \in Ids :
    /\ jobs[i].attempts <= MaxAttempts + requeues[i]
    /\ jobs[i].state \in {"none", "available"} => jobs[i].attempts < MaxAttempts + requeues[i]

\* The workers that may still report a success for the row.
Pending(i) == {w \in Workers : Holds(w, i) /\ ~(pc[w] = "succeeded" /\ cur[w] = i)}

\* Every success uses up a try: the one a row starts with or one a recovery
\* gave it.  A try is with a row that may be claimed, or with one worker.
TriesLeft ==
  \A i \in Ids :
    successes[i] + Cardinality(Pending(i))
      + (IF jobs[i].state \in {"none", "available"} THEN 1 ELSE 0) <= 1 + requeues[i]

\* A success is a try that was counted, and a worker that reports one was
\* counted among the successes.
TriesMade ==
  /\ \A i \in Ids : successes[i] + Cardinality(Pending(i)) <= jobs[i].attempts
  /\ \A i \in Ids : jobs[i].state = "none" => jobs[i].attempts = 0
  /\ \A w \in Workers : pc[w] = "succeeded" => successes[cur[w]] > 0

IInv == /\ TypeOK
        /\ InHand
        /\ ClaimsLeft
        /\ ExclusiveUntilRequeued
        /\ TriesLeft
        /\ TriesMade

(***************************************************************************)
(* Rows.                                                                   *)
(***************************************************************************)
LEMMA RowType ==
  ASSUME NEW row \in Rows
  PROVE  /\ row.attempts \in Nat /\ row.attempts + 1 \in Nat
         /\ row.wait \in Int /\ row.wait - 1 \in Int
         /\ row.age \in Nat /\ row.age + 1 \in Nat
BY DEF Rows

\* A row with other values of the right types is a row.
LEMMA ChangedRow ==
  ASSUME NEW row \in Rows, NEW state \in RowStates, NEW attempts \in Nat, NEW wait \in Int,
         NEW age \in Nat, NEW holder \in Workers \cup {NoWorker}
  PROVE  /\ [row EXCEPT !.state = state, !.lockedBy = holder, !.age = age] \in Rows
         /\ [row EXCEPT !.state = state, !.lockedBy = holder, !.age = age, !.wait = wait] \in Rows
         /\ [row EXCEPT !.state = state, !.attempts = attempts, !.age = age,
                        !.lockedBy = holder] \in Rows
         /\ [row EXCEPT !.wait = wait] \in Rows
         /\ [row EXCEPT !.age = age] \in Rows
BY DEF Rows

\* Retry delays are integers.
LEMMA BackoffType ==
  ASSUME NEW n \in Nat
  PROVE  Backoff(n) \in Int
<1>1. (IF n <= BackoffCap THEN n ELSE BackoffCap) \in Nat
  BY BoundsAssumption
<1>2. \A m \in Nat : 2 ^ m \in Int
  OBVIOUS
<1> QED BY <1>1, <1>2 DEF Backoff

\* The statements of the queue keep the table well-typed, row by row.
LEMMA StatementTypes ==
  ASSUME NEW row \in Rows, NEW n \in Nat, NEW w \in Workers
  PROVE  /\ [row EXCEPT !.state = "available", !.lockedBy = NoWorker, !.age = 0, !.wait = 0] \in Rows
         /\ [row EXCEPT !.state = "deleted", !.lockedBy = NoWorker, !.age = 0, !.wait = 0] \in Rows
         /\ [row EXCEPT !.state = "running", !.attempts = @ + 1, !.age = 0, !.lockedBy = w] \in Rows
         /\ RetriedRow(row, n) \in Rows
<1>1. {"available", "running", "dead", "deleted"} \subseteq RowStates
  BY DEF RowStates
<1>2. 0 \in Nat /\ 0 \in Int /\ Backoff(n) \in Int
  BY BackoffType
<1>3. NoWorker \in Workers \cup {NoWorker} /\ w \in Workers \cup {NoWorker}
  OBVIOUS
<1>4. [row EXCEPT !.state = "available", !.lockedBy = NoWorker, !.age = 0, !.wait = 0] \in Rows
  BY <1>1, <1>2, <1>3, ChangedRow
<1>5. [row EXCEPT !.state = "deleted", !.lockedBy = NoWorker, !.age = 0, !.wait = 0] \in Rows
  BY <1>1, <1>2, <1>3, ChangedRow
<1>6. [row EXCEPT !.state = "running", !.attempts = @ + 1, !.age = 0, !.lockedBy = w] \in Rows
  BY <1>1, <1>2, <1>3, RowType, ChangedRow
<1>7. RetriedRow(row, n) \in Rows
  BY <1>1, <1>2, <1>3, ChangedRow DEF RetriedRow
<1> QED BY <1>4, <1>5, <1>6, <1>7

\* A row stays a row when time passes.
LEMMA AgedType ==
  ASSUME NEW row \in Rows
  PROVE  Aged(row) \in Rows
<1> DEFINE wait == row.wait - 1  age == row.age + 1
<1>1. wait \in Int /\ age \in Nat
  BY RowType
<1>2. [row EXCEPT !.wait = wait] \in Rows
  <2> HIDE DEF wait
  <2> QED BY <1>1 DEF Rows
<1>3. [row EXCEPT !.age = age] \in Rows
  <2> HIDE DEF age
  <2> QED BY <1>1 DEF Rows
<1>4. Aged(row) = [row EXCEPT !.wait = wait] \/ Aged(row) = [row EXCEPT !.age = age]
      \/ Aged(row) = row
  BY DEF Aged
<1> QED BY <1>2, <1>3, <1>4

\* What the workers keep for themselves, after each kind of step.
WorkersTyped ==
  /\ pc \in [Workers -> {"down", "idle", "handling", "succeeded", "failed"}]
  /\ batch \in [Workers -> [Ids -> Nat]]
  /\ cur \in [Workers -> Ids \cup {NoId}]

CountersTyped ==
  /\ faults \in Nat
  /\ requeues \in [Ids -> Nat]
  /\ successes \in [Ids -> Nat]

\* The current row of a worker that is at one.
LEMMA CurrentRow ==
  ASSUME TypeOK, InHand, NEW w \in Workers, pc[w] \in {"handling", "succeeded", "failed"}
  PROVE  /\ cur[w] \in Ids /\ Holds(w, cur[w])
         /\ jobs[cur[w]] \in Rows
         /\ batch[w][cur[w]] \in Nat
BY DEF TypeOK, InHand

\* Going on to the next row keeps the worker's own data well-typed.
LEMMA NextInBatchTyped ==
  ASSUME TypeOK, InHand, NEW w \in Workers, NextInBatch(w),
         pc[w] \in {"handling", "succeeded", "failed"}
  PROVE  WorkersTyped'
<1>1. cur[w] \in Ids
  BY CurrentRow
<1>2. pc' \in [Workers -> {"down", "idle", "handling", "succeeded", "failed"}]
  BY DEF NextInBatch, TypeOK
<1>3. batch' \in [Workers -> [Ids -> Nat]]
  BY <1>1 DEF NextInBatch, TypeOK
<1>4. cur' \in [Workers -> Ids \cup {NoId}]
  BY DEF NextInBatch, TypeOK
<1> QED BY <1>2, <1>3, <1>4 DEF WorkersTyped

\* A claim keeps the table and the batch well-typed.
LEMMA ClaimedTyped ==
  ASSUME TypeOK, NEW w \in Workers, NEW S \in SUBSET Due
  PROVE  Claimed(S, w) \in [Ids -> Rows]
<1> SUFFICES ASSUME NEW i \in Ids
             PROVE  (IF i \in S
                     THEN [jobs[i] EXCEPT !.state = "running", !.attempts = @ + 1,
                                          !.age = 0, !.lockedBy = w]
                     ELSE jobs[i]) \in Rows
  BY DEF Claimed
<1>1. jobs[i] \in Rows
  BY DEF TypeOK
<1> QED BY <1>1, StatementTypes

\* Every step keeps the types.
LEMMA TypeStep == TypeOK /\ InHand /\ [Next]_vars => TypeOK'
<1> SUFFICES ASSUME TypeOK, InHand, [Next]_vars PROVE TypeOK'
  OBVIOUS
<1>1. CASE UNCHANGED vars
  BY <1>1 DEF vars, workerVars, rowVars, TypeOK
<1>2. ASSUME NEW k \in Keys, NEW delay \in Delays, Enqueue(k, delay) PROVE TypeOK'
  <2>1. CASE UNCHANGED vars
    BY <2>1 DEF vars, workerVars, TypeOK
  <2>2. ASSUME NEW i \in Ids,
               jobs' = [jobs EXCEPT ![i] =
                 [state |-> "available", key |-> k, attempts |-> 0,
                  wait |-> delay, age |-> 0, lockedBy |-> NoWorker]],
               UNCHANGED <<workerVars, faults, requeues, successes>>
        PROVE  TypeOK'
    <3>1. delay \in Int
      BY DelaysAssumption
    <3>2. [state |-> "available", key |-> k, attempts |-> 0,
           wait |-> delay, age |-> 0, lockedBy |-> NoWorker] \in Rows
      BY <3>1 DEF Rows, RowStates
    <3> QED BY <2>2, <3>2 DEF TypeOK, workerVars
  <2> QED BY <1>2, <2>1, <2>2 DEF Enqueue
<1>3. ASSUME NEW w \in Workers, Start(w) PROVE TypeOK'
  <2>1. jobs' \in [Ids -> Rows]
    <3>1. \A i \in Ids : jobs[i] \in Rows
      BY DEF TypeOK
    <3>2. \A i \in Ids : [jobs[i] EXCEPT !.state = "available", !.lockedBy = NoWorker,
                                         !.age = 0, !.wait = 0] \in Rows
      BY <3>1, <1>3, StatementTypes
    <3> QED BY <1>3, <3>1, <3>2 DEF Start, RequeueStaleJobs
  <2>2. CountersTyped'
    <3>1. \A i \in Ids : requeues[i] + (IF Stale(i) THEN 1 ELSE 0) \in Nat
      BY DEF TypeOK
    <3>2. requeues' \in [Ids -> Nat]
      BY <1>3, <3>1 DEF Start, RequeueStaleJobs
    <3> QED BY <1>3, <3>2 DEF Start, TypeOK, CountersTyped
  <2>3. WorkersTyped'
    BY <1>3 DEF Start, TypeOK, WorkersTyped
  <2> QED BY <2>1, <2>2, <2>3 DEF TypeOK, WorkersTyped, CountersTyped
<1>4. ASSUME NEW w \in Workers, ClaimNextJobs(w) PROVE TypeOK'
  <2>1. PICK S \in SUBSET Due :
          /\ jobs' = Claimed(S, w)
          /\ batch' = [batch EXCEPT ![w] =
               [i \in Ids |-> IF i \in S THEN jobs[i].attempts + 1 ELSE 0]]
    BY <1>4 DEF ClaimNextJobs
  <2>2. [i \in Ids |-> IF i \in S THEN jobs[i].attempts + 1 ELSE 0] \in [Ids -> Nat]
    BY RowType DEF TypeOK
  <2>3. jobs' \in [Ids -> Rows]
    BY <2>1, ClaimedTyped
  <2>4. WorkersTyped'
    BY <1>4, <2>1, <2>2 DEF ClaimNextJobs, TypeOK, WorkersTyped
  <2>5. CountersTyped'
    BY <1>4 DEF ClaimNextJobs, TypeOK, CountersTyped
  <2> QED BY <2>3, <2>4, <2>5 DEF TypeOK, WorkersTyped, CountersTyped
<1>5. ASSUME NEW w \in Workers, ClaimLost(w) PROVE TypeOK'
  <2>1. jobs' \in [Ids -> Rows]
    BY <1>5, ClaimedTyped DEF ClaimLost
  <2> QED BY <1>5, <2>1 DEF ClaimLost, TypeOK
<1>6. ASSUME NEW w \in Workers, Handle(w) PROVE TypeOK'
  BY <1>6 DEF Handle, TypeOK
<1>7. ASSUME NEW w \in Workers, HandlerReturns(w) PROVE TypeOK'
  <2>1. cur[w] \in Ids
    BY <1>7, CurrentRow DEF HandlerReturns
  <2>2. successes' \in [Ids -> Nat]
    BY <1>7, <2>1 DEF HandlerReturns, TypeOK
  <2>3. pc' \in [Workers -> {"down", "idle", "handling", "succeeded", "failed"}]
    BY <1>7 DEF HandlerReturns, TypeOK
  <2> QED BY <1>7, <2>2, <2>3 DEF HandlerReturns, TypeOK
<1>8. ASSUME NEW w \in Workers, CompleteJob(w) PROVE TypeOK'
  <2>1. WorkersTyped' /\ jobs[cur[w]] \in Rows
    BY <1>8, NextInBatchTyped, CurrentRow DEF CompleteJob
  <2>2. jobs' \in [Ids -> Rows]
    <3>1. [jobs[cur[w]] EXCEPT !.state = "deleted", !.lockedBy = NoWorker,
                               !.age = 0, !.wait = 0] \in Rows
      BY <1>8, <2>1, StatementTypes
    <3>2. \/ jobs' = jobs
          \/ jobs' = [jobs EXCEPT ![cur[w]] =
               [jobs[cur[w]] EXCEPT !.state = "deleted", !.lockedBy = NoWorker,
                                    !.age = 0, !.wait = 0]]
      BY <1>8 DEF CompleteJob, TypeOK
    <3> QED BY <3>1, <3>2 DEF TypeOK
  <2>3. CountersTyped'
    BY <1>8 DEF CompleteJob, TypeOK, CountersTyped
  <2> QED BY <2>1, <2>2, <2>3 DEF TypeOK, WorkersTyped, CountersTyped
<1>9. ASSUME NEW w \in Workers, RetryJob(w) PROVE TypeOK'
  <2>1. WorkersTyped' /\ jobs[cur[w]] \in Rows /\ batch[w][cur[w]] \in Nat
    BY <1>9, NextInBatchTyped, CurrentRow DEF RetryJob
  <2>2. RetriedRow(jobs[cur[w]], batch[w][cur[w]]) \in Rows
    BY <2>1, StatementTypes, <1>9
  <2>3. jobs' \in [Ids -> Rows]
    BY <1>9, <2>2 DEF RetryJob, TypeOK
  <2>4. CountersTyped'
    BY <1>9 DEF RetryJob, TypeOK, CountersTyped
  <2> QED BY <2>1, <2>3, <2>4 DEF TypeOK, WorkersTyped, CountersTyped
<1>10. ASSUME NEW w \in Workers, SettleFails(w) PROVE TypeOK'
  <2>1. WorkersTyped'
    BY <1>10, NextInBatchTyped DEF SettleFails
  <2> QED BY <1>10, <2>1 DEF SettleFails, TypeOK, WorkersTyped
<1>11. ASSUME NEW w \in Workers, Stop(w) PROVE TypeOK'
  <2>1. Empty \in [Ids -> Nat]
    BY DEF Empty
  <2> QED BY <1>11, <2>1 DEF Stop, TypeOK
<1>12. CASE Tick
  <2>1. \A i \in Ids : jobs[i] \in Rows
    BY DEF TypeOK
  <2>2. \A i \in Ids : Aged(jobs[i]) \in Rows
    BY <2>1, AgedType
  <2> QED BY <1>12, <2>2 DEF Tick, TypeOK, workerVars
<1> QED BY <1>1, <1>2, <1>3, <1>4, <1>5, <1>6, <1>7, <1>8, <1>9, <1>10, <1>11, <1>12
        DEF Next, WorkerStep, LoopStep

\* A worker's loop and a stop keep the batch and the row it is at together.
LEMMA InHandStep == TypeOK /\ InHand /\ [Next]_vars => InHand'
<1> SUFFICES ASSUME TypeOK, InHand, [Next]_vars, NEW v \in Workers
             PROVE  /\ pc'[v] \in {"handling", "succeeded", "failed"} =>
                         cur'[v] \in Ids /\ batch'[v][cur'[v]] > 0
                    /\ pc'[v] = "down" => batch'[v] = Empty
  BY DEF InHand, Holds
<1> DEFINE Goal == /\ pc'[v] \in {"handling", "succeeded", "failed"} =>
                        cur'[v] \in Ids /\ batch'[v][cur'[v]] > 0
                   /\ pc'[v] = "down" => batch'[v] = Empty
<1>1. CASE UNCHANGED <<pc, batch, cur>>
  BY <1>1 DEF InHand, Holds
<1>2. ASSUME NEW w \in Workers, Start(w) PROVE Goal
  BY <1>2 DEF Start, InHand, Holds, TypeOK
<1>3. ASSUME NEW w \in Workers, ClaimNextJobs(w) PROVE Goal
  BY <1>3 DEF ClaimNextJobs, InHand, Holds, TypeOK
<1>4. ASSUME NEW w \in Workers, Handle(w) PROVE Goal
  BY <1>4 DEF Handle, InHand, Holds, TypeOK
<1>5. ASSUME NEW w \in Workers, HandlerReturns(w) PROVE Goal
  BY <1>5 DEF HandlerReturns, InHand, Holds, TypeOK
<1>6. ASSUME NEW w \in Workers, NextInBatch(w) PROVE Goal
  BY <1>6 DEF NextInBatch, InHand, Holds, TypeOK
<1>7. ASSUME NEW w \in Workers, Stop(w) PROVE Goal
  BY <1>7 DEF Stop, InHand, Holds, TypeOK
<1>8. ASSUME NEW k \in Keys, NEW delay \in Delays, Enqueue(k, delay)
      PROVE  UNCHANGED <<pc, batch, cur>>
  BY <1>8 DEF Enqueue, vars, workerVars
<1> QED BY <1>1, <1>2, <1>3, <1>4, <1>5, <1>6, <1>7, <1>8
        DEF Next, WorkerStep, LoopStep, ClaimLost, CompleteJob, RetryJob, SettleFails, Tick, vars, workerVars

-----------------------------------------------------------------------------
(***************************************************************************)
(* What a step may do to one row of the table.                             *)
(***************************************************************************)
Keeps(i) ==
  /\ jobs'[i].state = jobs[i].state
  /\ jobs'[i].attempts = jobs[i].attempts
  /\ jobs'[i].lockedBy = jobs[i].lockedBy
  /\ jobs[i].state \notin {"available", "running"} => jobs'[i] = jobs[i]
  /\ requeues'[i] = requeues[i]

Submits(i) ==
  /\ jobs[i].state = "none" /\ jobs'[i].state = "available"
  /\ jobs'[i].attempts = 0
  /\ requeues'[i] = requeues[i]

Recovers(i) ==
  /\ Stale(i)
  /\ jobs[i].state = "running" /\ jobs'[i].state = "available"
  /\ jobs'[i].attempts = jobs[i].attempts
  /\ requeues'[i] = requeues[i] + 1

Claims(i, w) ==
  /\ jobs[i].state = "available" /\ jobs'[i].state = "running"
  /\ jobs'[i].attempts = jobs[i].attempts + 1
  /\ jobs'[i].lockedBy = w
  /\ requeues'[i] = requeues[i]

\* Worker w, at the row, settles it and lets it go.
Settles(i, w) ==
  /\ cur[w] = i /\ batch'[w][i] = 0
  /\ jobs[i].state = "running"
  /\ jobs'[i].attempts = jobs[i].attempts
  /\ requeues'[i] = requeues[i]
  /\ \/ pc[w] = "succeeded" /\ jobs'[i].state = "deleted"
     \/ pc[w] = "failed" /\ jobs'[i].state = "dead" /\ jobs[i].attempts >= MaxAttempts
     \/ pc[w] = "failed" /\ jobs'[i].state = "available" /\ jobs[i].attempts < MaxAttempts

RowStep(i) ==
  \/ Keeps(i) \/ Submits(i) \/ Recovers(i)
  \/ \E w \in Workers : Claims(i, w) \/ Settles(i, w)

\* What a step may do to a worker's hold on a row.
HoldStep(v, i) ==
  \/ batch'[v][i] = batch[v][i]
  \/ batch'[v][i] = 0
  \/ Claims(i, v)

\* What TypeOK says of one row.
LEMMA RowTypes ==
  ASSUME TypeOK, NEW i \in Ids
  PROVE  /\ jobs[i] \in Rows /\ jobs[i].attempts \in Nat
         /\ requeues[i] \in Nat /\ successes[i] \in Nat
BY RowType DEF TypeOK

\* Time changes neither the state, the attempts nor the holder of a row.
LEMMA AgedKeeps ==
  ASSUME NEW row \in Rows
  PROVE  /\ Aged(row).state = row.state
         /\ Aged(row).attempts = row.attempts
         /\ Aged(row).lockedBy = row.lockedBy
         /\ row.state \notin {"available", "running"} => Aged(row) = row
<1>1. Aged(row) = [row EXCEPT !.wait = @ - 1] \/ Aged(row) = [row EXCEPT !.age = @ + 1]
      \/ Aged(row) = row
  BY DEF Aged
<1>2. row.state \notin {"available", "running"} => Aged(row) = row
  BY DEF Aged
<1> QED BY <1>1, <1>2 DEF Rows

\* A claim claims the rows of its selection and keeps the others.
LEMMA ClaimedRow ==
  ASSUME TypeOK, NEW w \in Workers, NEW S \in SUBSET Due, jobs' = Claimed(S, w),
         requeues' = requeues, NEW i \in Ids
  PROVE  /\ i \in S => Claims(i, w)
         /\ i \notin S => Keeps(i)
<1>1. jobs[i] \in Rows
  BY RowTypes
<1>2. CASE i \in S
  <2>1. jobs'[i] = [jobs[i] EXCEPT !.state = "running", !.attempts = @ + 1,
                                   !.age = 0, !.lockedBy = w]
    BY <1>2 DEF Claimed
  <2>2. jobs[i].state = "available"
    BY <1>2 DEF Due
  <2> QED BY <1>1, <1>2, <2>1, <2>2 DEF Claims, Rows
<1>3. CASE i \notin S
  BY <1>3 DEF Claimed, Keeps
<1> QED BY <1>2, <1>3

\* Whatever the step, one row sees one of five things happen to it.
LEMMA EveryRowStep ==
  ASSUME TypeOK, InHand, [Next]_vars, NEW i \in Ids
  PROVE  RowStep(i)
<1>0. jobs[i] \in Rows
  BY RowTypes
<1>1. CASE UNCHANGED <<jobs, requeues>>
  BY <1>1 DEF RowStep, Keeps
<1>2. ASSUME NEW k \in Keys, NEW delay \in Delays, Enqueue(k, delay) PROVE RowStep(i)
  <2>1. CASE UNCHANGED vars
    BY <1>1, <2>1 DEF vars, rowVars
  <2>2. ASSUME NEW n \in Ids, jobs[n].state = "none",
               jobs' = [jobs EXCEPT ![n] =
                 [state |-> "available", key |-> k, attempts |-> 0,
                  wait |-> delay, age |-> 0, lockedBy |-> NoWorker]],
               requeues' = requeues
        PROVE  RowStep(i)
    <3>1. CASE i = n
      BY <2>2, <3>1 DEF RowStep, Submits, TypeOK
    <3>2. CASE i # n
      BY <2>2, <3>2 DEF RowStep, Keeps, TypeOK
    <3> QED BY <3>1, <3>2
  <2> QED BY <1>2, <2>1, <2>2 DEF Enqueue
<1>3. ASSUME NEW w \in Workers, Start(w) PROVE RowStep(i)
  <2>1. CASE Stale(i)
    <3>1. jobs'[i] = [jobs[i] EXCEPT !.state = "available", !.lockedBy = NoWorker,
                                     !.age = 0, !.wait = 0]
      BY <1>3, <2>1 DEF Start, RequeueStaleJobs
    <3>2. requeues'[i] = requeues[i] + 1
      BY <1>3, <2>1 DEF Start, RequeueStaleJobs
    <3> QED BY <1>0, <2>1, <3>1, <3>2 DEF RowStep, Recovers, Stale, Rows
  <2>2. CASE ~Stale(i)
    <3>1. jobs'[i] = jobs[i] /\ requeues'[i] = requeues[i]
      <4>1. jobs'[i] = jobs[i] /\ requeues'[i] = requeues[i] + 0
        BY <1>3, <2>2 DEF Start, RequeueStaleJobs
      <4>2. requeues[i] + 0 = requeues[i]
        BY RowTypes
      <4> QED BY <4>1, <4>2
    <3> QED BY <3>1 DEF RowStep, Keeps
  <2> QED BY <2>1, <2>2
<1>4. ASSUME NEW w \in Workers, ClaimNextJobs(w) \/ ClaimLost(w) PROVE RowStep(i)
  <2>1. PICK S \in SUBSET Due : jobs' = Claimed(S, w)
    BY <1>4 DEF ClaimNextJobs, ClaimLost
  <2>2. requeues' = requeues
    BY <1>4 DEF ClaimNextJobs, ClaimLost
  <2> QED BY <2>1, <2>2, ClaimedRow DEF RowStep
<1>5. ASSUME NEW w \in Workers, CompleteJob(w) PROVE RowStep(i)
  <2>1. CASE i = cur[w] /\ jobs[i].state = "running"
    <3>1. jobs'[i] = [jobs[i] EXCEPT !.state = "deleted", !.lockedBy = NoWorker,
                                     !.age = 0, !.wait = 0]
      BY <1>5, <2>1 DEF CompleteJob, TypeOK
    <3>2. batch'[w][i] = 0 /\ requeues' = requeues
      BY <1>5, <2>1 DEF CompleteJob, NextInBatch, TypeOK
    <3>3. jobs'[i].state = "deleted" /\ jobs'[i].attempts = jobs[i].attempts
      BY <1>0, <3>1 DEF Rows
    <3>4. pc[w] = "succeeded"
      BY <1>5 DEF CompleteJob
    <3>5. Settles(i, w)
      BY <2>1, <3>2, <3>3, <3>4 DEF Settles
    <3> QED BY <3>5 DEF RowStep
  <2>2. CASE ~(i = cur[w] /\ jobs[i].state = "running")
    <3>1. jobs'[i] = jobs[i] /\ requeues' = requeues
      BY <1>5, <2>2 DEF CompleteJob, TypeOK
    <3> QED BY <3>1 DEF RowStep, Keeps
  <2> QED BY <2>1, <2>2
<1>6. ASSUME NEW w \in Workers, RetryJob(w) PROVE RowStep(i)
  <2>1. CASE i = cur[w] /\ jobs[i].state = "running"
    <3>1. jobs'[i] = RetriedRow(jobs[i], batch[w][i])
      BY <1>6, <2>1 DEF RetryJob, TypeOK
    <3>2. batch'[w][i] = 0 /\ requeues' = requeues
      BY <1>6, <2>1 DEF RetryJob, NextInBatch, TypeOK
    <3>3. /\ jobs'[i].attempts = jobs[i].attempts
          /\ \/ jobs'[i].state = "dead" /\ jobs[i].attempts >= MaxAttempts
             \/ jobs'[i].state = "available" /\ jobs[i].attempts < MaxAttempts
      <4>1. CASE jobs[i].attempts >= MaxAttempts
        <5>1. jobs'[i] = [jobs[i] EXCEPT !.state = "dead", !.lockedBy = NoWorker, !.age = 0]
          BY <3>1, <4>1 DEF RetriedRow
        <5> QED BY <1>0, <4>1, <5>1 DEF Rows
      <4>2. CASE ~(jobs[i].attempts >= MaxAttempts)
        <5>1. jobs'[i] = [jobs[i] EXCEPT !.state = "available", !.lockedBy = NoWorker, !.age = 0,
                                         !.wait = Backoff(batch[w][i])]
          BY <3>1, <4>2 DEF RetriedRow
        <5>2. jobs'[i].attempts = jobs[i].attempts /\ jobs'[i].state = "available"
          BY <1>0, <5>1 DEF Rows
        <5>3. jobs[i].attempts < MaxAttempts
          BY <4>2, RowTypes, AttemptsAssumption
        <5> QED BY <5>2, <5>3
      <4> QED BY <4>1, <4>2
    <3>4. pc[w] = "failed"
      BY <1>6 DEF RetryJob
    <3>5. Settles(i, w)
      BY <2>1, <3>2, <3>3, <3>4 DEF Settles
    <3> QED BY <3>5 DEF RowStep
  <2>2. CASE ~(i = cur[w] /\ jobs[i].state = "running")
    <3>1. jobs'[i] = jobs[i] /\ requeues' = requeues
      BY <1>6, <2>2 DEF RetryJob, TypeOK
    <3> QED BY <3>1 DEF RowStep, Keeps
  <2> QED BY <2>1, <2>2
<1>7. CASE Tick
  <2>1. jobs'[i] = Aged(jobs[i]) /\ requeues' = requeues
    BY <1>7 DEF Tick
  <2> QED BY <1>0, <2>1, AgedKeeps DEF RowStep, Keeps
<1> QED BY <1>1, <1>2, <1>3, <1>4, <1>5, <1>6, <1>7
        DEF Next, WorkerStep, LoopStep, Handle, HandlerReturns, SettleFails, Stop, vars

\* A worker's hold on a row starts with a claim.
LEMMA EveryHoldStep ==
  ASSUME TypeOK, InHand, [Next]_vars, NEW v \in Workers, NEW i \in Ids
  PROVE  HoldStep(v, i)
<1>1. CASE batch' = batch
  BY <1>1 DEF HoldStep
<1>2. ASSUME NEW w \in Workers, ClaimNextJobs(w) PROVE HoldStep(v, i)
  <2>1. PICK S \in SUBSET Due :
          /\ jobs' = Claimed(S, w)
          /\ batch' = [batch EXCEPT ![w] =
               [n \in Ids |-> IF n \in S THEN jobs[n].attempts + 1 ELSE 0]]
    BY <1>2 DEF ClaimNextJobs
  <2>2. requeues' = requeues
    BY <1>2 DEF ClaimNextJobs
  <2>3. CASE v = w /\ i \in S
    BY <2>1, <2>2, <2>3, ClaimedRow DEF HoldStep
  <2>4. CASE ~(v = w /\ i \in S)
    BY <2>1, <2>4 DEF HoldStep, TypeOK
  <2> QED BY <2>3, <2>4
<1>3. ASSUME NEW w \in Workers, NextInBatch(w) PROVE HoldStep(v, i)
  BY <1>3 DEF NextInBatch, HoldStep, TypeOK
<1>4. ASSUME NEW w \in Workers, Stop(w) PROVE HoldStep(v, i)
  BY <1>4 DEF Stop, Empty, HoldStep, TypeOK
<1>5. ASSUME NEW k \in Keys, NEW delay \in Delays, Enqueue(k, delay)
      PROVE  batch' = batch
  BY <1>5 DEF Enqueue, vars, workerVars
<1> QED BY <1>1, <1>2, <1>3, <1>4, <1>5
        DEF Next, WorkerStep, LoopStep, Start, ClaimLost, Handle, HandlerReturns, CompleteJob, RetryJob,
            SettleFails, Tick, vars, workerVars

-----------------------------------------------------------------------------
(***************************************************************************)
(* The invariants.                                                         *)
(***************************************************************************)
LEMMA ClaimsLeftStep ==
  ASSUME TypeOK, TypeOK', InHand, ClaimsLeft, [Next]_vars
  PROVE  ClaimsLeft'
<1> SUFFICES ASSUME NEW i \in Ids
             PROVE  /\ jobs'[i].attempts <= MaxAttempts + requeues'[i]
                    /\ jobs'[i].state \in {"none", "available"} =>
                         jobs'[i].attempts < MaxAttempts + requeues'[i]
  BY DEF ClaimsLeft
<1>1. /\ jobs[i].attempts \in Nat /\ requeues[i] \in Nat
      /\ jobs'[i].attempts \in Nat /\ requeues'[i] \in Nat
      /\ MaxAttempts \in Nat \ {0}
  BY RowTypes, RowType, AttemptsAssumption DEF TypeOK
<1>2. /\ jobs[i].attempts <= MaxAttempts + requeues[i]
      /\ jobs[i].state \in {"none", "available"} => jobs[i].attempts < MaxAttempts + requeues[i]
  BY DEF ClaimsLeft
<1>3. RowStep(i)
  BY EveryRowStep
<1>4. CASE Keeps(i)
  BY <1>2, <1>4 DEF Keeps
<1>5. CASE Submits(i)
  BY <1>1, <1>5 DEF Submits
<1>6. CASE Recovers(i)
  BY <1>1, <1>2, <1>6 DEF Recovers
<1>7. ASSUME NEW w \in Workers, Claims(i, w)
      PROVE  /\ jobs'[i].attempts <= MaxAttempts + requeues'[i]
             /\ jobs'[i].state \notin {"none", "available"}
  BY <1>1, <1>2, <1>7 DEF Claims
<1>8. ASSUME NEW w \in Workers, Settles(i, w)
      PROVE  /\ jobs'[i].attempts <= MaxAttempts + requeues'[i]
             /\ jobs'[i].state \in {"none", "available"} =>
                  jobs'[i].attempts < MaxAttempts + requeues'[i]
  BY <1>1, <1>2, <1>8 DEF Settles
<1> QED BY <1>3, <1>4, <1>5, <1>6, <1>7, <1>8 DEF RowStep

\* Leasing is kept: a claim finds the row held by nobody.
LEMMA ExclusiveStep ==
  ASSUME TypeOK, TypeOK', InHand, ExclusiveUntilRequeued, [Next]_vars
  PROVE  ExclusiveUntilRequeued'
<1> SUFFICES ASSUME NEW i \in Ids, requeues'[i] = 0, NEW w \in Workers, batch'[w][i] > 0
             PROVE  /\ \A v \in Workers : batch'[v][i] > 0 => v = w
                    /\ jobs'[i].state = "running"
                    /\ jobs'[i].lockedBy = w
  BY DEF ExclusiveUntilRequeued, Holders, Holds
<1>1. \A v \in Workers : HoldStep(v, i) /\ batch[v][i] \in Nat /\ batch'[v][i] \in Nat
  BY EveryHoldStep DEF TypeOK
<1>2. RowStep(i)
  BY EveryRowStep
<1>3. requeues[i] = 0
  BY <1>2, RowTypes DEF RowStep, Keeps, Submits, Recovers, Claims, Settles
<1>4. \A v \in Workers : batch[v][i] > 0 =>
        /\ \A u \in Workers : batch[u][i] > 0 => u = v
        /\ jobs[i].state = "running"
        /\ jobs[i].lockedBy = v
  BY <1>3 DEF ExclusiveUntilRequeued, Holders, Holds
<1>5. CASE Keeps(i)
  <2>1. \A v \in Workers : batch'[v][i] > 0 => batch[v][i] > 0
    BY <1>1, <1>5 DEF HoldStep, Keeps, Claims
  <2> QED BY <1>4, <1>5, <2>1 DEF Keeps
<1>6. CASE Submits(i)
  BY <1>1, <1>4, <1>6 DEF HoldStep, Submits, Claims
<1>7. CASE Recovers(i)
  BY <1>3, <1>7 DEF Recovers
<1>8. ASSUME NEW u \in Workers, Claims(i, u)
      PROVE  /\ \A v \in Workers : batch'[v][i] > 0 => v = w
             /\ jobs'[i].state = "running"
             /\ jobs'[i].lockedBy = w
  <2>1. \A v \in Workers : batch'[v][i] > 0 => Claims(i, v)
    BY <1>1, <1>4, <1>8 DEF HoldStep, Claims
  <2> QED BY <1>8, <2>1 DEF Claims
<1>9. ASSUME NEW u \in Workers, Settles(i, u) PROVE FALSE
  <2>1. batch[u][i] > 0
    BY <1>9 DEF Settles, InHand, Holds
  <2>2. \A v \in Workers : batch'[v][i] > 0 => batch[v][i] > 0
    BY <1>1, <1>9 DEF HoldStep, Settles, Claims
  <2>3. w = u
    BY <1>4, <2>1, <2>2
  <2> QED BY <1>9, <2>3 DEF Settles
<1> QED BY <1>2, <1>5, <1>6, <1>7, <1>8, <1>9 DEF RowStep

(***************************************************************************)
(* Tries: what a step does to the workers that may still report a success. *)
(***************************************************************************)
LEMMA PendingFinite ==
  ASSUME NEW i \in Ids
  PROVE  /\ IsFiniteSet(Pending(i)) /\ IsFiniteSet(Pending(i)')
         /\ Cardinality(Pending(i)) \in Nat /\ Cardinality(Pending(i)') \in Nat
BY WorkersAssumption, FS_Subset, FS_CardinalityType DEF Pending

\* One more pending worker counts for one at most, one less for one.
LEMMA PendingCount ==
  ASSUME NEW i \in Ids
  PROVE  /\ Pending(i)' \subseteq Pending(i) =>
              Cardinality(Pending(i)') <= Cardinality(Pending(i))
         /\ \A w \in Workers : Pending(i)' \subseteq Pending(i) \cup {w} =>
              Cardinality(Pending(i)') <= Cardinality(Pending(i)) + 1
         /\ \A w \in Pending(i) : Pending(i)' \subseteq Pending(i) \ {w} =>
              Cardinality(Pending(i)') <= Cardinality(Pending(i)) - 1
<1>1. IsFiniteSet(Pending(i)) /\ Cardinality(Pending(i)) \in Nat /\ Cardinality(Pending(i)') \in Nat
  BY PendingFinite
<1>2. Pending(i)' \subseteq Pending(i) => Cardinality(Pending(i)') <= Cardinality(Pending(i))
  BY <1>1, FS_Subset
<1>3. ASSUME NEW w \in Workers, Pending(i)' \subseteq Pending(i) \cup {w}
      PROVE  Cardinality(Pending(i)') <= Cardinality(Pending(i)) + 1
  <2>1. /\ IsFiniteSet(Pending(i) \cup {w})
        /\ \/ Cardinality(Pending(i) \cup {w}) = Cardinality(Pending(i))
           \/ Cardinality(Pending(i) \cup {w}) = Cardinality(Pending(i)) + 1
    BY <1>1, FS_AddElement
  <2>2. Cardinality(Pending(i)') <= Cardinality(Pending(i) \cup {w})
    BY <1>3, <2>1, FS_Subset
  <2> QED BY <1>1, <2>1, <2>2
<1>4. ASSUME NEW w \in Pending(i), Pending(i)' \subseteq Pending(i) \ {w}
      PROVE  Cardinality(Pending(i)') <= Cardinality(Pending(i)) - 1
  <2>1. /\ IsFiniteSet(Pending(i) \ {w})
        /\ Cardinality(Pending(i) \ {w}) = Cardinality(Pending(i)) - 1
    BY <1>1, FS_RemoveElement
  <2>2. Cardinality(Pending(i)') <= Cardinality(Pending(i) \ {w})
    BY <1>4, <2>1, FS_Subset
  <2> QED BY <2>1, <2>2
<1> QED BY <1>2, <1>3, <1>4

Takes(i) ==
  \E w \in Workers :
    /\ Claims(i, w)
    /\ successes'[i] = successes[i]
    /\ Pending(i)' \subseteq Pending(i) \cup {w}

Succeeds(i) ==
  \E w \in Pending(i) :
    /\ Keeps(i)
    /\ successes'[i] = successes[i] + 1
    /\ Pending(i)' \subseteq Pending(i) \ {w}

GivesUp(i) ==
  \E w \in Pending(i) :
    /\ Settles(i, w)
    /\ successes'[i] = successes[i]
    /\ Pending(i)' \subseteq Pending(i) \ {w}

Leaves(i) ==
  /\ successes'[i] = successes[i]
  /\ Pending(i)' \subseteq Pending(i)
  /\ \/ Keeps(i) \/ Submits(i) \/ Recovers(i)
     \/ \E w \in Workers : Settles(i, w) /\ pc[w] = "succeeded"

TryStep(i) == Takes(i) \/ Succeeds(i) \/ GivesUp(i) \/ Leaves(i)

\* A step that lets every worker keep its batch, and those that report a
\* success keep reporting it.
LEMMA QuietStep ==
  ASSUME TypeOK, InHand, [Next]_vars, NEW i \in Ids,
         batch' = batch, successes' = successes,
         \A w \in Workers : pc[w] = "succeeded" /\ cur[w] = i => pc'[w] = "succeeded" /\ cur'[w] = i
  PROVE  TryStep(i)
<1>1. Pending(i)' \subseteq Pending(i)
  BY DEF Pending, Holds
<1>2. RowStep(i)
  BY EveryRowStep
<1>3. ASSUME NEW w \in Workers, Claims(i, w) PROVE Takes(i)
  BY <1>1, <1>3 DEF Takes
<1>4. ASSUME NEW w \in Workers, Settles(i, w) PROVE FALSE
  <2>1. pc[w] \in {"handling", "succeeded", "failed"} /\ cur[w] = i /\ batch'[w][i] = 0
    BY <1>4 DEF Settles
  <2>2. batch[w][i] > 0
    BY <2>1 DEF InHand, Holds
  <2> QED BY <2>1, <2>2
<1>5. CASE Keeps(i) \/ Submits(i) \/ Recovers(i)
  BY <1>1, <1>5 DEF Leaves, TryStep
<1> QED BY <1>2, <1>3, <1>4, <1>5 DEF RowStep, TryStep

\* Settling, or failing to, takes the row out of the worker's hands.
LEMMA SettlingStep ==
  ASSUME TypeOK, InHand, [Next]_vars, NEW i \in Ids, NEW w \in Workers,
         CompleteJob(w) \/ RetryJob(w) \/ SettleFails(w)
  PROVE  TryStep(i)
<1>1. /\ NextInBatch(w) /\ successes' = successes /\ requeues' = requeues
      /\ pc[w] \in {"succeeded", "failed"}
      /\ cur[w] \in Ids /\ Holds(w, cur[w])
  BY CurrentRow DEF CompleteJob, RetryJob, SettleFails
<1>2. CASE cur[w] # i
  <2>1. jobs'[i] = jobs[i]
    BY <1>1, <1>2 DEF CompleteJob, RetryJob, SettleFails, TypeOK
  <2>2. Pending(i)' \subseteq Pending(i)
    BY <1>1, <1>2 DEF NextInBatch, Pending, Holds, TypeOK
  <2> QED BY <1>1, <2>1, <2>2 DEF TryStep, Leaves, Keeps
<1>3. CASE cur[w] = i
  <2>1. Pending(i)' \subseteq Pending(i) \ {w}
    BY <1>1, <1>3 DEF NextInBatch, Pending, Holds, TypeOK
  <2>2. pc[w] = "failed" => w \in Pending(i)
    BY <1>1, <1>3 DEF Pending
  <2>3. RowStep(i)
    BY EveryRowStep
  <2>4. \A u \in Workers : ~Claims(i, u)
    BY <1>1, <1>3 DEF Claims, CompleteJob, RetryJob, SettleFails
  <2>5. ASSUME NEW u \in Workers, Settles(i, u) PROVE u = w
    BY <1>1, <2>5 DEF Settles, NextInBatch, InHand, Holds, TypeOK
  <2>6. CASE \E u \in Workers : Settles(i, u)
    <3>1. Settles(i, w)
      BY <2>5, <2>6
    <3>2. CASE pc[w] = "failed"
      BY <1>1, <2>1, <2>2, <3>1, <3>2 DEF TryStep, GivesUp
    <3>3. CASE pc[w] = "succeeded"
      BY <1>1, <2>1, <3>1, <3>3 DEF TryStep, Leaves
    <3> QED BY <1>1, <3>2, <3>3
  <2>7. CASE Keeps(i) \/ Submits(i) \/ Recovers(i)
    BY <1>1, <2>1, <2>7 DEF TryStep, Leaves
  <2> QED BY <2>3, <2>4, <2>6, <2>7 DEF RowStep
<1> QED BY <1>2, <1>3

\* Whatever the step, one of four things happens to the tries of a row.
LEMMA EveryTryStep ==
  ASSUME TypeOK, InHand, [Next]_vars, NEW i \in Ids
  PROVE  TryStep(i)
<1>1. CASE UNCHANGED <<pc, batch, cur, successes>>
  BY <1>1, QuietStep
<1>2. ASSUME NEW k \in Keys, NEW delay \in Delays, Enqueue(k, delay) PROVE TryStep(i)
  BY <1>1, <1>2 DEF Enqueue, vars, workerVars
<1>3. ASSUME NEW w \in Workers, Start(w) \/ Handle(w) PROVE TryStep(i)
  <2>1. \A v \in Workers : pc[v] = "succeeded" /\ cur[v] = i => pc'[v] = "succeeded" /\ cur'[v] = i
    BY <1>3 DEF Start, Handle, TypeOK
  <2> QED BY <1>3, <2>1, QuietStep DEF Start, Handle
<1>4. ASSUME NEW w \in Workers, ClaimNextJobs(w) PROVE TryStep(i)
  <2>1. PICK S \in SUBSET Due :
          /\ jobs' = Claimed(S, w)
          /\ batch' = [batch EXCEPT ![w] =
               [n \in Ids |-> IF n \in S THEN jobs[n].attempts + 1 ELSE 0]]
    BY <1>4 DEF ClaimNextJobs
  <2>2. requeues' = requeues /\ successes' = successes /\ pc' = pc /\ cur' = cur
    BY <1>4 DEF ClaimNextJobs
  <2>3. CASE i \in S
    <3>1. Claims(i, w)
      BY <2>1, <2>2, <2>3, ClaimedRow
    <3>2. Pending(i)' \subseteq Pending(i) \cup {w}
      BY <2>1, <2>2 DEF Pending, Holds, TypeOK
    <3> QED BY <2>2, <3>1, <3>2 DEF TryStep, Takes
  <2>4. CASE i \notin S
    <3>1. Keeps(i)
      BY <2>1, <2>2, <2>4, ClaimedRow
    <3>2. Pending(i)' \subseteq Pending(i)
      BY <2>1, <2>2, <2>4 DEF Pending, Holds, TypeOK
    <3> QED BY <2>2, <3>1, <3>2 DEF TryStep, Leaves
  <2> QED BY <2>3, <2>4
<1>5. ASSUME NEW w \in Workers, HandlerReturns(w) PROVE TryStep(i)
  <2>1. CASE successes' = successes
    <3>1. \A v \in Workers : pc[v] = "succeeded" /\ cur[v] = i => pc'[v] = "succeeded" /\ cur'[v] = i
      BY <1>5 DEF HandlerReturns, TypeOK
    <3> QED BY <1>5, <2>1, <3>1, QuietStep DEF HandlerReturns
  <2>2. CASE /\ pc' = [pc EXCEPT ![w] = "succeeded"]
             /\ successes' = [successes EXCEPT ![cur[w]] = @ + 1]
    <3>1. /\ UNCHANGED <<jobs, batch, cur, requeues>> /\ pc[w] = "handling"
          /\ cur[w] \in Ids /\ Holds(w, cur[w])
      BY <1>5, CurrentRow DEF HandlerReturns
    <3>2. Keeps(i)
      BY <3>1 DEF Keeps
    <3>3. CASE cur[w] = i
      <4>1. w \in Pending(i) /\ Pending(i)' \subseteq Pending(i) \ {w}
        BY <2>2, <3>1, <3>3 DEF Pending, Holds, TypeOK
      <4>2. successes'[i] = successes[i] + 1
        BY <2>2, <3>3 DEF TypeOK
      <4> QED BY <3>2, <4>1, <4>2 DEF TryStep, Succeeds
    <3>4. CASE cur[w] # i
      <4>1. Pending(i)' \subseteq Pending(i)
        BY <2>2, <3>1, <3>4 DEF Pending, Holds, TypeOK
      <4>2. successes'[i] = successes[i]
        BY <2>2, <3>4 DEF TypeOK
      <4> QED BY <3>2, <4>1, <4>2 DEF TryStep, Leaves
    <3> QED BY <3>3, <3>4
  <2> QED BY <1>5, <2>1, <2>2 DEF HandlerReturns
<1>6. ASSUME NEW w \in Workers, Stop(w) PROVE TryStep(i)
  <2>1. Pending(i)' \subseteq Pending(i)
    BY <1>6 DEF Stop, Empty, Pending, Holds, TypeOK
  <2> QED BY <1>6, <2>1 DEF Stop, TryStep, Leaves, Keeps
<1>7. ASSUME NEW w \in Workers, ClaimLost(w) PROVE TryStep(i)
  BY <1>1, <1>7 DEF ClaimLost
<1>8. CASE Tick
  BY <1>1, <1>8 DEF Tick, workerVars
<1> QED BY <1>1, <1>2, <1>3, <1>4, <1>5, <1>6, <1>7, <1>8, SettlingStep
        DEF Next, WorkerStep, LoopStep, vars

\* Only a recovery adds to what is left of a row.
LEMMA TriesLeftStep ==
  ASSUME TypeOK, TypeOK', InHand, TriesLeft, [Next]_vars
  PROVE  TriesLeft'
<1> DEFINE Claimable(i) == IF jobs[i].state \in {"none", "available"} THEN 1 ELSE 0
<1> SUFFICES ASSUME NEW i \in Ids
             PROVE  successes'[i] + Cardinality(Pending(i)') + Claimable(i)' <= 1 + requeues'[i]
  BY DEF TriesLeft
<1>1. /\ successes[i] \in Nat /\ requeues[i] \in Nat
      /\ Cardinality(Pending(i)) \in Nat /\ Cardinality(Pending(i)') \in Nat
      /\ Claimable(i) \in 0 .. 1 /\ Claimable(i)' \in 0 .. 1
      /\ successes[i] + Cardinality(Pending(i)) + Claimable(i) <= 1 + requeues[i]
  BY PendingFinite, RowTypes DEF TriesLeft
<1>2. CASE Takes(i)
  <2>1. /\ Cardinality(Pending(i)') <= Cardinality(Pending(i)) + 1
        /\ successes'[i] = successes[i] /\ requeues'[i] = requeues[i]
    BY <1>2, PendingCount DEF Takes, Claims
  <2>2. Claimable(i) = 1 /\ Claimable(i)' = 0
    BY <1>2 DEF Takes, Claims
  <2> HIDE DEF Claimable
  <2> QED BY <1>1, <2>1, <2>2
<1>3. CASE Succeeds(i)
  <2>1. /\ Cardinality(Pending(i)') <= Cardinality(Pending(i)) - 1
        /\ successes'[i] = successes[i] + 1 /\ requeues'[i] = requeues[i]
    BY <1>3, PendingCount DEF Succeeds, Keeps
  <2>2. Claimable(i)' = Claimable(i)
    BY <1>3 DEF Succeeds, Keeps
  <2> HIDE DEF Claimable
  <2> QED BY <1>1, <2>1, <2>2
<1>4. CASE GivesUp(i)
  <2>1. /\ Cardinality(Pending(i)') <= Cardinality(Pending(i)) - 1
        /\ successes'[i] = successes[i] /\ requeues'[i] = requeues[i]
    BY <1>4, PendingCount DEF GivesUp, Settles
  <2>2. Claimable(i) = 0
    BY <1>4 DEF GivesUp, Settles
  <2> HIDE DEF Claimable
  <2> QED BY <1>1, <2>1, <2>2
<1>5. CASE Leaves(i)
  <2>1. /\ Cardinality(Pending(i)') <= Cardinality(Pending(i))
        /\ successes'[i] = successes[i]
    BY <1>5, PendingCount DEF Leaves
  <2>2. \/ Claimable(i)' <= Claimable(i) /\ requeues'[i] = requeues[i]
        \/ requeues'[i] = requeues[i] + 1
    BY <1>5 DEF Leaves, Keeps, Submits, Recovers, Settles
  <2> HIDE DEF Claimable
  <2> QED BY <1>1, <2>1, <2>2
<1> QED BY <1>2, <1>3, <1>4, <1>5, EveryTryStep DEF TryStep

\* A success is one of the claims of its row.
LEMMA TriesMadeStep ==
  ASSUME TypeOK, TypeOK', InHand, TriesMade, [Next]_vars
  PROVE  TriesMade'
<1>1. ASSUME NEW i \in Ids
      PROVE  successes'[i] + Cardinality(Pending(i)') <= jobs'[i].attempts
  <2>1. /\ successes[i] \in Nat /\ jobs[i].attempts \in Nat
        /\ Cardinality(Pending(i)) \in Nat /\ Cardinality(Pending(i)') \in Nat
        /\ successes[i] + Cardinality(Pending(i)) <= jobs[i].attempts
        /\ jobs[i].state = "none" => jobs[i].attempts = 0
    BY PendingFinite, RowTypes DEF TriesMade
  <2>2. CASE Takes(i)
    BY <2>1, <2>2, PendingCount DEF Takes, Claims
  <2>3. CASE Succeeds(i)
    BY <2>1, <2>3, PendingCount DEF Succeeds, Keeps
  <2>4. CASE GivesUp(i)
    BY <2>1, <2>4, PendingCount DEF GivesUp, Settles
  <2>5. CASE Leaves(i)
    <3>1. jobs'[i].attempts = jobs[i].attempts
      BY <2>1, <2>5 DEF Leaves, Keeps, Submits, Recovers, Settles
    <3>2. /\ Cardinality(Pending(i)') <= Cardinality(Pending(i))
          /\ successes'[i] = successes[i]
      BY <2>5, PendingCount DEF Leaves
    <3> QED BY <2>1, <3>1, <3>2
  <2> QED BY <2>2, <2>3, <2>4, <2>5, EveryTryStep DEF TryStep
<1>2. ASSUME NEW i \in Ids, jobs'[i].state = "none" PROVE jobs'[i].attempts = 0
  BY <1>2, EveryRowStep DEF RowStep, Keeps, Submits, Recovers, Claims, Settles, TriesMade
<1>3. ASSUME NEW w \in Workers, pc'[w] = "succeeded" PROVE successes'[cur'[w]] > 0
  <2>1. CASE pc[w] = "succeeded" /\ cur'[w] = cur[w]
    <3>1. cur[w] \in Ids
      BY <2>1 DEF InHand
    <3>2. successes[cur[w]] > 0 /\ successes[cur[w]] \in Nat /\ successes'[cur[w]] \in Nat
      BY <2>1, <3>1 DEF TriesMade, TypeOK
    <3>3. successes'[cur[w]] = successes[cur[w]] \/ successes'[cur[w]] = successes[cur[w]] + 1
      BY <3>1, EveryTryStep DEF TryStep, Takes, Succeeds, GivesUp, Leaves
    <3> QED BY <2>1, <3>2, <3>3
  <2>2. CASE ~(pc[w] = "succeeded" /\ cur'[w] = cur[w])
    <3>1. HandlerReturns(w)
      <4>1. CASE UNCHANGED vars
        BY <1>3, <2>2, <4>1 DEF vars, workerVars
      <4>2. ASSUME NEW k \in Keys, NEW delay \in Delays, Enqueue(k, delay)
            PROVE  UNCHANGED <<pc, cur>>
        BY <4>2 DEF Enqueue, vars, workerVars
      <4>3. ASSUME NEW v \in Workers,
                   \/ Start(v) \/ ClaimNextJobs(v) \/ Handle(v) \/ CompleteJob(v) \/ RetryJob(v)
                   \/ ClaimLost(v) \/ SettleFails(v) \/ Stop(v)
            PROVE  pc'[w] = "succeeded" => pc[w] = "succeeded" /\ cur'[w] = cur[w]
        BY <4>3 DEF Start, ClaimNextJobs, Handle, CompleteJob, RetryJob, NextInBatch, ClaimLost,
                    SettleFails, Stop, TypeOK
      <4>4. ASSUME NEW v \in Workers, HandlerReturns(v), v # w
            PROVE  pc'[w] = pc[w] /\ cur'[w] = cur[w]
        BY <4>4 DEF HandlerReturns, TypeOK
      <4> QED BY <1>3, <2>2, <4>1, <4>2, <4>3, <4>4 DEF Next, WorkerStep, LoopStep, Tick, workerVars
    <3>2. cur[w] \in Ids
      BY <3>1, CurrentRow DEF HandlerReturns
    <3>3. cur' = cur /\ successes' = [successes EXCEPT ![cur[w]] = @ + 1]
      BY <1>3, <3>1 DEF HandlerReturns, TypeOK
    <3>4. successes[cur[w]] \in Nat
      BY <3>2, RowTypes
    <3> QED BY <3>2, <3>3, <3>4 DEF TypeOK
  <2> QED BY <2>1, <2>2
<1> QED BY <1>1, <1>2, <1>3 DEF TriesMade

-----------------------------------------------------------------------------
\* The empty table satisfies the invariant.
LEMMA Initially == Init => IInv
<1> SUFFICES ASSUME Init PROVE IInv
  OBVIOUS
<1>1. TypeOK
  BY DEF Init, TypeOK, Rows, RowStates, Empty
<1>2. InHand /\ ExclusiveUntilRequeued
  BY DEF Init, InHand, ExclusiveUntilRequeued, Holders, Holds, Empty
<1>3. ClaimsLeft
  BY AttemptsAssumption DEF Init, ClaimsLeft
<1>4. \A i \in Ids : Pending(i) = {}
  BY DEF Init, Pending, Holds, Empty
<1>5. Cardinality({}) = 0
  BY FS_EmptySet
<1>6. TriesLeft
  BY <1>4, <1>5 DEF Init, TriesLeft
<1>7. TriesMade
  BY <1>4, <1>5 DEF Init, TriesMade
<1> QED BY <1>1, <1>2, <1>3, <1>6, <1>7 DEF IInv

\* Every step keeps the invariant.
LEMMA Inductive == IInv /\ [Next]_vars => IInv'
<1> SUFFICES ASSUME IInv, [Next]_vars PROVE IInv'
  OBVIOUS
<1>1. TypeOK /\ InHand /\ TypeOK'
  BY TypeStep DEF IInv
<1>2. InHand' /\ ClaimsLeft' /\ ExclusiveUntilRequeued'
  BY <1>1, InHandStep, ClaimsLeftStep, ExclusiveStep DEF IInv
<1>3. TriesLeft' /\ TriesMade'
  BY <1>1, TriesLeftStep, TriesMadeStep DEF IInv
<1> QED BY <1>1, <1>2, <1>3 DEF IInv

\* The invariant holds in every reachable state.
LEMMA Invariant == Spec => []IInv
BY Initially, Inductive, PTL DEF Spec

\* Type correctness: rows, batches and counters keep their shape.
THEOREM TypeCorrect == Spec => []TypeOK
<1>1. IInv => TypeOK
  BY DEF IInv
<1> QED BY <1>1, Invariant, PTL

\* Leasing: until startup recovery takes a row back, FOR UPDATE SKIP LOCKED
\* and the state of the row keep it with one worker, although the statements
\* that settle it never look at locked_by.
THEOREM Exclusive == Spec => []ExclusiveUntilRequeued
<1>1. IInv => ExclusiveUntilRequeued
  BY DEF IInv
<1> QED BY <1>1, Invariant, PTL

\* RetryJob's limit and startup recovery together: a row is claimed at most
\* max_attempts times, and once more for each recovery.
THEOREM AttemptsAreBounded == Spec => []AttemptsBounded
<1>1. IInv => AttemptsBounded
  BY DEF IInv, ClaimsLeft, AttemptsBounded
<1> QED BY <1>1, Invariant, PTL

\* A job's effect is applied once, and again only for a recovery.
THEOREM DuplicatesAreBounded == Spec => []DuplicatesBounded
<1>1. IInv => DuplicatesBounded
  <2> SUFFICES ASSUME IInv, NEW i \in Ids PROVE successes[i] <= 1 + requeues[i]
    BY DEF DuplicatesBounded
  <2>1. /\ successes[i] \in Nat /\ requeues[i] \in Nat /\ Cardinality(Pending(i)) \in Nat
    BY RowTypes, PendingFinite DEF IInv
  <2>2. successes[i] + Cardinality(Pending(i))
          + (IF jobs[i].state \in {"none", "available"} THEN 1 ELSE 0) <= 1 + requeues[i]
    BY DEF IInv, TriesLeft
  <2> QED BY <2>1, <2>2
<1> QED BY <1>1, Invariant, PTL

\* Nothing the workers or the passing of time do changes a dead row.
THEOREM DeadRowsStay == Spec => DeadStays
<1>1. IInv /\ [Next]_vars =>
        [\A i \in Ids : jobs[i].state = "dead" => jobs'[i] = jobs[i]]_vars
  BY EveryRowStep DEF IInv, RowStep, Keeps, Submits, Recovers, Claims, Settles
<1> QED BY <1>1, Invariant, PTL DEF Spec, DeadStays

\* Within its lease a row that a worker has becomes claimable only by RetryJob
\* of a worker that held it: recovery, which looks at the age of the lock alone,
\* takes back only older ones.
THEOREM LeaseIsRespected == Spec => LeaseRespected
<1>1. IInv /\ [Next]_vars =>
        [\A i \in Ids :
           /\ jobs[i].state = "running" /\ jobs[i].age <= StaleAfter
           /\ jobs'[i].state = "available"
           => \E w \in Workers : Holds(w, i) /\ batch'[w][i] = 0]_vars
  <2> SUFFICES ASSUME IInv, [Next]_vars, NEW i \in Ids,
                      jobs[i].state = "running", jobs[i].age <= StaleAfter,
                      jobs'[i].state = "available"
               PROVE  \E w \in Workers : Holds(w, i) /\ batch'[w][i] = 0
    OBVIOUS
  <2>1. RowStep(i)
    BY EveryRowStep DEF IInv
  <2>2. ~Recovers(i)
    <3>1. jobs[i].age \in Nat /\ StaleAfter \in Nat
      BY RowTypes, RowType, BoundsAssumption DEF IInv
    <3> QED BY <3>1 DEF Recovers, Stale
  <2>3. PICK w \in Workers : Settles(i, w)
    BY <2>1, <2>2 DEF RowStep, Keeps, Submits, Claims
  <2>4. Holds(w, i)
    BY <2>3 DEF Settles, IInv, InHand
  <2> QED BY <2>3, <2>4 DEF Settles
<1> QED BY <1>1, Invariant, PTL DEF Spec, LeaseRespected

-----------------------------------------------------------------------------
(***************************************************************************)
(* The queue implements AtLeastOnce.                                       *)
(***************************************************************************)
phases == [i \in Ids |-> Phase(jobs[i].state)]
tries == [i \in Ids |-> jobs[i].attempts]

\* The phases of the promise that states of rows stand for.
LEMMA PhaseValues ==
  /\ Phase("none") = "new" /\ Phase("available") = "queued" /\ Phase("running") = "queued"
  /\ Phase("deleted") = "done" /\ Phase("dead") = "givenUp"
BY DEF Phase

\* A step that leaves phase and attempts of every row and the successes
\* alone is a stutter of the promise.
LEMMA PromiseStutter ==
  ASSUME \A i \in Ids : /\ Phase(jobs'[i].state) = Phase(jobs[i].state)
                        /\ jobs'[i].attempts = jobs[i].attempts,
         successes' = successes
  PROVE  UNCHANGED Promise!vars
BY DEF Promise!vars

\* Startup recovery and the passing of time leave every phase alone.
LEMMA KeepsPhase ==
  ASSUME NEW i \in Ids, Keeps(i) \/ Recovers(i)
  PROVE  /\ Phase(jobs'[i].state) = Phase(jobs[i].state)
         /\ jobs'[i].attempts = jobs[i].attempts
BY PhaseValues DEF Keeps, Recovers

\* The empty table is the initial state of the promise.
LEMMA PromiseInit == Init => Promise!Init
BY PhaseValues DEF Init, Promise!Init

\* Every step of the queue is a step of the promise, or changes nothing of it.
LEMMA PromiseStep ==
  ASSUME IInv, [Next]_vars
  PROVE  [Promise!Next]_(Promise!vars)
<1>0. TypeOK /\ InHand
  BY DEF IInv
<1>1. CASE UNCHANGED <<jobs, successes>>
  BY <1>1, PromiseStutter
<1>2. ASSUME NEW k \in Keys, NEW delay \in Delays, Enqueue(k, delay)
      PROVE  [Promise!Next]_(Promise!vars)
  <2>1. CASE UNCHANGED vars
    BY <1>1, <2>1 DEF vars
  <2>2. ASSUME NEW n \in Ids, jobs[n].state = "none", successes' = successes,
               jobs' = [jobs EXCEPT ![n] =
                 [state |-> "available", key |-> k, attempts |-> 0,
                  wait |-> delay, age |-> 0, lockedBy |-> NoWorker]]
        PROVE  Promise!Submit(n)
    <3>1. phases[n] = "new" /\ jobs[n].attempts = 0
      BY <2>2, PhaseValues DEF phases, IInv, TriesMade
    <3>2. phases' = [phases EXCEPT ![n] = "queued"]
      BY <1>0, <2>2, PhaseValues DEF phases, TypeOK
    <3>3. tries' = tries
      BY <1>0, <2>2, <3>1 DEF tries, TypeOK
    <3> QED BY <2>2, <3>1, <3>2, <3>3 DEF Promise!Submit, phases, tries
  <2> QED BY <1>2, <2>1, <2>2 DEF Enqueue, Promise!Next
<1>3. ASSUME NEW w \in Workers, Start(w) PROVE [Promise!Next]_(Promise!vars)
  <2>1. successes' = successes
    BY <1>3 DEF Start
  <2>2. ASSUME NEW i \in Ids PROVE Keeps(i) \/ Recovers(i)
    <3>1. jobs[i].state = "running" \/ jobs'[i] = jobs[i]
      BY <1>3 DEF Start, RequeueStaleJobs, Stale
    <3>2. batch' = batch
      BY <1>3 DEF Start
    <3>3. \A v \in Workers : ~Settles(i, v)
      BY <1>0, <3>2 DEF Settles, InHand, Holds
    <3> QED BY <1>0, <3>1, <3>3, EveryRowStep DEF RowStep, Submits, Claims
  <2> QED BY <2>1, <2>2, KeepsPhase, PromiseStutter
<1>4. ASSUME NEW w \in Workers, ClaimNextJobs(w) \/ ClaimLost(w)
      PROVE  [Promise!Next]_(Promise!vars)
  <2>1. PICK S \in SUBSET Due : jobs' = Claimed(S, w)
    BY <1>4 DEF ClaimNextJobs, ClaimLost
  <2>2. requeues' = requeues /\ successes' = successes
    BY <1>4 DEF ClaimNextJobs, ClaimLost
  <2>3. S \in SUBSET Ids
    BY DEF Due
  <2>4. \A i \in Ids : /\ i \in S => Claims(i, w)
                       /\ i \notin S => Keeps(i)
    BY <1>0, <2>1, <2>2, ClaimedRow
  <2>5. \A i \in S : phases[i] = "queued"
    BY <2>3, <2>4, PhaseValues DEF Claims, phases
  <2>6. phases' = phases
    BY <2>4, PhaseValues DEF Claims, Keeps, phases
  <2>7. tries' = [i \in Ids |-> IF i \in S THEN tries[i] + 1 ELSE tries[i]]
    BY <2>4 DEF Claims, Keeps, tries
  <2>8. Promise!Try(S)
    BY <2>2, <2>5, <2>6, <2>7 DEF Promise!Try, phases, tries
  <2> QED BY <2>3, <2>8 DEF Promise!Next
<1>5. ASSUME NEW w \in Workers, HandlerReturns(w) PROVE [Promise!Next]_(Promise!vars)
  <2>1. CASE successes' = successes
    BY <1>1, <1>5, <2>1 DEF HandlerReturns
  <2>2. CASE successes' = [successes EXCEPT ![cur[w]] = @ + 1]
    <3> DEFINE i == cur[w]
    <3>1. i \in Ids /\ w \in Pending(i) /\ jobs' = jobs
      BY <1>0, <1>5, CurrentRow DEF HandlerReturns, Pending
    <3>2. Cardinality(Pending(i)) \in Nat /\ Cardinality(Pending(i)) # 0
      BY <3>1, PendingFinite, FS_EmptySet
    <3>3. successes[i] < tries[i]
      BY <1>0, <3>1, <3>2, RowTypes DEF IInv, TriesMade, tries
    <3>4. phases' = phases /\ tries' = tries
      BY <3>1 DEF phases, tries
    <3>5. Promise!Deliver(i)
      BY <2>2, <3>3, <3>4 DEF Promise!Deliver, phases, tries
    <3> QED BY <3>1, <3>5 DEF Promise!Next
  <2> QED BY <1>5, <2>1, <2>2 DEF HandlerReturns
<1>6. ASSUME NEW w \in Workers, CompleteJob(w) \/ RetryJob(w)
      PROVE  [Promise!Next]_(Promise!vars)
  <2> DEFINE i == cur[w]
  <2>1. i \in Ids /\ pc[w] \in {"succeeded", "failed"} /\ successes' = successes
    BY <1>0, <1>6, CurrentRow DEF CompleteJob, RetryJob
  <2>2. \A n \in Ids : n # i => jobs'[n] = jobs[n]
    BY <1>0, <1>6 DEF CompleteJob, RetryJob, TypeOK
  <2>3. RowStep(i)
    BY <1>0, <2>1, EveryRowStep
  <2>4. requeues' = requeues /\ (jobs[i].state = "running" \/ jobs' = jobs)
    BY <1>6 DEF CompleteJob, RetryJob
  <2>5. ~Submits(i) \/ jobs' = jobs
    BY <2>4 DEF Submits
  <2>6. ~Recovers(i)
    BY <1>0, <2>1, <2>4, RowTypes DEF Recovers
  <2>7. \A v \in Workers : ~Claims(i, v) \/ jobs' = jobs
    BY <2>4 DEF Claims
  <2>8. CASE Keeps(i) \/ jobs' = jobs
    <3>1. \A n \in Ids : /\ Phase(jobs'[n].state) = Phase(jobs[n].state)
                         /\ jobs'[n].attempts = jobs[n].attempts
      BY <2>1, <2>2, <2>8 DEF Keeps
    <3> QED BY <2>1, <3>1, PromiseStutter
  <2>9. ASSUME NEW v \in Workers, Settles(i, v) PROVE [Promise!Next]_(Promise!vars)
    <3>1. phases[i] = "queued" /\ tries' = tries
      BY <2>1, <2>2, <2>9, PhaseValues DEF Settles, phases, tries
    <3>2. CASE jobs'[i].state = "deleted"
      <4>1. phases' = [phases EXCEPT ![i] = "done"]
        BY <2>1, <2>2, <3>2, PhaseValues DEF phases
      <4>2. successes[i] > 0
        BY <2>9, <3>2 DEF Settles, IInv, TriesMade
      <4>3. Promise!Settle(i)
        BY <2>1, <3>1, <4>1, <4>2 DEF Promise!Settle, phases, tries
      <4> QED BY <2>1, <4>3 DEF Promise!Next
    <3>3. CASE jobs'[i].state = "dead"
      <4>1. phases' = [phases EXCEPT ![i] = "givenUp"]
        BY <2>1, <2>2, <3>3, PhaseValues DEF phases
      <4>2. tries[i] >= MaxAttempts
        BY <2>1, <2>9, <3>3 DEF Settles, tries
      <4>3. Promise!GiveUp(i)
        BY <2>1, <3>1, <4>1, <4>2 DEF Promise!GiveUp, phases, tries
      <4> QED BY <2>1, <4>3 DEF Promise!Next
    <3>4. CASE jobs'[i].state = "available"
      <4>1. \A n \in Ids : /\ Phase(jobs'[n].state) = Phase(jobs[n].state)
                           /\ jobs'[n].attempts = jobs[n].attempts
        BY <2>2, <2>9, <3>4, PhaseValues DEF Settles
      <4> QED BY <2>1, <4>1, PromiseStutter
    <3> QED BY <2>9, <3>2, <3>3, <3>4 DEF Settles
  <2> QED BY <2>3, <2>5, <2>6, <2>7, <2>8, <2>9 DEF RowStep
<1>7. CASE Tick
  <2>1. \A i \in Ids : Keeps(i)
    BY <1>0, <1>7, AgedKeeps, RowTypes DEF Tick, Keeps
  <2> QED BY <1>7, <2>1, KeepsPhase, PromiseStutter DEF Tick
<1> QED BY <1>1, <1>2, <1>3, <1>4, <1>5, <1>6, <1>7
        DEF Next, WorkerStep, LoopStep, Handle, SettleFails, Stop, vars

\* The queue keeps its promise: no row leaves before one of its handlers
\* succeeded, and none is given up before max_attempts claims, whatever
\* workers that lost their lease, stops and lost results do.
THEOREM QueueImplementsPromise == Spec => ImplementsPromise
BY PromiseInit, PromiseStep, Invariant, PTL DEF Spec, ImplementsPromise, Promise!Spec
=============================================================================
