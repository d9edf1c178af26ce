--------------------------- MODULE JourneysProofs ---------------------------
(***************************************************************************)
(* Theorems about Journeys, for every set of journeys, owners, clients and *)
(* workers, and about the warning of an outing, for every set of devices   *)
(* and workers.  IInv is the inductive invariant of the first:             *)
(* SeenNotAhead is what makes VersionIsContent inductive, because an       *)
(* update that bumps the version then leaves every client behind it.       *)
(* WarnInv is the one of the second.                                       *)
(***************************************************************************)
EXTENDS Journeys, OutingWarning, TLAPS

IInv == /\ TypeOK
        /\ SeenNotAhead
        /\ VersionIsContent
        /\ OneActivePerOwner
        /\ ActiveOutingHasJob

(***************************************************************************)
(* What a step may do to the table.  Replaces(j): the row of j alone is    *)
(* replaced, by one with the next version; only a free owner gets a new    *)
(* active journey, a row that is over keeps its status and kind, and a     *)
(* trip stays one.                                                         *)
(***************************************************************************)
Replaces(j) ==
  /\ journeys' = [journeys EXCEPT ![j] = journeys'[j]]
  /\ journeys'[j] \in Rows
  /\ journeys'[j].version = journeys[j].version + 1
  /\ Active(j)' => \/ Active(j)
                   \/ \A i \in JourneyIds : Owner(i) = Owner(j) => ~Active(i)
  /\ Exists(j) /\ ~Active(j) => /\ journeys'[j].status = journeys[j].status
                                /\ journeys'[j].kind = journeys[j].kind
  /\ Exists(j) /\ journeys[j].kind = "trip" => journeys'[j].kind = "trip"

TableStep == journeys' = journeys \/ \E j \in JourneyIds : Replaces(j)

\* What a step may do to the clients: one of them sees a current row.
SeenStep ==
  \/ seen' = seen
  \/ \E c \in Clients, j \in JourneyIds : seen' = [seen EXCEPT ![c][j] = journeys'[j]]

\* Every version, the missing row's too, is a natural number.
LEMMA RowVersion ==
  ASSUME NEW row \in Rows \cup {NoJourney}
  PROVE  row.version \in Nat
<1>1. CASE row \in Rows
  BY <1>1 DEF Rows
<1>2. CASE row = NoJourney
  BY <1>2 DEF NoJourney
<1> QED BY <1>1, <1>2

\* A journey of the table exists and is a stored row, or is the missing row.
LEMMA RowOfTable ==
  ASSUME TypeOK, NEW j \in JourneyIds
  PROVE  /\ journeys[j] \in Rows \cup {NoJourney}
         /\ journeys[j].version \in Nat
         /\ Exists(j) => journeys[j] \in Rows
         /\ ~Exists(j) => journeys[j] = NoJourney
<1>1. journeys[j] \in Rows \cup {NoJourney}
  BY DEF TypeOK
<1>2. \A row \in Rows : row.status # "none"
  BY DEF Rows
<1>3. NoJourney.status = "none"
  BY DEF NoJourney
<1> QED BY <1>1, <1>2, <1>3, RowVersion DEF Exists

\* The versions the clients hold are natural numbers.
LEMMA SeenVersion ==
  ASSUME TypeOK, NEW c \in Clients, NEW j \in JourneyIds
  PROVE  seen[c][j].version \in Nat
<1>1. seen[c][j] \in Rows \cup {NoJourney}
  BY DEF TypeOK
<1> QED BY <1>1, RowVersion

\* A stored row with another version, label, kind or status is a stored row.
LEMMA ChangedRow ==
  ASSUME NEW row \in Rows, NEW label \in Labels, NEW version \in Nat \ {0}
  PROVE  /\ [row EXCEPT !.label = label, !.version = version] \in Rows
         /\ [row EXCEPT !.status = "ended", !.version = version] \in Rows
         /\ [row EXCEPT !.status = "expired", !.version = version] \in Rows
         /\ [row EXCEPT !.kind = "trip", !.version = version] \in Rows
BY DEF Rows, Kinds

\* A stored row has a label, and its next version is a version of rows.
LEMMA StoredRow ==
  ASSUME NEW row \in Rows
  PROVE  row.label \in Labels /\ row.version + 1 \in Nat \ {0}
BY DEF Rows

(***************************************************************************)
(* One lemma per action that changes the table.                            *)
(***************************************************************************)
\* A new journey is the first active one of its owner.
LEMMA CreateNewReplaces ==
  ASSUME TypeOK, NEW c \in Clients, NEW j \in JourneyIds, CreateNew(c, j)
  PROVE  Replaces(j) /\ SeenStep
<1>1. PICK label \in Labels :
        /\ journeys' = [journeys EXCEPT ![j] =
             [status |-> "active", kind |-> AskedKind(j), label |-> label, version |-> 1]]
        /\ Respond(c, j, [status |-> "active", kind |-> AskedKind(j),
                          label |-> label, version |-> 1])
  BY DEF CreateNew
<1> DEFINE row == [status |-> "active", kind |-> AskedKind(j), label |-> label, version |-> 1]
<1>2. row \in Rows
  BY KindAssumption DEF Rows, Kinds
<1>3. journeys'[j] = row
  BY <1>1 DEF TypeOK
<1>4. ~Exists(j)
  BY DEF CreateNew
<1>9. journeys[j] = NoJourney
  BY <1>4, RowOfTable
<1>10. NoJourney.version = 0
  BY DEF NoJourney
<1>5. row.version = journeys[j].version + 1
  BY <1>9, <1>10
<1>6. \A i \in JourneyIds : Owner(i) = Owner(j) => ~Active(i)
  BY DEF CreateNew
<1>7. Replaces(j)
  BY <1>1, <1>2, <1>3, <1>4, <1>5, <1>6 DEF Replaces
<1>8. SeenStep
  BY <1>1, <1>3 DEF Respond, SeenStep
<1> QED BY <1>7, <1>8

\* An accepted update replaces a journey that exists and tells its sender.
LEMMA StoreReplaces ==
  ASSUME TypeOK, NEW c \in Clients, NEW j \in JourneyIds, NEW row \in Rows,
         Exists(j), Store(c, j, row),
         row.version = journeys[j].version + 1,
         row.status = "active" => Active(j),
         ~Active(j) => row.status = journeys[j].status /\ row.kind = journeys[j].kind,
         row.kind \in {journeys[j].kind, "trip"}
  PROVE  Replaces(j) /\ SeenStep
<1>1. journeys'[j] = row
  BY DEF Store, TypeOK
<1>2. Replaces(j)
  BY <1>1 DEF Store, Replaces, Active
<1>3. SeenStep
  BY <1>1 DEF Store, Respond, SeenStep
<1> QED BY <1>2, <1>3

\* Expiry replaces an active journey and leaves any other alone.
LEMMA ExpireReplaces ==
  ASSUME TypeOK, NEW j \in JourneyIds, ExpireJourney(j)
  PROVE  TableStep
<1>1. CASE ~Active(j)
  BY <1>1 DEF ExpireJourney, TableStep
<1>2. CASE Active(j)
  <2> DEFINE row == [journeys[j] EXCEPT !.status = "expired", !.version = @ + 1]
  <2>1. journeys[j] \in Rows
    BY <1>2, RowOfTable DEF Active, Exists
  <2>2. row \in Rows
    BY <2>1, StoredRow, ChangedRow
  <2>3. row.version = journeys[j].version + 1 /\ row.kind = journeys[j].kind
    BY <2>1 DEF Rows
  <2>4. journeys' = [journeys EXCEPT ![j] = row]
    BY <1>2 DEF ExpireJourney
  <2>5. journeys'[j] = row
    BY <2>4 DEF TypeOK
  <2>6. Replaces(j)
    BY <1>2, <2>2, <2>3, <2>4, <2>5 DEF Replaces
  <2> QED BY <2>6 DEF TableStep
<1> QED BY <1>1, <1>2

\* Every step is a step of the table and of the clients in the sense above.
LEMMA EveryStep ==
  ASSUME TypeOK, [Next]_vars
  PROVE  TableStep /\ SeenStep
<1>1. CASE UNCHANGED vars
  BY <1>1 DEF vars, TableStep, SeenStep
<1>2. ASSUME NEW c \in Clients, NEW j \in JourneyIds, CreateNew(c, j)
      PROVE  TableStep /\ SeenStep
  BY <1>2, CreateNewReplaces DEF TableStep
<1>3. ASSUME NEW c \in Clients, NEW j \in JourneyIds, CreateAgain(c, j)
      PROVE  TableStep /\ SeenStep
  BY <1>3 DEF CreateAgain, Respond, TableStep, SeenStep
<1>4. ASSUME NEW c \in Clients, NEW j \in JourneyIds, Get(c, j)
      PROVE  TableStep /\ SeenStep
  BY <1>4 DEF Get, TableStep, SeenStep
<1>5. ASSUME NEW c \in Clients, NEW j \in JourneyIds, NEW label \in Labels, Rename(c, j, label)
      PROVE  TableStep /\ SeenStep
  <2> DEFINE row == [journeys[j] EXCEPT !.label = label, !.version = @ + 1]
  <2>1. Exists(j) /\ journeys[j] \in Rows
    BY <1>5, RowOfTable DEF Rename, UpdateJourneyLabel, VersionMatches
  <2>2. row \in Rows
    BY <2>1, StoredRow, ChangedRow
  <2>3. row.version = journeys[j].version + 1 /\ row.status = journeys[j].status
        /\ row.kind = journeys[j].kind
    BY <2>1 DEF Rows
  <2>4. Store(c, j, row)
    BY <1>5 DEF Rename, UpdateJourneyLabel
  <2> QED BY <2>1, <2>2, <2>3, <2>4, StoreReplaces DEF TableStep, Active
<1>6. ASSUME NEW c \in Clients, NEW j \in JourneyIds, Complete(c, j)
      PROVE  TableStep /\ SeenStep
  <2> DEFINE row == [journeys[j] EXCEPT !.status = "ended", !.version = @ + 1]
  <2>1. Exists(j) /\ journeys[j] \in Rows
    BY <1>6, RowOfTable DEF Complete, CompleteJourney, VersionMatches
  <2>2. row \in Rows
    BY <2>1, StoredRow, ChangedRow
  <2>3. row.version = journeys[j].version + 1 /\ row.status = "ended"
        /\ row.kind = journeys[j].kind
    BY <2>1 DEF Rows
  <2>4. Store(c, j, row) /\ Active(j)
    BY <1>6 DEF Complete, CompleteJourney
  <2> QED BY <2>1, <2>2, <2>3, <2>4, StoreReplaces DEF TableStep
<1>7. ASSUME NEW c \in Clients, NEW j \in JourneyIds, ConvertToTrip(c, j)
      PROVE  TableStep /\ SeenStep
  <2> DEFINE row == [journeys[j] EXCEPT !.kind = "trip", !.version = @ + 1]
  <2>1. Exists(j) /\ journeys[j] \in Rows
    BY <1>7, RowOfTable DEF ConvertToTrip, ConvertOutingToTrip, VersionMatches
  <2>2. row \in Rows
    BY <2>1, StoredRow, ChangedRow
  <2>3. row.version = journeys[j].version + 1 /\ row.status = journeys[j].status
        /\ row.kind = "trip"
    BY <2>1 DEF Rows
  <2>4. Store(c, j, row) /\ Active(j)
    BY <1>7 DEF ConvertToTrip, ConvertOutingToTrip, ActiveOuting
  <2> QED BY <2>1, <2>2, <2>3, <2>4, StoreReplaces DEF TableStep
<1>8. ASSUME NEW w \in Workers, HandleExpiryUpdate(w)
      PROVE  TableStep /\ SeenStep
  <2>1. handling[w] \in JourneyIds /\ ExpireJourney(handling[w]) /\ seen' = seen
    BY <1>8 DEF HandleExpiryUpdate, TypeOK
  <2> QED BY <2>1, ExpireReplaces DEF SeenStep
<1>9. ASSUME \/ \E j \in JourneyIds : Elapse(j)
             \/ \E w \in Workers :
                  \/ \E j \in JourneyIds : HandleExpiryRead(w, j)
                  \/ HandleExpiryFails(w) \/ WorkerStops(w)
             \/ RequeueStaleJobs
      PROVE  TableStep /\ SeenStep
  BY <1>9 DEF Elapse, HandleExpiryRead, HandleExpiryFails, WorkerStops, RequeueStaleJobs,
              TableStep, SeenStep
<1> QED BY <1>1, <1>2, <1>3, <1>4, <1>5, <1>6, <1>7, <1>8, <1>9 DEF Next, Create

-----------------------------------------------------------------------------
(***************************************************************************)
(* Type correctness.                                                       *)
(***************************************************************************)
\* The queue's updates of an outing.expire row give such a row again.
LEMMA JobUpdates ==
  ASSUME NEW job \in Jobs
  PROVE  /\ [state |-> "scheduled", attempts |-> 0] \in Jobs /\ NoJob \in Jobs
         /\ [job EXCEPT !.state = "due"] \in Jobs
         /\ [job EXCEPT !.state = "stuck"] \in Jobs
         /\ [job EXCEPT !.attempts = @ + 1] \in Jobs
         /\ Retried(job) \in Jobs
BY DEF Jobs, NoJob, Retried

\* Every step keeps the types.
LEMMA TypeStep == TypeOK /\ [Next]_vars => TypeOK'
<1> SUFFICES ASSUME TypeOK, [Next]_vars PROVE TypeOK'
  OBVIOUS
<1>1. journeys' \in [JourneyIds -> Rows \cup {NoJourney}]
  <2>1. CASE journeys' = journeys
    BY <2>1 DEF TypeOK
  <2>2. ASSUME NEW j \in JourneyIds, Replaces(j)
        PROVE  journeys' \in [JourneyIds -> Rows \cup {NoJourney}]
    BY <2>2 DEF Replaces, TypeOK
  <2> QED BY <2>1, <2>2, EveryStep DEF TableStep
<1>2. seen' \in [Clients -> [JourneyIds -> Rows \cup {NoJourney}]]
  <2>1. CASE seen' = seen
    BY <2>1 DEF TypeOK
  <2>2. ASSUME NEW c \in Clients, NEW j \in JourneyIds, seen' = [seen EXCEPT ![c][j] = journeys'[j]]
        PROVE  seen' \in [Clients -> [JourneyIds -> Rows \cup {NoJourney}]]
    BY <1>1, <2>2 DEF TypeOK
  <2> QED BY <2>1, <2>2, EveryStep DEF SeenStep
<1> DEFINE QueueTyped == /\ expireJob' \in [JourneyIds -> Jobs]
                         /\ handling' \in [Workers -> JourneyIds \cup {Idle}]
<1>3. QueueTyped
  <2>1. CASE UNCHANGED vars
    BY <2>1 DEF vars, TypeOK
  <2>2. ASSUME NEW c \in Clients, NEW j \in JourneyIds, CreateNew(c, j) \/ CreateAgain(c, j)
        PROVE  QueueTyped
    BY <2>2, JobUpdates DEF CreateNew, CreateAgain, EnqueueExpiry, TypeOK
  <2>3. ASSUME NEW c \in Clients, NEW j \in JourneyIds,
               \/ Complete(c, j) \/ ConvertToTrip(c, j) \/ Get(c, j)
               \/ \E label \in Labels : Rename(c, j, label)
        PROVE  QueueTyped
    BY <2>3 DEF Complete, CompleteJourney, ConvertToTrip, ConvertOutingToTrip, Get, Rename, UpdateJourneyLabel, Store, TypeOK
  <2>4. ASSUME NEW j \in JourneyIds, Elapse(j)
        PROVE  QueueTyped
    BY <2>4, JobUpdates DEF Elapse, TypeOK
  <2>5. ASSUME NEW w \in Workers, NEW j \in JourneyIds, HandleExpiryRead(w, j)
        PROVE  QueueTyped
    <3>1. expireJob[j] \in Jobs
      BY DEF TypeOK
    <3>2. [expireJob[j] EXCEPT !.attempts = @ + 1] \in Jobs
      BY <3>1, JobUpdates
    <3>3. CASE ActiveOuting(j)
      <4>1. expireJob' = [expireJob EXCEPT ![j].attempts = @ + 1]
        BY <2>5, <3>3 DEF HandleExpiryRead
      <4>2. expireJob' \in [JourneyIds -> Jobs]
        BY <3>2, <4>1 DEF TypeOK
      <4>3. handling' \in [Workers -> JourneyIds \cup {Idle}]
        BY <2>5, <3>3 DEF HandleExpiryRead, TypeOK
      <4> QED BY <4>2, <4>3
    <3>4. CASE ~ActiveOuting(j)
      <4>1. expireJob' = Finished(j) /\ handling' = handling
        BY <2>5, <3>4 DEF HandleExpiryRead
      <4> QED BY <3>1, <4>1, JobUpdates DEF Finished, TypeOK
    <3> QED BY <3>3, <3>4
  <2>6. ASSUME NEW w \in Workers, HandleExpiryUpdate(w)
        PROVE  QueueTyped
    BY <2>6, JobUpdates DEF HandleExpiryUpdate, Finished, TypeOK
  <2>7. ASSUME NEW w \in Workers, HandleExpiryFails(w) \/ WorkerStops(w)
        PROVE  QueueTyped
    <3> DEFINE j == handling[w]
    <3>1. j \in JourneyIds
      BY <2>7 DEF HandleExpiryFails, WorkerStops, TypeOK
    <3>2. expireJob[j] \in Jobs
      BY <3>1 DEF TypeOK
    <3>3. Retried(expireJob[j]) \in Jobs /\ [expireJob[j] EXCEPT !.state = "stuck"] \in Jobs
      BY <3>2, JobUpdates
    <3>4. \/ expireJob' = [expireJob EXCEPT ![j] = Retried(expireJob[j])]
          \/ expireJob' = [expireJob EXCEPT ![j] = [expireJob[j] EXCEPT !.state = "stuck"]]
          \/ expireJob' = [expireJob EXCEPT ![j] = expireJob[j]]
      BY <2>7 DEF HandleExpiryFails, WorkerStops
    <3>5. handling' \in [Workers -> JourneyIds \cup {Idle}]
      BY <2>7 DEF HandleExpiryFails, WorkerStops, TypeOK
    <3> QED BY <3>1, <3>2, <3>3, <3>4, <3>5 DEF TypeOK
  <2>8. CASE RequeueStaleJobs
    BY <2>8, JobUpdates DEF RequeueStaleJobs, TypeOK
  <2> QED BY <2>1, <2>2, <2>3, <2>4, <2>5, <2>6, <2>7, <2>8 DEF Next, Create
<1> QED BY <1>1, <1>2, <1>3 DEF TypeOK

-----------------------------------------------------------------------------
(***************************************************************************)
(* The invariants, each preserved by a step of the table and the clients.  *)
(***************************************************************************)
LEMMA SeenNotAheadStep ==
  ASSUME TypeOK, TypeOK', SeenNotAhead, TableStep, SeenStep
  PROVE  SeenNotAhead'
<1> SUFFICES ASSUME NEW c \in Clients, NEW i \in JourneyIds
             PROVE  seen'[c][i].version <= journeys'[i].version
  BY DEF SeenNotAhead
<1>1. /\ journeys[i].version \in Nat /\ journeys'[i].version \in Nat
      /\ seen[c][i].version \in Nat
  BY RowOfTable, RowVersion, SeenVersion DEF TypeOK
<1>2. journeys[i].version <= journeys'[i].version
  <2>1. CASE journeys' = journeys
    BY <1>1, <2>1
  <2>2. ASSUME NEW j \in JourneyIds, Replaces(j)
        PROVE  journeys[i].version <= journeys'[i].version
    BY <1>1, <2>2 DEF Replaces, TypeOK
  <2> QED BY <2>1, <2>2 DEF TableStep
<1>3. seen'[c][i] = seen[c][i] \/ seen'[c][i] = journeys'[i]
  BY DEF SeenStep, TypeOK
<1> QED BY <1>1, <1>2, <1>3 DEF SeenNotAhead

\* An update makes a version nobody has seen, so nobody is wrong about it.
LEMMA VersionIsContentStep ==
  ASSUME TypeOK, TypeOK', SeenNotAhead, VersionIsContent, TableStep, SeenStep
  PROVE  VersionIsContent'
<1> SUFFICES ASSUME NEW c \in Clients, NEW i \in JourneyIds,
                    seen'[c][i].version = journeys'[i].version
             PROVE  seen'[c][i] = journeys'[i]
  BY DEF VersionIsContent
<1>1. seen'[c][i] = seen[c][i] \/ seen'[c][i] = journeys'[i]
  BY DEF SeenStep, TypeOK
<1>2. CASE journeys'[i] = journeys[i]
  BY <1>1, <1>2 DEF VersionIsContent
<1>3. CASE journeys'[i] # journeys[i]
  <2>1. journeys'[i].version = journeys[i].version + 1
    BY <1>3 DEF TableStep, Replaces, TypeOK
  <2>2. seen[c][i].version <= journeys[i].version
    BY DEF SeenNotAhead
  <2>3. seen[c][i].version # journeys'[i].version
    BY <2>1, <2>2, RowOfTable, SeenVersion
  <2> QED BY <1>1, <2>3
<1> QED BY <1>2, <1>3

\* A row that becomes active is the first active one of its owner.
LEMMA OneActiveStep ==
  ASSUME TypeOK, OneActivePerOwner, TableStep
  PROVE  OneActivePerOwner'
<1>1. CASE journeys' = journeys
  BY <1>1 DEF OneActivePerOwner, Active
<1>2. ASSUME NEW k \in JourneyIds, Replaces(k) PROVE OneActivePerOwner'
  <2> SUFFICES ASSUME NEW i \in JourneyIds, NEW j \in JourneyIds,
                      Active(i)', Active(j)', Owner(i) = Owner(j), i # j
               PROVE  FALSE
    BY DEF OneActivePerOwner
  <2>1. \A h \in JourneyIds : h # k => (Active(h)' <=> Active(h))
    BY <1>2 DEF Replaces, Active, TypeOK
  <2>2. \/ Active(k)
        \/ \A h \in JourneyIds : Owner(h) = Owner(k) => ~Active(h)
        \/ ~Active(k)'
    BY <1>2 DEF Replaces
  <2> QED BY <2>1, <2>2 DEF OneActivePerOwner
<1> QED BY <1>1, <1>2 DEF TableStep

\* Only an update of the table can take an outing's activity away, and only
\* the handler that found it inactive or expired it removes its job.
LEMMA ActiveOutingHasJobStep ==
  ASSUME TypeOK, ActiveOutingHasJob, [Next]_vars
  PROVE  ActiveOutingHasJob'
<1> SUFFICES ASSUME NEW i \in JourneyIds, ActiveOuting(i)'
             PROVE  expireJob'[i].state # "none"
  BY DEF ActiveOutingHasJob
<1>1. CASE UNCHANGED vars
  BY <1>1 DEF vars, ActiveOutingHasJob, ActiveOuting, Active
<1>2. ASSUME NEW c \in Clients, NEW j \in JourneyIds, CreateNew(c, j)
      PROVE  expireJob'[i].state # "none"
  <2>1. PICK label \in Labels :
          journeys' = [journeys EXCEPT ![j] =
            [status |-> "active", kind |-> AskedKind(j), label |-> label, version |-> 1]]
    BY <1>2 DEF CreateNew
  <2>2. EnqueueExpiry(j)
    BY <1>2 DEF CreateNew
  <2>3. CASE i = j
    <3>1. AskedKind(j) = "outing"
      BY <2>1, <2>3 DEF ActiveOuting, TypeOK
    <3> QED BY <2>2, <2>3, <3>1 DEF EnqueueExpiry, TypeOK
  <2>4. CASE i # j
    <3>1. ActiveOuting(i)
      BY <2>1, <2>4 DEF ActiveOuting, Active, TypeOK
    <3>2. expireJob'[i] = expireJob[i]
      BY <2>2, <2>4 DEF EnqueueExpiry, TypeOK
    <3> QED BY <3>1, <3>2 DEF ActiveOutingHasJob
  <2> QED BY <2>3, <2>4
<1>3. ASSUME NEW c \in Clients, NEW j \in JourneyIds, CreateAgain(c, j)
      PROVE  expireJob'[i].state # "none"
  <2>1. ActiveOuting(i)
    BY <1>3 DEF CreateAgain, ActiveOuting, Active
  <2>2. expireJob'[i] = expireJob[i] \/ expireJob'[i].state = "scheduled"
    BY <1>3 DEF CreateAgain, EnqueueExpiry, TypeOK
  <2> QED BY <2>1, <2>2 DEF ActiveOutingHasJob
<1>4. ASSUME NEW c \in Clients, NEW j \in JourneyIds,
             \/ Complete(c, j) \/ ConvertToTrip(c, j) \/ Get(c, j)
             \/ \E label \in Labels : Rename(c, j, label)
      PROVE  expireJob'[i].state # "none"
  <2>1. ActiveOuting(i) /\ expireJob' = expireJob
    <3>1. CASE Complete(c, j)
      BY <3>1 DEF Complete, CompleteJourney, Store, ActiveOuting, Active, TypeOK
    <3>2. CASE ConvertToTrip(c, j)
      BY <3>2 DEF ConvertToTrip, ConvertOutingToTrip, Store, ActiveOuting, Active, TypeOK
    <3>3. CASE Get(c, j)
      BY <3>3 DEF Get, ActiveOuting, Active
    <3>4. ASSUME NEW label \in Labels, Rename(c, j, label)
          PROVE  ActiveOuting(i) /\ expireJob' = expireJob
      <4>1. journeys[j] \in Rows
        BY <3>4, RowOfTable DEF Rename, UpdateJourneyLabel, VersionMatches
      <4>2. /\ [journeys[j] EXCEPT !.label = label, !.version = @ + 1].status = journeys[j].status
            /\ [journeys[j] EXCEPT !.label = label, !.version = @ + 1].kind = journeys[j].kind
        BY <4>1 DEF Rows
      <4> QED BY <3>4, <4>2 DEF Rename, UpdateJourneyLabel, Store, ActiveOuting, Active, TypeOK
    <3> QED BY <1>4, <3>1, <3>2, <3>3, <3>4
  <2> QED BY <2>1 DEF ActiveOutingHasJob
<1>5. ASSUME NEW w \in Workers, NEW j \in JourneyIds, HandleExpiryRead(w, j)
      PROVE  expireJob'[i].state # "none"
  <2>1. ActiveOuting(i) /\ expireJob[i].state # "none"
    BY <1>5 DEF HandleExpiryRead, ActiveOuting, Active, ActiveOutingHasJob
  <2>2. CASE i = j
    BY <1>5, <2>1, <2>2 DEF HandleExpiryRead, TypeOK, Jobs
  <2>3. CASE i # j
    BY <1>5, <2>1, <2>3 DEF HandleExpiryRead, Finished, TypeOK
  <2> QED BY <2>2, <2>3
<1>6. ASSUME NEW w \in Workers, HandleExpiryUpdate(w)
      PROVE  expireJob'[i].state # "none"
  <2>1. i # handling[w]
    BY <1>6 DEF HandleExpiryUpdate, ExpireJourney, ActiveOuting, Active, TypeOK
  <2>2. ActiveOuting(i) /\ expireJob'[i] = expireJob[i]
    BY <1>6, <2>1 DEF HandleExpiryUpdate, ExpireJourney, Finished, ActiveOuting, Active, TypeOK
  <2> QED BY <2>2 DEF ActiveOutingHasJob
<1>7. ASSUME NEW w \in Workers, HandleExpiryFails(w) \/ WorkerStops(w)
      PROVE  expireJob'[i].state # "none"
  <2>1. ActiveOuting(i) /\ expireJob[i].state # "none" /\ expireJob[i] \in Jobs
    BY <1>7 DEF HandleExpiryFails, WorkerStops, ActiveOuting, Active, ActiveOutingHasJob, TypeOK
  <2>2. Retried(expireJob[i]).state \in {"due", "dead"}
    BY <2>1 DEF Retried, Jobs
  <2>3. [expireJob[i] EXCEPT !.state = "stuck"].state = "stuck"
    BY <2>1 DEF Jobs
  <2>4. \/ expireJob'[i] = expireJob[i]
        \/ expireJob'[i] = Retried(expireJob[i])
        \/ expireJob'[i] = [expireJob[i] EXCEPT !.state = "stuck"]
    BY <1>7 DEF HandleExpiryFails, WorkerStops, TypeOK
  <2> QED BY <2>1, <2>2, <2>3, <2>4
<1>8. ASSUME \/ \E j \in JourneyIds : Elapse(j)
             \/ RequeueStaleJobs
      PROVE  expireJob'[i].state # "none"
  <2>1. ActiveOuting(i) /\ expireJob[i].state # "none"
    BY <1>8 DEF Elapse, RequeueStaleJobs, ActiveOuting, Active, ActiveOutingHasJob
  <2> QED BY <1>8, <2>1 DEF Elapse, RequeueStaleJobs, TypeOK, Jobs
<1> QED BY <1>1, <1>2, <1>3, <1>4, <1>5, <1>6, <1>7, <1>8 DEF Next, Create

-----------------------------------------------------------------------------
\* No journeys and no jobs satisfy the invariant.
LEMMA Initially == Init => IInv
<1> SUFFICES ASSUME Init PROVE IInv
  OBVIOUS
<1>1. NoJourney.status = "none" /\ NoJourney.version = 0
  BY DEF NoJourney
<1>2. TypeOK
  BY DEF Init, TypeOK, Jobs, NoJob
<1>3. \A c \in Clients, j \in JourneyIds : seen[c][j] = NoJourney /\ journeys[j] = NoJourney
  BY DEF Init
<1>4. SeenNotAhead /\ VersionIsContent
  BY <1>1, <1>3 DEF SeenNotAhead, VersionIsContent
<1>5. \A j \in JourneyIds : ~Active(j)
  BY <1>1 DEF Init, Active
<1>6. OneActivePerOwner /\ ActiveOutingHasJob
  BY <1>5 DEF OneActivePerOwner, ActiveOutingHasJob, ActiveOuting
<1> QED BY <1>2, <1>4, <1>6 DEF IInv

\* Every step keeps the invariant.
LEMMA Inductive == IInv /\ [Next]_vars => IInv'
<1> SUFFICES ASSUME IInv, [Next]_vars PROVE IInv'
  OBVIOUS
<1>1. TypeOK /\ TypeOK'
  BY TypeStep DEF IInv
<1>2. TableStep /\ SeenStep
  BY <1>1, EveryStep
<1>3. SeenNotAhead'
  BY <1>1, <1>2, SeenNotAheadStep DEF IInv
<1>4. VersionIsContent'
  BY <1>1, <1>2, VersionIsContentStep DEF IInv
<1>5. OneActivePerOwner'
  BY <1>1, <1>2, OneActiveStep DEF IInv
<1>6. ActiveOutingHasJob'
  BY <1>1, ActiveOutingHasJobStep DEF IInv
<1> QED BY <1>1, <1>3, <1>4, <1>5, <1>6 DEF IInv

\* The invariant holds in every reachable state.
LEMMA Invariant == Spec => []IInv
BY Initially, Inductive, PTL DEF Spec

\* Type correctness: the table, the jobs, the handlers and what the clients
\* hold keep their shape under every interleaving.
THEOREM TypeCorrect == Spec => []TypeOK
<1>1. IInv => TypeOK
  BY DEF IInv
<1> QED BY <1>1, Invariant, PTL

\* The partial unique index does what journeys.Service relies on: an owner
\* never has two active journeys, after repeats, expiries and conversions.
THEOREM OneActive == Spec => []OneActivePerOwner
<1>1. IInv => OneActivePerOwner
  BY DEF IInv
<1> QED BY <1>1, Invariant, PTL

\* Whoever holds the current version of a journey has seen the current row,
\* so that no accepted update overwrites what its sender did not know of.
THEOREM VersionsNameContent == Spec => []VersionIsContent
<1>1. IInv => VersionIsContent
  BY DEF IInv
<1> QED BY <1>1, Invariant, PTL

\* An active outing keeps its outing.expire row, whatever workers and
\* repeated creates do.
THEOREM ActiveOutingKeepsJob == Spec => []ActiveOutingHasJob
<1>1. IInv => ActiveOutingHasJob
  BY DEF IInv
<1> QED BY <1>1, Invariant, PTL

\* A journey that is over stays so: only its label may change.
THEOREM EndIsFinal == Spec => EndedIsFinal
<1>1. TypeOK /\ [Next]_vars =>
        [\A j \in JourneyIds : Exists(j) /\ ~Active(j) =>
           /\ journeys'[j].status = journeys[j].status
           /\ journeys'[j].kind = journeys[j].kind]_vars
  <2> SUFFICES ASSUME TypeOK, [Next]_vars, NEW j \in JourneyIds, Exists(j), ~Active(j)
               PROVE  /\ journeys'[j].status = journeys[j].status
                      /\ journeys'[j].kind = journeys[j].kind
    OBVIOUS
  <2>1. CASE journeys' = journeys
    BY <2>1
  <2>2. ASSUME NEW k \in JourneyIds, Replaces(k)
        PROVE  /\ journeys'[j].status = journeys[j].status
               /\ journeys'[j].kind = journeys[j].kind
    <3>1. CASE k = j
      BY <2>2, <3>1 DEF Replaces
    <3>2. CASE k # j
      BY <2>2, <3>2 DEF Replaces, TypeOK
    <3> QED BY <3>1, <3>2
  <2> QED BY <2>1, <2>2, EveryStep DEF TableStep
<1> QED BY <1>1, TypeCorrect, PTL DEF Spec, EndedIsFinal

\* An outing that ended, expired or became a trip is never an active outing
\* again, and a trip never becomes one: once over for the warning, over for good.
NeverOutingAgain ==
  [][\A j \in JourneyIds : Exists(j) /\ ~ActiveOuting(j) => ~ActiveOuting(j)']_vars

\* What the warning takes for granted of a journey that it looks at once.
THEOREM OutingIsOverForGood == Spec => NeverOutingAgain
<1>1. TypeOK /\ [Next]_vars =>
        [\A j \in JourneyIds : Exists(j) /\ ~ActiveOuting(j) => ~ActiveOuting(j)']_vars
  <2> SUFFICES ASSUME TypeOK, [Next]_vars, NEW j \in JourneyIds, Exists(j), ~ActiveOuting(j)
               PROVE  ~ActiveOuting(j)'
    OBVIOUS
  <2>0. journeys[j].kind \in Kinds
    BY RowOfTable DEF Rows
  <2>1. CASE journeys' = journeys
    BY <2>1 DEF ActiveOuting, Active
  <2>2. ASSUME NEW k \in JourneyIds, Replaces(k)
        PROVE  ~ActiveOuting(j)'
    <3>1. CASE k = j
      BY <2>0, <2>2, <3>1 DEF Replaces, ActiveOuting, Active, Kinds
    <3>2. CASE k # j
      BY <2>2, <3>2 DEF Replaces, TypeOK, ActiveOuting, Active
    <3> QED BY <3>1, <3>2
  <2> QED BY <2>1, <2>2, EveryStep DEF TableStep
<1> QED BY <1>1, TypeCorrect, PTL DEF Spec, NeverOutingAgain
-----------------------------------------------------------------------------
(***************************************************************************)
(* The warning of an outing.  The invariant follows the installations that *)
(* kept the subscription they had: their row is as it was, so every worker *)
(* has them on its list, finds the subscription live and leaves the row    *)
(* alone, and has warned them when the list is used up.                    *)
(***************************************************************************)
TheSubscription(d) == [device |-> d, id |-> 1, subscription |-> 1]

\* An installed browser made a subscription, so a new one has another number.
InstalledSubscribed == \A d \in Installed : browser[d].made >= 1

RowIsKept == \A d \in Devices : KeptSubscription(d) => rows[d] = [id |-> 1, subscription |-> 1]

ListIsKept ==
  \A w \in Senders, d \in Devices :
    KeptSubscription(d) =>
      /\ \A s \in sending[w].list : s.device = d => s = TheSubscription(d)
      /\ \A s \in sending[w].gone : s.device # d

ListedOrWarned ==
  \A w \in Senders, d \in Devices :
    outing /\ KeptSubscription(d) /\ sending[w].job # None =>
      TheSubscription(d) \in sending[w].list \/ warned[d] = 1

WarnInv == /\ WarnTypeOK
           /\ InstalledSubscribed
           /\ RowIsKept
           /\ ListIsKept
           /\ ListedOrWarned
           /\ DoneIsWarned

LEMMA WarnInitInv == WarnInit => WarnInv
<1>. SUFFICES ASSUME WarnInit PROVE WarnInv
  OBVIOUS
<1>1. WarnTypeOK
  BY InstalledAssumption DEF WarnInit, WarnTypeOK, NoRow, NotSending, None, Subscriptions
<1>2. InstalledSubscribed /\ RowIsKept
  BY InstalledAssumption DEF WarnInit, InstalledSubscribed, RowIsKept, KeptSubscription
<1>3. ListIsKept /\ ListedOrWarned
  BY DEF WarnInit, ListIsKept, ListedOrWarned, NotSending
<1>4. DoneIsWarned
  BY DEF WarnInit, DoneIsWarned, JobDone
<1>. QED BY <1>1, <1>2, <1>3, <1>4 DEF WarnInv

\* What a step of the settings page leaves alone.
LEMMA PageType ==
  ASSUME WarnTypeOK, NEW d \in Devices,
         Subscribe(d) \/ UpsertDevice(d) \/ Unsubscribe(d) \/ DeleteDevice(d)
  PROVE  WarnTypeOK'
<1>1. CASE Subscribe(d)
  BY <1>1 DEF Subscribe, WarnTypeOK
<1>2. CASE UpsertDevice(d)
  BY <1>2 DEF UpsertDevice, WarnTypeOK
<1>3. CASE Unsubscribe(d)
  BY <1>3 DEF Unsubscribe, WarnTypeOK, None
<1>4. CASE DeleteDevice(d)
  BY <1>4 DEF DeleteDevice, WarnTypeOK, NoRow, None
<1>. QED BY <1>1, <1>2, <1>3, <1>4

LEMMA SettleType ==
  ASSUME WarnTypeOK, NEW w \in Senders, CompleteJob(w) \/ RetryJob(w)
  PROVE  warnJob' \in [id : Nat \ {0},
                       state : {"none", "scheduled", "due", "running", "dead"},
                       attempts : Nat]
BY DEF WarnTypeOK, CompleteJob, RetryJob, Settle

LEMMA ListType ==
  ASSUME WarnTypeOK
  PROVE  ListPushSubscriptionsForUser \subseteq Subscriptions
BY DEF WarnTypeOK, ListPushSubscriptionsForUser, Subscriptions

LEMMA WorkerType ==
  ASSUME WarnTypeOK, NEW w \in Senders, WarnReads(w) \/ HandleWarning(w)
  PROVE  WarnTypeOK'
<1>0. sending[w] \in [job : Nat, list : SUBSET Subscriptions, gone : SUBSET Subscriptions]
  BY DEF WarnTypeOK
<1>n. NotSending \in [job : Nat, list : SUBSET Subscriptions, gone : SUBSET Subscriptions]
  BY DEF NotSending, None
<1>1. CASE WarnReads(w)
  <2>1. warnJob' \in [id : Nat \ {0},
                      state : {"none", "scheduled", "due", "running", "dead"},
                      attempts : Nat]
    <3>1. warnJob' = [warnJob EXCEPT !.state = "running", !.attempts = warnJob.attempts + 1]
      BY <1>1 DEF WarnReads
    <3>2. /\ warnJob \in [id : Nat \ {0},
                         state : {"none", "scheduled", "due", "running", "dead"}, attempts : Nat]
          /\ warnJob.attempts + 1 \in Nat
      BY DEF WarnTypeOK
    <3>. QED BY <3>1, <3>2
  <2>2. sending' \in [Senders -> [job : Nat, list : SUBSET Subscriptions,
                                  gone : SUBSET Subscriptions]]
    <3>1. warnJob.id \in Nat
      BY DEF WarnTypeOK
    <3>2. [NotSending EXCEPT !.job = warnJob.id,
                            !.list = IF outing THEN ListPushSubscriptionsForUser ELSE {}]
            \in [job : Nat, list : SUBSET Subscriptions, gone : SUBSET Subscriptions]
      BY <3>1, ListType DEF NotSending
    <3>. QED BY <1>1, <3>2 DEF WarnReads, WarnTypeOK
  <2>. QED BY <1>1, <2>1, <2>2 DEF WarnReads, WarnTypeOK, deviceVars
<1>2. ASSUME NEW s \in sending[w].list, Send(w, s) PROVE WarnTypeOK'
  <2>1. s \in Subscriptions
    BY <1>0
  <2>2. s.device \in Devices /\ s.subscription \in Nat
    BY <2>1 DEF Subscriptions
  <2>3. warned' \in [Devices -> Nat]
    BY <1>2, <2>2 DEF Send, WarnTypeOK
  <2>4. sending' \in [Senders -> [job : Nat, list : SUBSET Subscriptions,
                                  gone : SUBSET Subscriptions]]
    BY <1>2, <1>0, <2>1 DEF Send, WarnTypeOK
  <2>. QED BY <1>2, <2>3, <2>4 DEF Send, WarnTypeOK, deviceVars
<1>3. CASE WarnClears(w)
  <2>1. PICK s \in sending[w].gone : ClearDevicePushSubscription(s)
    BY <1>3 DEF WarnClears
  <2>2. rows' \in [Devices -> [id : Nat, subscription : Nat]]
    BY <2>1 DEF WarnTypeOK, ClearDevicePushSubscription, None
  <2>3. sending' \in [Senders -> [job : Nat, list : SUBSET Subscriptions,
                                  gone : SUBSET Subscriptions]]
    BY <1>3, <1>0 DEF WarnClears, WarnTypeOK
  <2>. QED BY <1>3, <2>2, <2>3 DEF WarnClears, WarnTypeOK
<1>4. CASE WarnReturns(w) \/ WarnFails(w) \/ SenderStops(w)
  <2>1. warnJob' \in [id : Nat \ {0},
                      state : {"none", "scheduled", "due", "running", "dead"},
                      attempts : Nat]
    BY <1>4, SettleType DEF WarnReturns, WarnFails, SenderStops, WarnTypeOK
  <2>2. sending' = [sending EXCEPT ![w] = NotSending] /\ UNCHANGED <<outing, deviceVars, warned>>
    BY <1>4 DEF WarnReturns, WarnFails, SenderStops
  <2>. QED BY <1>n, <2>1, <2>2 DEF WarnTypeOK, deviceVars
<1>. QED BY <1>1, <1>2, <1>3, <1>4 DEF HandleWarning

LEMMA WarnNextType ==
  ASSUME WarnTypeOK, [WarnNext]_warnVars
  PROVE  WarnTypeOK'
<1>1. CASE OutingIsOver
  BY <1>1 DEF OutingIsOver, WarnTypeOK, deviceVars
<1>2. CASE EnqueueWarning
  BY <1>2 DEF EnqueueWarning, WarnTypeOK, deviceVars
<1>3. CASE WarningIsDue \/ RequeueStaleWarning
  BY <1>3 DEF WarningIsDue, RequeueStaleWarning, WarnTypeOK, deviceVars
<1>4. CASE UNCHANGED warnVars
  BY <1>4 DEF WarnTypeOK, warnVars, deviceVars
<1>. QED BY <1>1, <1>2, <1>3, <1>4, PageType, WorkerType DEF WarnNext

\* Every step: an installation that has its first subscription after the step
\* had it before.
LEMMA SubscriptionIsNotRegained ==
  ASSUME WarnTypeOK, InstalledSubscribed, [WarnNext]_warnVars
  PROVE  /\ \A d \in Devices : KeptSubscription(d)' => KeptSubscription(d)
         /\ InstalledSubscribed'
<1>1. CASE browser' = browser
  BY <1>1 DEF KeptSubscription, InstalledSubscribed
<1>2. ASSUME NEW d \in Devices, Subscribe(d)
      PROVE  /\ \A e \in Devices : KeptSubscription(e)' => KeptSubscription(e)
             /\ InstalledSubscribed'
  <2>. browser[d] \in [live : Nat, made : Nat]
    BY DEF WarnTypeOK
  <2>1. browser' = [browser EXCEPT ![d] = [live |-> browser[d].made + 1,
                                           made |-> browser[d].made + 1]]
    BY <1>2 DEF Subscribe
  <2>2. \A e \in Devices : e # d => browser'[e] = browser[e]
    BY <2>1 DEF WarnTypeOK
  <2>3. browser'[d].made = browser[d].made + 1
    BY <2>1 DEF WarnTypeOK
  <2>4. d \in Installed => ~KeptSubscription(d)'
    BY <2>3 DEF InstalledSubscribed, KeptSubscription
  <2>5. \A e \in Devices : KeptSubscription(e)' => KeptSubscription(e)
    BY <2>2, <2>4 DEF KeptSubscription
  <2>6. InstalledSubscribed'
    BY <2>2, <2>3, InstalledAssumption DEF InstalledSubscribed
  <2>. QED BY <2>5, <2>6
<1>3. ASSUME NEW d \in Devices, Unsubscribe(d)
      PROVE  /\ \A e \in Devices : KeptSubscription(e)' => KeptSubscription(e)
             /\ InstalledSubscribed'
  <2>. browser[d] \in [live : Nat, made : Nat]
    BY DEF WarnTypeOK
  <2>1. browser' = [browser EXCEPT ![d].live = None]
    BY <1>3 DEF Unsubscribe
  <2>2. \A e \in Devices : e # d => browser'[e] = browser[e]
    BY <2>1 DEF WarnTypeOK
  <2>3. browser'[d].made = browser[d].made /\ browser'[d].live = None
    BY <2>1 DEF WarnTypeOK
  <2>4. ~KeptSubscription(d)'
    BY <2>3 DEF KeptSubscription, None
  <2>. QED BY <2>2, <2>3, <2>4, InstalledAssumption DEF KeptSubscription, InstalledSubscribed
<1>. QED BY <1>1, <1>2, <1>3
     DEF WarnNext, UpsertDevice, DeleteDevice, OutingIsOver, EnqueueWarning, WarningIsDue,
         RequeueStaleWarning, WarnReads, HandleWarning, Send, WarnClears, WarnReturns,
         WarnFails, SenderStops, warnVars, deviceVars

\* What each action does to what an installation that kept its subscription
\* relies on: its row, and what the workers know of it.
RowStep == \A d \in Devices : KeptSubscription(d)' => rows'[d] = rows[d]

LEMMA KeptRowStays ==
  ASSUME WarnInv, [WarnNext]_warnVars
  PROVE  RowStep
<1>1. \A d \in Devices : KeptSubscription(d)' => KeptSubscription(d)
  BY SubscriptionIsNotRegained DEF WarnInv
<1>. SUFFICES ASSUME NEW d \in Devices, KeptSubscription(d)'
              PROVE  rows'[d] = rows[d]
  BY DEF RowStep
<1>2. /\ KeptSubscription(d)
      /\ rows[d] = [id |-> 1, subscription |-> 1]
      /\ browser[d] = [live |-> 1, made |-> 1]
  BY <1>1 DEF WarnInv, RowIsKept, KeptSubscription
<1>r. rows \in [Devices -> [id : Nat, subscription : Nat]]
  BY DEF WarnInv, WarnTypeOK
<1>3. CASE rows' = rows
  BY <1>3
<1>4. ASSUME NEW e \in Devices, UpsertDevice(e) PROVE rows'[d] = rows[d]
  <2>1. CASE e = d
    <3>1. rows[d] # NoRow /\ rows[d].id = 1 /\ browser[d].live = 1
      BY <1>2 DEF NoRow, None
    <3>2. rows'[d] = [id |-> 1, subscription |-> 1]
      BY <1>4, <2>1, <3>1, <1>r DEF UpsertDevice
    <3>. QED BY <3>2, <1>2
  <2>2. CASE e # d
    BY <1>4, <2>2, <1>r DEF UpsertDevice
  <2>. QED BY <2>1, <2>2
<1>5. ASSUME NEW e \in Devices, DeleteDevice(e) PROVE rows'[d] = rows[d]
  <2>1. e # d
    BY <1>2, <1>5 DEF DeleteDevice, None
  <2>. QED BY <1>5, <2>1, <1>r DEF DeleteDevice
<1>6. ASSUME NEW w \in Senders, WarnClears(w) PROVE rows'[d] = rows[d]
  <2>1. PICK s \in sending[w].gone : ClearDevicePushSubscription(s)
    BY <1>6 DEF WarnClears
  <2>2. s.device # d
    BY <1>2 DEF WarnInv, ListIsKept
  <2>. QED BY <2>1, <2>2, <1>r DEF ClearDevicePushSubscription
<1>. QED BY <1>3, <1>4, <1>5, <1>6
     DEF WarnNext, Subscribe, Unsubscribe, OutingIsOver, EnqueueWarning, WarningIsDue,
         RequeueStaleWarning, WarnReads, HandleWarning, Send, WarnReturns, WarnFails,
         SenderStops, warnVars, deviceVars

\* An installation was warned, and stays so.
LEMMA WarnedStays ==
  ASSUME WarnInv, [WarnNext]_warnVars, NEW d \in Devices, KeptSubscription(d), warned[d] = 1
  PROVE  warned'[d] = 1
<1>1. CASE warned' = warned
  BY <1>1
<1>2. ASSUME NEW w \in Senders, NEW s \in sending[w].list, Send(w, s) PROVE warned'[d] = 1
  <2>1. warned \in [Devices -> Nat]
    BY DEF WarnInv, WarnTypeOK
  <2>2. CASE s.device = d
    <3>1. s = TheSubscription(d)
      BY <2>2 DEF WarnInv, ListIsKept
    <3>2. s.subscription = 1
      BY <3>1 DEF TheSubscription
    <3>. QED BY <1>2, <2>1, <2>2, <3>2 DEF Send
  <2>3. CASE s.device # d
    BY <1>2, <2>1, <2>3 DEF Send
  <2>. QED BY <2>2, <2>3
<1>. QED BY <1>1, <1>2
     DEF WarnNext, Subscribe, UpsertDevice, Unsubscribe, DeleteDevice, OutingIsOver,
         EnqueueWarning, WarningIsDue, RequeueStaleWarning, WarnReads, HandleWarning,
         WarnClears, WarnReturns, WarnFails, SenderStops, warnVars, deviceVars


\* A worker that has its list, or part of it, knows installation d as it was,
\* and while it has the job of an active outing it has still to warn it, or did.
KnowsKept(h, d) ==
  /\ \A s \in h.list : s.device = d => s = TheSubscription(d)
  /\ \A s \in h.gone : s.device # d

LEMMA KnownAfterStep ==
  ASSUME WarnInv, [WarnNext]_warnVars, NEW v \in Senders, NEW d \in Devices,
         KeptSubscription(d)
  PROVE  /\ KnowsKept(sending'[v], d)
         /\ outing' /\ sending'[v].job # None =>
              TheSubscription(d) \in sending'[v].list \/ warned'[d] = 1
<1>1. KnowsKept(sending[v], d)
  BY DEF WarnInv, ListIsKept, KnowsKept
<1>2. outing /\ sending[v].job # None => TheSubscription(d) \in sending[v].list \/ warned[d] = 1
  BY DEF WarnInv, ListedOrWarned
<1>3. warned[d] = 1 => warned'[d] = 1
  BY WarnedStays
<1>4. outing' => outing
  BY DEF WarnNext, Subscribe, UpsertDevice, Unsubscribe, DeleteDevice, OutingIsOver,
         EnqueueWarning, WarningIsDue, RequeueStaleWarning, WarnReads, HandleWarning, Send,
         WarnClears, WarnReturns, WarnFails, SenderStops, warnVars, deviceVars
<1>s. sending \in [Senders -> [job : Nat, list : SUBSET Subscriptions, gone : SUBSET Subscriptions]]
  BY DEF WarnInv, WarnTypeOK
<1>5. CASE sending'[v] = sending[v]
  BY <1>5, <1>1, <1>2, <1>3, <1>4
<1>6. CASE sending'[v] = NotSending
  BY <1>6 DEF NotSending, KnowsKept
<1>7. CASE WarnReads(v)
  <2>1. sending'[v].list = (IF outing THEN ListPushSubscriptionsForUser ELSE {}) /\ sending'[v].gone = {}
    BY <1>7, <1>s DEF WarnReads, NotSending
  <2>2. rows[d] = [id |-> 1, subscription |-> 1]
    BY DEF WarnInv, RowIsKept
  <2>3. TheSubscription(d) \in ListPushSubscriptionsForUser
    BY <2>2 DEF TheSubscription, ListPushSubscriptionsForUser, None
  <2>4. \A s \in ListPushSubscriptionsForUser : s.device = d => s = TheSubscription(d)
    BY <2>2 DEF TheSubscription, ListPushSubscriptionsForUser
  <2>. QED BY <2>1, <2>3, <2>4, <1>4 DEF KnowsKept
<1>8. ASSUME NEW s \in sending[v].list, Send(v, s)
      PROVE  /\ KnowsKept(sending'[v], d)
             /\ outing' /\ sending'[v].job # None =>
                  TheSubscription(d) \in sending'[v].list \/ warned'[d] = 1
  <2>1. /\ sending'[v].job = sending[v].job
        /\ sending'[v].list = sending[v].list \ {s}
        /\ sending'[v].gone = IF Live(s) THEN {} ELSE {s}
    BY <1>8, <1>s DEF Send
  <2>2. CASE s.device = d
    <3>1. s = TheSubscription(d) /\ s.subscription = 1
      BY <1>1, <2>2 DEF KnowsKept, TheSubscription
    <3>2. Live(s)
      BY <3>1, <2>2 DEF Live, KeptSubscription
    <3>3. warned'[d] = 1
      BY <1>8, <2>2, <3>1, <3>2 DEF Send, WarnInv, WarnTypeOK
    <3>. QED BY <2>1, <3>2, <3>3, <1>1 DEF KnowsKept
  <2>3. CASE s.device # d
    <3>1. s # TheSubscription(d)
      BY <2>3 DEF TheSubscription
    <3>2. KnowsKept(sending'[v], d)
      BY <2>1, <2>3, <1>1 DEF KnowsKept
    <3>. QED BY <2>1, <3>1, <3>2, <1>2, <1>3, <1>4
  <2>. QED BY <2>2, <2>3
<1>9. CASE WarnClears(v)
  <2>1. sending'[v].job = sending[v].job /\ sending'[v].list = sending[v].list /\ sending'[v].gone = {}
    BY <1>9, <1>s DEF WarnClears
  <2>. QED BY <2>1, <1>1, <1>2, <1>3, <1>4 DEF KnowsKept
<1>10. CASE \E w \in Senders : (WarnReads(w) \/ HandleWarning(w)) /\ w # v
  <2>1. sending'[v] = sending[v]
    BY <1>10, <1>s DEF WarnReads, HandleWarning, Send, WarnClears, WarnReturns, WarnFails, SenderStops
  <2>. QED BY <2>1, <1>5
<1>11. CASE HandleWarning(v)
  <2>1. WarnReturns(v) \/ WarnFails(v) \/ SenderStops(v) => sending'[v] = NotSending
    BY <1>s DEF WarnReturns, WarnFails, SenderStops
  <2>. QED BY <1>11, <2>1, <1>6, <1>8, <1>9 DEF HandleWarning
<1>12. CASE \E w \in Senders : WarnReads(w) \/ HandleWarning(w)
  BY <1>12, <1>7, <1>10, <1>11
<1>13. CASE sending' = sending
  BY <1>13, <1>5
<1>. QED BY <1>12, <1>13
     DEF WarnNext, Subscribe, UpsertDevice, Unsubscribe, DeleteDevice, OutingIsOver,
         EnqueueWarning, WarningIsDue, RequeueStaleWarning, warnVars

\* A job becomes done when a worker that used its list up returns.
LEMMA DoneStep ==
  ASSUME WarnInv, [WarnNext]_warnVars
  PROVE  DoneIsWarned'
<1>. SUFFICES ASSUME outing', JobDone', NEW d \in Devices, KeptSubscription(d)'
              PROVE  warned'[d] = 1
  BY DEF DoneIsWarned
<1>1. KeptSubscription(d)
  BY SubscriptionIsNotRegained DEF WarnInv
<1>2. warned[d] = 1 => warned'[d] = 1
  BY <1>1, WarnedStays
<1>3. outing
  BY DEF WarnNext, Subscribe, UpsertDevice, Unsubscribe, DeleteDevice, OutingIsOver,
         EnqueueWarning, WarningIsDue, RequeueStaleWarning, WarnReads, HandleWarning, Send,
         WarnClears, WarnReturns, WarnFails, SenderStops, warnVars, deviceVars
<1>4. JobDone => warned'[d] = 1
  BY <1>1, <1>2, <1>3 DEF WarnInv, DoneIsWarned
<1>t. warnJob \in [id : Nat \ {0}, state : {"none", "scheduled", "due", "running", "dead"},
                   attempts : Nat]
  BY DEF WarnInv, WarnTypeOK
<1>5. CASE warnJob' = warnJob
  BY <1>5, <1>4 DEF JobDone
<1>6. CASE EnqueueWarning
  BY <1>6, <1>4 DEF EnqueueWarning, JobDone
<1>7. CASE WarningIsDue \/ RequeueStaleWarning
  BY <1>7, <1>4, <1>t DEF WarningIsDue, RequeueStaleWarning, JobDone
<1>8. ASSUME NEW w \in Senders, WarnReads(w) PROVE warned'[d] = 1
  <2>1. warnJob' = [warnJob EXCEPT !.state = "running", !.attempts = warnJob.attempts + 1]
    BY <1>8 DEF WarnReads
  <2>. QED BY <2>1, <1>4, <1>t DEF JobDone
<1>9. ASSUME NEW w \in Senders, WarnFails(w) PROVE warned'[d] = 1
  BY <1>9, <1>4, <1>t DEF WarnFails, RetryJob, Settle, JobDone
<1>10. ASSUME NEW w \in Senders, WarnReturns(w) PROVE warned'[d] = 1
  <2>1. sending[w].job # None /\ TheSubscription(d) \notin sending[w].list
    BY <1>10 DEF WarnReturns
  <2>2. warned[d] = 1
    BY <2>1, <1>1, <1>3 DEF WarnInv, ListedOrWarned
  <2>. QED BY <2>2, <1>2
<1>. QED BY <1>5, <1>6, <1>7, <1>8, <1>9, <1>10
     DEF WarnNext, Subscribe, UpsertDevice, Unsubscribe, DeleteDevice, OutingIsOver,
         HandleWarning, Send, WarnClears, SenderStops, warnVars

LEMMA WarnInductive == WarnInv /\ [WarnNext]_warnVars => WarnInv'
<1>. SUFFICES ASSUME WarnInv, [WarnNext]_warnVars PROVE WarnInv'
  OBVIOUS
<1>1. WarnTypeOK' /\ InstalledSubscribed'
  BY WarnNextType, SubscriptionIsNotRegained DEF WarnInv
<1>2. \A d \in Devices : KeptSubscription(d)' => KeptSubscription(d)
  BY SubscriptionIsNotRegained DEF WarnInv
<1>3. RowIsKept'
  BY <1>2, KeptRowStays DEF RowStep, WarnInv, RowIsKept
<1>4. ListIsKept' /\ ListedOrWarned'
  BY <1>2, KnownAfterStep DEF KnowsKept, ListIsKept, ListedOrWarned, TheSubscription
<1>. QED BY <1>1, <1>3, <1>4, DoneStep DEF WarnInv

\* Type correctness of the warning: the devices' rows, the job and the workers'
\* lists keep their shape whatever fails, stops or is registered.
THEOREM WarnTypeCorrect == WarnSpec => []WarnTypeOK
<1>1. WarnInv => WarnTypeOK
  BY DEF WarnInv
<1>. QED BY <1>1, WarnInitInv, WarnInductive, PTL DEF WarnSpec

\* The job of the warning is not done before every installation that kept its
\* subscription was pushed to, whatever was gone, failed and was repeated.
THEOREM DoneMeansWarned == WarnSpec => []DoneIsWarned
<1>1. WarnInv => DoneIsWarned
  BY DEF WarnInv
<1>. QED BY <1>1, WarnInitInv, WarnInductive, PTL DEF WarnSpec
=============================================================================
