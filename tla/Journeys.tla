------------------------------ MODULE Journeys ------------------------------
(***************************************************************************)
(* Journeys and the expiry of outings: the statements of                   *)
(* queries/journeys.sql behind journeys.Service, and the two-step handler  *)
(* of the outing.expire job in notifications/lifecycle.go.                 *)
(*                                                                         *)
(* A journey id stands for a pair (owner_id, client_request_id), so a      *)
(* repeated create names the same id.  Clients keep the row of the last    *)
(* response that reached them and send its version with every update;      *)
(* requests may be repeated, and responses may be lost.  The job queue is  *)
(* the abstract one of AtLeastOnce: a due job may be run by several        *)
(* workers at once and again after it was done.                            *)
(***************************************************************************)
EXTENDS Integers

CONSTANTS
  JourneyIds,   \* (owner_id, client_request_id) pairs
  Owners, Owner(_),
  AskedKind(_), \* the kind the client asked for, the same in every retry
  Clients,      \* installations the owner uses
  Workers,      \* worker processes
  Labels,
  MaxVersion,   \* bound: versions up to which clients still edit
  MaxAttempts   \* attempts of the outing.expire job (8); also a bound: no worker stops later

ASSUME OwnerAssumption == \A j \in JourneyIds : Owner(j) \in Owners
ASSUME KindAssumption == \A j \in JourneyIds : AskedKind(j) \in {"trip", "outing"}
ASSUME NatAssumption == MaxVersion \in Nat /\ MaxAttempts \in Nat \ {0}

VARIABLES
  journeys,   \* the table
  expireJob,  \* the outing.expire row of each journey
  handling,   \* per worker: the journey its expiry handler read as an active outing
  seen        \* per client: the row of the last response it got for a journey

vars == <<journeys, expireJob, handling, seen>>

Kinds == {"trip", "outing"}
NoJourney == [status |-> "none", kind |-> "trip", label |-> "", version |-> 0]
Rows == [status : {"active", "ended", "expired"}, kind : Kinds,
         label : Labels, version : Nat \ {0}]

NoJob == [state |-> "none", attempts |-> 0]
Jobs == [state : {"none", "scheduled", "due", "stuck", "dead"}, attempts : Nat]
Idle == "idle"

ASSUME IdleAssumption == Idle \notin JourneyIds

Exists(j) == journeys[j].status # "none"
Active(j) == journeys[j].status = "active"
ActiveOuting(j) == Active(j) /\ journeys[j].kind = "outing"

Init ==
  /\ journeys = [j \in JourneyIds |-> NoJourney]
  /\ expireJob = [j \in JourneyIds |-> NoJob]
  /\ handling = [w \in Workers |-> Idle]
  /\ seen = [c \in Clients |-> [j \in JourneyIds |-> NoJourney]]

\* The response to a request of client c about j arrives, or is lost.
Respond(c, j, row) ==
  \/ seen' = [seen EXCEPT ![c][j] = row]
  \/ UNCHANGED seen

(***************************************************************************)
(* Create: one transaction.  The upsert returns the row an earlier request *)
(* made, whatever became of it; the partial unique index refuses a second  *)
(* active journey of the owner; an outing's expiry is enqueued again by a  *)
(* repeat, which the queue ignores while it still has a row with that key. *)
(***************************************************************************)
EnqueueExpiry(j) ==
  expireJob' = IF AskedKind(j) = "outing" /\ expireJob[j].state = "none"
               THEN [expireJob EXCEPT ![j] = [state |-> "scheduled", attempts |-> 0]]
               ELSE expireJob

CreateNew(c, j) ==
  /\ ~Exists(j)
  /\ \A i \in JourneyIds : Owner(i) = Owner(j) => ~Active(i)
  /\ \E label \in Labels :
       LET row == [status |-> "active", kind |-> AskedKind(j), label |-> label, version |-> 1]
       IN /\ journeys' = [journeys EXCEPT ![j] = row]
          /\ Respond(c, j, row)
  /\ EnqueueExpiry(j)
  /\ UNCHANGED handling

CreateAgain(c, j) ==
  /\ Exists(j)
  /\ EnqueueExpiry(j)
  /\ Respond(c, j, journeys[j])
  /\ UNCHANGED <<journeys, handling>>

Create(c, j) == CreateNew(c, j) \/ CreateAgain(c, j)

(***************************************************************************)
(* Updates: the WHERE clause compares the version the client sent; no row  *)
(* matches otherwise, and the request is answered 409 and changes nothing. *)
(***************************************************************************)
VersionMatches(c, j) ==
  /\ Exists(j)
  /\ seen[c][j].version = journeys[j].version
  /\ journeys[j].version < MaxVersion

Store(c, j, row) ==
  /\ journeys' = [journeys EXCEPT ![j] = row]
  /\ Respond(c, j, row)
  /\ UNCHANGED <<expireJob, handling>>

\* The rows the three statements write.
UpdateJourneyLabel(row, label) == [row EXCEPT !.label = label, !.version = @ + 1]
CompleteJourney(row) == [row EXCEPT !.status = "ended", !.version = @ + 1]
ConvertOutingToTrip(row) == [row EXCEPT !.kind = "trip", !.version = @ + 1]

Rename(c, j, label) ==
  /\ VersionMatches(c, j)
  /\ Store(c, j, UpdateJourneyLabel(journeys[j], label))

Complete(c, j) ==
  /\ VersionMatches(c, j)
  /\ Active(j)
  /\ Store(c, j, CompleteJourney(journeys[j]))

ConvertToTrip(c, j) ==
  /\ VersionMatches(c, j)
  /\ ActiveOuting(j)
  /\ Store(c, j, ConvertOutingToTrip(journeys[j]))

Get(c, j) ==
  /\ Exists(j)
  /\ seen' = [seen EXCEPT ![c][j] = journeys[j]]
  /\ UNCHANGED <<journeys, expireJob, handling>>

(***************************************************************************)
(* The outing.expire job.  The row stays queued while a handler is at it,  *)
(* so that another worker may take it too; the handler's read and its      *)
(* update are two statements.                                              *)
(***************************************************************************)
Elapse(j) ==
  /\ expireJob[j].state = "scheduled"
  /\ expireJob' = [expireJob EXCEPT ![j].state = "due"]
  /\ UNCHANGED <<journeys, handling, seen>>

\* The queue settles a row that is running, as a due or stuck one may be.
Running(row) == row.state \in {"due", "stuck"}
Finished(j) == [expireJob EXCEPT ![j] = IF Running(@) THEN NoJob ELSE @]

\* GetJourneyByID and the check of kind and status; a journey that is no
\* active outing any more leaves nothing to do.
HandleExpiryRead(w, j) ==
  /\ handling[w] = Idle
  /\ expireJob[j].state = "due"
  /\ IF ActiveOuting(j)
     THEN /\ handling' = [handling EXCEPT ![w] = j]
          /\ expireJob' = [expireJob EXCEPT ![j].attempts = @ + 1]
     ELSE /\ expireJob' = Finished(j)
          /\ UNCHANGED handling
  /\ UNCHANGED <<journeys, seen>>

\* Mutants of ExpireJourney: the version is not bumped, the status is not checked.
ExpireJourneySameVersion(j) ==
  journeys' = IF Active(j) THEN [journeys EXCEPT ![j].status = "expired"] ELSE journeys

ExpireJourneyAnyStatus(j) ==
  journeys' = [journeys EXCEPT ![j].status = "expired", ![j].version = @ + 1]

\* ExpireJourney, whose WHERE clause names the id and the status only.
ExpireJourney(j) ==
  journeys' = IF Active(j)
              THEN [journeys EXCEPT ![j].status = "expired", ![j].version = @ + 1]
              ELSE journeys

HandleExpiryUpdate(w) ==
  /\ handling[w] # Idle
  /\ ExpireJourney(handling[w])
  /\ expireJob' = Finished(handling[w])
  /\ handling' = [handling EXCEPT ![w] = Idle]
  /\ UNCHANGED seen

\* Mutant of HandleExpiryFails: the error is logged and swallowed.
HandleExpirySwallows(w) ==
  /\ handling[w] # Idle
  /\ expireJob' = Finished(handling[w])
  /\ handling' = [handling EXCEPT ![w] = Idle]
  /\ UNCHANGED <<journeys, seen>>

Retried(row) ==
  [row EXCEPT !.state = IF row.attempts >= MaxAttempts THEN "dead" ELSE "due"]

\* The update fails: the job is tried again until its attempts are used up.
HandleExpiryFails(w) ==
  /\ handling[w] # Idle
  /\ expireJob' = [expireJob EXCEPT ![handling[w]] = IF Running(@) THEN Retried(@) ELSE @]
  /\ handling' = [handling EXCEPT ![w] = Idle]
  /\ UNCHANGED <<journeys, seen>>

\* The worker stops: its row stays running until a worker that starts later
\* takes it back, whatever its attempts.
WorkerStops(w) ==
  /\ handling[w] # Idle
  /\ expireJob[handling[w]].attempts <= MaxAttempts
  /\ expireJob' = [expireJob EXCEPT ![handling[w]] =
       IF Running(@) THEN [@ EXCEPT !.state = "stuck"] ELSE @]
  /\ handling' = [handling EXCEPT ![w] = Idle]
  /\ UNCHANGED <<journeys, seen>>

RequeueStaleJobs ==
  /\ \E j \in JourneyIds : expireJob[j].state = "stuck"
  /\ expireJob' = [j \in JourneyIds |->
       IF expireJob[j].state = "stuck" THEN [expireJob[j] EXCEPT !.state = "due"]
       ELSE expireJob[j]]
  /\ UNCHANGED <<journeys, handling, seen>>

Next ==
  \/ \E c \in Clients, j \in JourneyIds :
       \/ Create(c, j) \/ Complete(c, j)
       \/ ConvertToTrip(c, j) \/ Get(c, j)
       \/ \E label \in Labels : Rename(c, j, label)
  \/ \E j \in JourneyIds : Elapse(j)
  \/ \E w \in Workers :
       \/ \E j \in JourneyIds : HandleExpiryRead(w, j)
       \/ HandleExpiryUpdate(w) \/ HandleExpiryFails(w) \/ WorkerStops(w)
  \/ RequeueStaleJobs

Spec == Init /\ [][Next]_vars

\* Time passes and the workers keep taking due jobs and finishing handlers: the
\* expiry's work is database calls.  A worker runs its jobs one by one, so that
\* its other handlers end, some of which have no deadline, is assumed here.
Fairness ==
  /\ \A j \in JourneyIds : WF_vars(Elapse(j))
  /\ \A w \in Workers :
       /\ WF_vars(HandleExpiryUpdate(w) \/ HandleExpiryFails(w) \/ WorkerStops(w))
       /\ \A j \in JourneyIds : WF_vars(HandleExpiryRead(w, j))

FairSpec == Spec /\ Fairness
-----------------------------------------------------------------------------

TypeOK ==
  /\ journeys \in [JourneyIds -> Rows \cup {NoJourney}]
  /\ expireJob \in [JourneyIds -> Jobs]
  /\ handling \in [Workers -> JourneyIds \cup {Idle}]
  /\ seen \in [Clients -> [JourneyIds -> Rows \cup {NoJourney}]]

\* At most one journey of an owner is active, after any repeats, expiries and
\* conversions.
OneActivePerOwner ==
  \A i, j \in JourneyIds : Active(i) /\ Active(j) /\ Owner(i) = Owner(j) => i = j

\* An active outing never outlives its expiry silently: the outing.expire row
\* is still there, to be tried or for an operator to see.
ActiveOutingHasJob ==
  \A j \in JourneyIds : ActiveOuting(j) => expireJob[j].state # "none"

\* Optimistic concurrency works because a version is a row: whoever holds the
\* current version has seen exactly the current row, so no accepted update
\* overwrites something its sender did not know of.
VersionIsContent ==
  \A c \in Clients, j \in JourneyIds :
    seen[c][j].version = journeys[j].version => seen[c][j] = journeys[j]

\* What a client has seen is never ahead of the server.
SeenNotAhead ==
  \A c \in Clients, j \in JourneyIds : seen[c][j].version <= journeys[j].version

\* A journey that ended or expired is over: only its label may still change,
\* however late a repeated create, an expiry or a conversion arrives.
EndedIsFinal ==
  [][\A j \in JourneyIds : Exists(j) /\ ~Active(j) =>
       /\ journeys'[j].status = journeys[j].status
       /\ journeys'[j].kind = journeys[j].kind]_vars

\* An active outing ends or is converted, unless its expiry is dead or was
\* left running by a worker that stopped (or all workers hang in handlers of
\* other jobs, see Fairness).
OutingEnds ==
  \A j \in JourneyIds :
    ActiveOuting(j) ~> ~ActiveOuting(j) \/ expireJob[j].state \in {"dead", "stuck"}

\* What the design document says of a conversion: the scheduled expiry
\* becomes harmless, so only an outing ever expires.
ConversionIsSafe ==
  \A j \in JourneyIds : journeys[j].status = "expired" => journeys[j].kind = "outing"
=============================================================================
