------------------------------ MODULE Timeline ------------------------------
(***************************************************************************)
(* The stops of a journey: places.Service.Pin and the statements of        *)
(* queries/places.sql it runs.  Several API requests pin at the same time, *)
(* repeated ones included; the read that finds an earlier attempt runs     *)
(* before the transaction, and the transaction is split at the points      *)
(* where another one could get in: taking the lock on the journey row,     *)
(* reading the highest sequence number, inserting and committing.          *)
(***************************************************************************)
EXTENDS Integers, FiniteSets, FiniteSetsExt

CONSTANTS
  Journeys,   \* journeys of one owner
  Requests,   \* client_request_ids of pins
  Saves,      \* client_request_ids of places saved on their own
  Calls,      \* API requests in progress at the same time
  MaxChanges, \* bound on the texts changed and places deleted
  JourneyOf(_)  \* the journey a pin belongs to, the same in every retry

ASSUME MaxChangesAssumption == MaxChanges \in Nat
ASSUME SavesAssumption == Saves \cap Requests = {}
ASSUME JourneyOfAssumption == \A r \in Requests : JourneyOf(r) \in Journeys

VARIABLES
  active,    \* journeys whose status is active
  locked,    \* per journey: the call whose transaction holds the row lock
  places,    \* places by client_request_id; "edited" is live with a new text
  stops,     \* committed rows of journey_stops
  edited,    \* the pins whose stop got a new text
  call       \* per call: where Pin is, and what it read

vars == <<active, locked, places, stops, edited, call>>

Nobody == "nobody"
NoRequest == "no request"

ASSUME NobodyAssumption == Nobody \notin Calls

Stop == [journey : Journeys, request : Requests, sequence : Nat \ {0}]
Steps == {"idle", "checked", "locked", "numbered"}
Idle == [step |-> "idle", request |-> NoRequest, sequence |-> 0]

JourneyIn(c) == JourneyOf(call[c].request)
StopsOf(j) == {s \in stops : s.journey = j}
StopFor(r) == {s \in stops : s.request = r /\ s.journey = JourneyOf(r)}
Sequences(j) == {s.sequence : s \in StopsOf(j)}

Init ==
  /\ active = Journeys
  /\ locked = [j \in Journeys |-> Nobody]
  /\ places = [r \in Requests \cup Saves |-> "none"]
  /\ stops = {} /\ edited = {}
  /\ call = [c \in Calls |-> Idle]

\* CompleteJourney or ExpireJourney: the UPDATE waits for the row lock.
EndJourney(j) ==
  /\ j \in active
  /\ locked[j] = Nobody
  /\ active' = active \ {j}
  /\ UNCHANGED <<locked, places, stops, edited, call>>

(***************************************************************************)
(* Pin, before the transaction: an earlier attempt's stop is returned,     *)
(* whatever became of the journey since.                                   *)
(***************************************************************************)
PinCheck(c, r) ==
  /\ call[c].step = "idle"
  /\ StopFor(r) = {}
  /\ call' = [call EXCEPT ![c] = [step |-> "checked", request |-> r, sequence |-> 0]]
  /\ UNCHANGED <<active, locked, places, stops, edited>>

\* Mutant of LockActiveJourney: it locks without testing the status.
LockAnyJourney(c) ==
  /\ call[c].step = "checked"
  /\ locked[JourneyIn(c)] = Nobody
  /\ locked' = [locked EXCEPT ![JourneyIn(c)] = c]
  /\ call' = [call EXCEPT ![c].step = "locked"]
  /\ UNCHANGED <<active, places, stops, edited>>

\* LockActiveJourney: SELECT ... FOR UPDATE waits for the lock and then tests
\* the status; a journey that is not active ends the call with an error.
LockActiveJourney(c) ==
  /\ call[c].step = "checked"
  /\ locked[JourneyIn(c)] = Nobody
  /\ IF JourneyIn(c) \in active
     THEN /\ locked' = [locked EXCEPT ![JourneyIn(c)] = c]
          /\ call' = [call EXCEPT ![c].step = "locked"]
     ELSE /\ call' = [call EXCEPT ![c] = Idle]
          /\ UNCHANGED locked
  /\ UNCHANGED <<active, places, stops, edited>>

\* Mutant of NextJourneyStopSequence: numbers start at 0.
NextFromZero(c) ==
  /\ call[c].step = "locked"
  /\ LET used == Sequences(JourneyIn(c))
     IN call' = [call EXCEPT ![c].step = "numbered",
                             ![c].sequence = IF used = {} THEN 0 ELSE Max(used) + 1]
  /\ UNCHANGED <<active, locked, places, stops, edited>>

\* NextJourneyStopSequence, over the rows committed so far.
NextJourneyStopSequence(c) ==
  /\ call[c].step = "locked"
  /\ LET used == Sequences(JourneyIn(c))
     IN call' = [call EXCEPT ![c].step = "numbered",
                             ![c].sequence = (IF used = {} THEN 0 ELSE Max(used)) + 1]
  /\ UNCHANGED <<active, locked, places, stops, edited>>

\* Mutant of CreatePlace: the conflict overwrites the row.
OverwritePlace(row) == "live"

\* CreatePlace: the row an earlier request made stays as it is, whatever was
\* done to it since.
CreatePlace(row) == IF row = "none" THEN "live" ELSE row

\* Mutant of CreateJourneyStop: an insert without ON CONFLICT.
InsertJourneyStop(r, n) == {[journey |-> JourneyOf(r), request |-> r, sequence |-> n]}

\* CreateJourneyStop: the row it inserts, none if the request has its stop.
CreateJourneyStop(r, n) ==
  IF StopFor(r) # {} THEN {} ELSE {[journey |-> JourneyOf(r), request |-> r, sequence |-> n]}

\* The place and the stop are inserted and committed, which releases the lock.
\* The insert selects from a place that is not deleted, and the number must
\* be unused in the journey: otherwise all is rolled back (see PinFails).
PinCommits(c) ==
  LET r == call[c].request
      new == CreateJourneyStop(r, call[c].sequence)
  IN /\ call[c].step = "numbered"
     /\ places[r] # "deleted"
     /\ \A s \in new : s.sequence \notin Sequences(JourneyIn(c))
     /\ stops' = stops \cup new
     /\ places' = [places EXCEPT ![r] = CreatePlace(@)]
     /\ locked' = [locked EXCEPT ![JourneyIn(c)] = Nobody]
     /\ call' = [call EXCEPT ![c] = Idle]
     /\ UNCHANGED <<active, edited>>

\* Mutant of PinFails: no rollback, the lock stays.
PinFailsLocked(c) ==
  /\ call[c].step # "idle"
  /\ call' = [call EXCEPT ![c] = Idle]
  /\ UNCHANGED <<active, locked, places, stops, edited>>

\* Any statement of the transaction fails, or the request is cancelled:
\* the rollback undoes everything and releases the lock.
PinFails(c) ==
  /\ call[c].step # "idle"
  /\ locked' = [j \in Journeys |-> IF locked[j] = c THEN Nobody ELSE locked[j]]
  /\ call' = [call EXCEPT ![c] = Idle]
  /\ UNCHANGED <<active, places, stops, edited>>

(***************************************************************************)
(* Statements of one row: places saved on their own, new texts, deletions. *)
(* Deletion is soft, and the stop keeps its copy of the location.          *)
(***************************************************************************)
Live == {"live", "edited"}
UpdatePlace(row) == IF row \in Live THEN "edited" ELSE row
DeletePlace(row) == IF row \in Live THEN "deleted" ELSE row

MayChange ==
  Cardinality(edited) + Cardinality({r \in Requests \cup Saves :
                                       places[r] \in {"edited", "deleted"}}) < MaxChanges

SavePlace(r) ==
  /\ places' = [places EXCEPT ![r] = CreatePlace(@)]
  /\ UNCHANGED <<active, locked, stops, edited, call>>

ChangePlace(r) ==
  /\ MayChange
  /\ places' = [places EXCEPT ![r] = UpdatePlace(@)]
  /\ UNCHANGED <<active, locked, stops, edited, call>>

RemovePlace(r) ==
  /\ MayChange
  /\ places' = [places EXCEPT ![r] = DeletePlace(@)]
  /\ UNCHANGED <<active, locked, stops, edited, call>>

\* UpdateJourneyStopMetadata: the stop's journey may be over.
UpdateJourneyStopMetadata(r) == edited \cup {p \in {r} : StopFor(p) # {}}

UpdateStop(r) ==
  /\ MayChange
  /\ edited' = UpdateJourneyStopMetadata(r)
  /\ UNCHANGED <<active, locked, places, stops, call>>

Next ==
  \/ \E j \in Journeys : EndJourney(j)
  \/ \E c \in Calls :
       \/ \E r \in Requests : PinCheck(c, r)
       \/ LockActiveJourney(c) \/ NextJourneyStopSequence(c)
       \/ PinCommits(c) \/ PinFails(c)
  \/ \E r \in Saves : SavePlace(r)
  \/ \E r \in Requests \cup Saves : ChangePlace(r) \/ RemovePlace(r)
  \/ \E r \in Requests : UpdateStop(r)

Spec == Init /\ [][Next]_vars

\* A transaction that holds the lock comes to an end, one way or the other,
\* and PostgreSQL grants the lock to those that wait in turn.  A request that
\* waits may be cancelled, but nothing says that it will be.
Finishes(c) ==
  /\ call[c].step \in {"locked", "numbered"}
  /\ NextJourneyStopSequence(c) \/ PinCommits(c) \/ PinFails(c)

Fairness == \A c \in Calls : WF_vars(Finishes(c)) /\ SF_vars(LockActiveJourney(c))
-----------------------------------------------------------------------------

TypeOK ==
  /\ active \subseteq Journeys
  /\ locked \in [Journeys -> Calls \cup {Nobody}]
  /\ places \in [Requests \cup Saves -> {"none", "live", "edited", "deleted"}]
  /\ stops \subseteq Stop
  /\ edited \subseteq Requests
  /\ call \in [Calls -> [step : Steps, request : Requests \cup {NoRequest}, sequence : Nat]]

\* The stops of a journey are numbered 1 .. n without gaps or repeats, in the
\* order they were committed, whichever calls raced for them.
Contiguous ==
  \A j \in Journeys :
    /\ Sequences(j) = 1 .. Cardinality(StopsOf(j))
    /\ \A s, t \in StopsOf(j) : s.sequence = t.sequence => s = t

\* What JourneyLog speaks of: the requests of a journey by the numbers of their
\* stops.
StopAt(j, n) == CHOOSE s \in StopsOf(j) : s.sequence = n

Timelines == INSTANCE JourneyLog WITH
  Logs <- Journeys,
  Entries <- Requests,
  open <- active,
  log <- [j \in Journeys |-> [n \in 1 .. Cardinality(StopsOf(j)) |-> StopAt(j, n).request]]

\* The numbered rows of a journey are the log JourneyLog promises, whichever
\* calls race: no stop joins the timeline of a journey that is over, each pin is
\* in it once, and none ever leaves or changes its place.
ImplementsJourneyLog == Timelines!Spec

\* A late repeat of a pin or a save undoes nothing that was done since: a new
\* text of the place or of the stop stays, and a deleted place stays deleted.
RepeatsUndoNothing ==
  [][/\ edited \subseteq edited'
     /\ \A r \in Requests \cup Saves :
          /\ places[r] = "edited" => places'[r] # "live"
          /\ places[r] = "deleted" => places'[r] = "deleted"]_vars

\* No call waits for a row lock for ever.
CallsEnd == \A c \in Calls : call[c].step # "idle" ~> call[c].step = "idle"
=============================================================================
