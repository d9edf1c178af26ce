------------------------------- MODULE Outbox -------------------------------
(***************************************************************************)
(* Offline capture and synchronization in the PWA: lib/repository.ts, which *)
(* writes rows and outbox records to IndexedDB in one transaction, and the *)
(* executor of lib/sync.ts, which sends the records one after another and  *)
(* writes the answers back, with what the API does with each request.      *)
(*                                                                         *)
(* One journey of this device, its pins and its GPS samples.  The user and *)
(* the executor interleave at every await: the read that prepares a        *)
(* request, the request, its answer, the write of the answer, and the      *)
(* removal of the record.  Another device, or an outing's expiry, changes  *)
(* the journey on the server meanwhile.                                    *)
(***************************************************************************)
EXTENDS Naturals, FiniteSets, Sequences, SequencesExt

CONSTANTS
  Pins,        \* stops the user may pin
  Track,       \* the positions the tracker may record, by capturedAt
  BatchLimit,  \* samples one upload carries (500)
  MaxVersion,  \* bound: versions another device edits the journey up to
  MaxFaults    \* bound: failed calls and closed pages

Points == ToSet(Track)
Captures == Pins \cup Points

ASSUME TrackAssumption == IsInjective(Track)
ASSUME CapturesAssumption == Pins \cap Points = {} /\ "journey" \notin Captures
ASSUME NatAssumption == BatchLimit \in Nat \ {0} /\ MaxVersion \in Nat /\ MaxFaults \in Nat

VARIABLES
  journey,   \* the device's row: status, version, and whether serverId is known
  duplicate, \* a pull stored the journey as a second row
  captured,  \* per capture: "none", "local", or "synced"
  checked,   \* captures that found the journey active and did not commit yet
  outbox,    \* the records by createdAt, which grows with every insert
  sync,      \* the executor
  pull,      \* the journey as a pull in progress read it
  server,    \* the server's row, and the captures it has stored
  faults     \* failures so far (bounded by MaxFaults)

deviceVars == <<journey, duplicate, captured, checked>>
vars == <<deviceVars, outbox, sync, pull, server, faults>>

Create == <<"create_journey", "journey">>
Upload == <<"upload_locations", "journey">>
End == <<"end_journey", "journey">>
RecordOf(c) == IF c \in Pins THEN <<"pin_stop", c>> ELSE Upload
Keys == {Create, Upload, End} \cup {RecordOf(p) : p \in Pins}
Records == [key : Keys, due : BOOLEAN, permanent : BOOLEAN]

Row == [status : {"none", "active", "ended"}, version : Nat]
NoRow == [status |-> "none", version |-> 0]
Idle == [step |-> "idle", todo |-> <<>>, version |-> 0, batch |-> {}, more |-> FALSE, answer |-> NoRow]

Init ==
  /\ journey = [row |-> NoRow, known |-> FALSE]
  /\ duplicate = FALSE
  /\ captured = [c \in Captures |-> "none"]
  /\ checked = {}
  /\ outbox = <<>>
  /\ sync = Idle
  /\ pull = NoRow
  /\ server = [row |-> NoRow, stored |-> {}, otherActive |-> FALSE]
  /\ faults = 0

(***************************************************************************)
(* The outbox.  A record is found by operation and entity among those that *)
(* are not permanent failures; enqueue reuses the one it finds.            *)
(***************************************************************************)
Is(record, key) == record.key = key /\ ~record.permanent
Queued(key) == \E i \in DOMAIN outbox : Is(outbox[i], key)

Updated(key, due, permanent) ==
  [i \in DOMAIN outbox |->
     IF Is(outbox[i], key) THEN [key |-> key, due |-> due, permanent |-> permanent]
     ELSE outbox[i]]

Without(key) == RemoveAt(outbox, CHOOSE i \in DOMAIN outbox : Is(outbox[i], key))

Enqueue(key) ==
  outbox' = IF Queued(key) THEN Updated(key, TRUE, FALSE)
            ELSE Append(outbox, [key |-> key, due |-> TRUE, permanent |-> FALSE])

(***************************************************************************)
(* repository.ts.  Captures look at the journey before their transaction.  *)
(***************************************************************************)
StartJourney ==
  /\ journey.row.status = "none"
  /\ journey' = [journey EXCEPT !.row = [status |-> "active", version |-> 1]]
  /\ Enqueue(Create)
  /\ UNCHANGED <<duplicate, captured, checked, sync, pull, server, faults>>

\* The browser reports positions in order.
Earlier(s) == {Track[i] : i \in 1..(CHOOSE i \in DOMAIN Track : Track[i] = s) - 1}

CaptureChecks(c) ==
  /\ captured[c] = "none"
  /\ c \in Points => \A s \in Earlier(c) : captured[s] # "none" \/ s \in checked
  /\ journey.row.status = "active"
  /\ checked' = checked \cup {c}
  /\ UNCHANGED <<journey, duplicate, captured, outbox, sync, pull, server, faults>>

\* pinJourneyStop and recordLocation.
CaptureCommits(c) ==
  /\ c \in checked
  /\ checked' = checked \ {c}
  /\ captured' = [captured EXCEPT ![c] = "local"]
  /\ Enqueue(RecordOf(c))
  /\ UNCHANGED <<journey, duplicate, sync, pull, server, faults>>

FinishJourney ==
  /\ journey.row.status = "active"
  /\ journey' = [journey EXCEPT !.row.status = "ended"]
  /\ Enqueue(End)
  /\ UNCHANGED <<duplicate, captured, checked, sync, pull, server, faults>>

(***************************************************************************)
(* executeSync takes the due records in order and sends them one by one,   *)
(* whatever became of the ones before.                                     *)
(***************************************************************************)
Record == Head(sync.todo)
Continue ==
  IF Len(sync.todo) = 1 THEN Idle ELSE [Idle EXCEPT !.step = "next", !.todo = Tail(sync.todo)]

\* Mutant of AddDue: the records are not sorted by createdAt.
AddDueFirst ==
  [todo \in Seq(Keys) |-> [record \in Records |->
     IF record.due /\ ~record.permanent THEN <<record.key>> \o todo ELSE todo]]

AddDue ==
  [todo \in Seq(Keys) |-> [record \in Records |->
     IF record.due /\ ~record.permanent THEN Append(todo, record.key) ELSE todo]]

Todo ==
  LET todo[n \in 0 .. Len(outbox)] ==
        IF n = 0 THEN <<>> ELSE AddDue[todo[n - 1]][outbox[n]]
  IN todo[Len(outbox)]

StartSync ==
  /\ sync.step = "idle"
  /\ Todo # <<>>
  /\ sync' = [Idle EXCEPT !.step = "next", !.todo = Todo]
  /\ UNCHANGED <<deviceVars, outbox, pull, server, faults>>

\* Mutant of MissingDependency: the server id is not asked for.
MissingNothing(key) == FALSE

\* dispatch throws MissingDependencyError: the record waits a moment.
MissingDependency(key) == key # Create /\ ~journey.known

Wait ==
  /\ sync.step = "next"
  /\ MissingDependency(Record)
  /\ outbox' = Updated(Record, FALSE, FALSE)
  /\ sync' = Continue
  /\ UNCHANGED <<deviceVars, pull, server, faults>>

\* The first samples that wait, by capturedAt.
NewSamples == {s \in Points : captured[s] = "local"}
Batch == {s \in NewSamples : Cardinality(Earlier(s) \cap NewSamples) < BatchLimit}

\* dispatch reads what it sends; an upload with nothing to send is complete.
Dispatch ==
  /\ sync.step = "next"
  /\ ~MissingDependency(Record)
  /\ LET request == [sync EXCEPT !.step = "sent",
                                 !.version = IF Record = End THEN journey.row.version ELSE 0]
     IN IF Record # Upload THEN sync' = request
        ELSE sync' = [request EXCEPT !.batch = Batch, !.more = Batch # NewSamples,
                                     !.step = IF Batch = {} THEN "applied" ELSE "sent"]
  /\ UNCHANGED <<deviceVars, outbox, pull, server, faults>>

(***************************************************************************)
(* What the API answers.  A create names the row an earlier one made, and  *)
(* a pin the stop; an upload asks for an active journey in any case; the   *)
(* end asks for the current version of an active one.                      *)
(***************************************************************************)
Accepted(key) ==
  LET active == server.row.status = "active"
  IN CASE key = Create -> server.row.status # "none" \/ ~server.otherActive
       [] key = Upload -> active
       [] key = End    -> active /\ sync.version = server.row.version
       [] OTHER        -> active \/ key[2] \in server.stored

RowAfter(key) ==
  CASE key = Create /\ server.row.status = "none" -> [status |-> "active", version |-> 1]
    [] key = End -> [status |-> "ended", version |-> server.row.version + 1]
    [] OTHER     -> server.row

SentCaptures(key) ==
  IF key = Upload THEN sync.batch ELSE {p \in Pins : key = RecordOf(p)}

\* Mutant of Refuse: the record is retried.
RefuseAndRetry == outbox' = Updated(Record, FALSE, FALSE)

\* 400, 404, 409 or 422: the record is never sent again.
Refuse == outbox' = Updated(Record, FALSE, TRUE)

ServerHandles ==
  /\ sync.step = "sent"
  /\ IF Accepted(Record)
     THEN /\ server' = [server EXCEPT !.row = RowAfter(Record), !.stored = @ \cup SentCaptures(Record)]
          /\ sync' = [sync EXCEPT !.step = "accepted", !.version = 0,
                        !.answer = IF Record \in {Create, End} THEN RowAfter(Record) ELSE NoRow]
          /\ UNCHANGED outbox
     ELSE /\ Refuse
          /\ sync' = Continue
          /\ UNCHANGED server
  /\ UNCHANGED <<deviceVars, pull, faults>>

\* Mutant of ApplyAnswer: every sample is marked, not the batch that was sent.
ApplyAnswerToAll ==
  /\ sync.step = "accepted"
  /\ sync' = [sync EXCEPT !.step = "applied"]
  /\ journey' = IF Record \in {Create, End} THEN [row |-> sync.answer, known |-> TRUE] ELSE journey
  /\ captured' = [c \in Captures |->
       IF c \in SentCaptures(Record) \/ (Record = Upload /\ c \in Points /\ captured[c] = "local")
       THEN "synced" ELSE captured[c]]
  /\ UNCHANGED <<duplicate, checked, outbox, pull, server, faults>>

\* The answer overwrites the local row, whatever the user did since.
ApplyAnswer ==
  /\ sync.step = "accepted"
  /\ sync' = [sync EXCEPT !.step = "applied", !.answer = NoRow, !.batch = {}]
  /\ journey' = IF Record \in {Create, End} THEN [row |-> sync.answer, known |-> TRUE] ELSE journey
  /\ captured' = [c \in Captures |-> IF c \in SentCaptures(Record) THEN "synced" ELSE captured[c]]
  /\ UNCHANGED <<duplicate, checked, outbox, pull, server, faults>>

\* The record is deleted, or kept when more samples are waiting.
Settle ==
  /\ sync.step = "applied"
  /\ outbox' = IF sync.more THEN Updated(Record, TRUE, FALSE) ELSE Without(Record)
  /\ sync' = Continue
  /\ UNCHANGED <<deviceVars, pull, server, faults>>

\* Mutant of CallFails: the record is deleted whatever the outcome.
CallFailsAndForgets ==
  /\ sync.step \in {"sent", "accepted"}
  /\ faults < MaxFaults
  /\ faults' = faults + 1
  /\ outbox' = Without(Record)
  /\ sync' = Continue
  /\ UNCHANGED <<deviceVars, pull, server>>

\* The request or its answer is lost, or the answer is another error: the
\* record waits for its backoff, and the executor goes on with the next one,
\* or, after a 401 or 403, stops.
CallFails ==
  /\ sync.step \in {"sent", "accepted"}
  /\ faults < MaxFaults
  /\ faults' = faults + 1
  /\ outbox' = Updated(Record, FALSE, FALSE)
  /\ \/ sync' = Continue
     \/ sync.step = "sent" /\ sync' = Idle
  /\ UNCHANGED <<deviceVars, pull, server>>

\* nextAttemptAt is reached.
RetryDue(key) ==
  /\ \E i \in DOMAIN outbox : Is(outbox[i], key) /\ ~outbox[i].due
  /\ outbox' = Updated(key, TRUE, FALSE)
  /\ UNCHANGED <<deviceVars, sync, pull, server, faults>>

\* The page is closed or reloaded; IndexedDB survives.
Close ==
  /\ faults < MaxFaults
  /\ faults' = faults + 1
  /\ sync' = Idle
  /\ pull' = NoRow
  /\ checked' = {}
  /\ UNCHANGED <<journey, duplicate, captured, outbox, server>>

(***************************************************************************)
(* pullRemoteData: list the journeys, then store every one under the local *)
(* row that has its serverId, or as a new row.  It may overlap with the    *)
(* next executeSync.                                                       *)
(***************************************************************************)
PullReads ==
  /\ pull = NoRow
  /\ server.row.status # "none"
  /\ pull' = server.row
  /\ UNCHANGED <<deviceVars, outbox, sync, server, faults>>

PullStores ==
  /\ pull # NoRow
  /\ pull' = NoRow
  /\ \/ journey.known /\ journey' = [journey EXCEPT !.row = pull] /\ UNCHANGED duplicate
     \/ ~journey.known /\ duplicate' = TRUE /\ UNCHANGED journey
     \/ journey.known /\ duplicate /\ UNCHANGED <<journey, duplicate>>
  /\ UNCHANGED <<captured, checked, outbox, sync, server, faults>>

\* Another device, or the expiry of the outing.
ChangeElsewhere ==
  /\ \/ /\ server.row.status = "active"
        /\ server.row.version < MaxVersion
        /\ \E status \in {"active", "ended"} :
             server' = [server EXCEPT !.row = [status |-> status, version |-> server.row.version + 1]]
     \/ /\ server.row.status = "none"
        /\ server' = [server EXCEPT !.otherActive = ~@]
  /\ UNCHANGED <<deviceVars, outbox, sync, pull, faults>>

Executor ==
  StartSync \/ Wait \/ Dispatch \/ ServerHandles \/ ApplyAnswer \/ Settle

Next ==
  \/ StartJourney \/ FinishJourney
  \/ \E c \in Captures : CaptureChecks(c) \/ CaptureCommits(c)
  \/ Executor \/ CallFails
  \/ \E key \in Keys : RetryDue(key)
  \/ Close \/ PullReads \/ PullStores \/ ChangeElsewhere

Spec == Init /\ [][Next]_vars

\* The app flushes the outbox every 30 seconds while it is open; a call is
\* answered or fails; delays run out.
FairSpec ==
  /\ Spec
  /\ WF_vars(Executor)
  /\ \A key \in Keys : WF_vars(RetryDue(key))
-----------------------------------------------------------------------------

TypeOK ==
  /\ journey \in [row : Row, known : BOOLEAN]
  /\ duplicate \in BOOLEAN
  /\ captured \in [Captures -> {"none", "local", "synced"}]
  /\ checked \subseteq Captures
  /\ outbox \in Seq(Records)
  /\ sync \in [step : {"idle", "next", "sent", "accepted", "applied"}, todo : Seq(Keys),
               version : Nat, batch : SUBSET Points, more : BOOLEAN, answer : Row]
  /\ pull \in Row
  /\ server \in [row : Row, stored : SUBSET Captures, otherActive : BOOLEAN]
  /\ faults \in Nat

HasRecord(c) == \E i \in DOMAIN outbox : outbox[i].key = RecordOf(c)

\* What Delivery speaks of.
Delivered == INSTANCE Delivery WITH
  Items <- Captures,
  Kept <- Pins,
  made <- {c \in Captures : captured[c] # "none"},
  waiting <- {p \in Pins : HasRecord(p)},
  stored <- server.stored,
  synced <- {c \in Captures : captured[c] = "synced"}

\* Whatever is lost, repeated, closed, pulled or changed elsewhere, captures are
\* delivered as Delivery promises, and pins are the captures that are kept.
ImplementsDelivery == Delivered!Spec

\* A journey's creation is acknowledged before anything that needs its
\* server id is sent.
CreateAcknowledgedFirst ==
  sync.step = "sent" /\ Record # Create => server.row.status # "none"

\* What the repository promises by queueing the end of a journey last: it is
\* not sent while a capture queued before it waits, since the server refuses
\* captures of a journey that is over.
Overtaken(key) ==
  \E i, j \in DOMAIN outbox :
    Is(outbox[j], End) /\ i < j /\ Is(outbox[i], key)

EndIsSent == sync.step = "sent" /\ Record = End

EndAfterCapture == EndIsSent => \A c \in Captures : ~Overtaken(RecordOf(c))

\* As long as no call fails that is so for the pins and the creation.
EndAfterPins ==
  faults = 0 /\ EndIsSent =>
    ~Overtaken(Create) /\ \A p \in Pins : ~Overtaken(RecordOf(p))

\* A recorded sample has an upload record until it is synced.
SampleHasRecord ==
  \A s \in Points : captured[s] = "local" => HasRecord(s)

\* A record that only waits for a journey the server refused to create is
\* retried for ever.
Orphaned(key) ==
  key # Create /\ \E i \in DOMAIN outbox : outbox[i].key = Create /\ outbox[i].permanent

\* Again and again every record was delivered or marked as refused, or depends
\* on a creation that was refused: none is queued for ever.
OutboxDrains ==
  []<>(\A key \in Keys : Queued(key) => Orphaned(key))
=============================================================================
