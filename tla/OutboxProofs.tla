---------------------------- MODULE OutboxProofs ----------------------------
(***************************************************************************)
(* Theorems about Outbox, for any number of pins, samples, versions and    *)
(* failures.                                                               *)
(*                                                                         *)
(* What the executor has still to do is queued, once (TodoQueued): so the  *)
(* record it removes is that of the capture it has just stored, and a pin  *)
(* keeps its record until then.  The end of a journey is sent after its    *)
(* pins because the list of due records keeps the order of the outbox      *)
(* (TodoKeepsOrder), nothing waits unless the creation was refused         *)
(* (CreationFirst), and what comes before the end in the outbox comes      *)
(* before it in the list (EndLast).                                        *)
(***************************************************************************)
EXTENDS Outbox, Induction, SequenceTheorems

\* Nothing is queued before the journey is started.
Unstarted ==
  /\ journey.row.status = "none" =>
       outbox = <<>> /\ sync.todo = <<>> /\ checked = {} /\ ~journey.known
  /\ pull # NoRow => pull.status # "none"

\* What the executor has to do is queued, and named once.
TodoQueued ==
  /\ sync.step # "idle" <=> sync.todo # <<>>
  /\ \A k \in DOMAIN sync.todo : Queued(sync.todo[k])
  /\ \A k, l \in DOMAIN sync.todo : sync.todo[k] = sync.todo[l] => k = l
  /\ sync.more => Record = Upload

\* At most one record of a key is not a permanent failure.
LiveOnce ==
  \A i, j \in DOMAIN outbox :
    outbox[i].key = outbox[j].key /\ ~outbox[i].permanent /\ ~outbox[j].permanent => i = j

\* Only what was captured has a record or is sent.
OnlyCaptures ==
  /\ \A c \in checked : captured[c] = "none"
  /\ \A p \in Pins : captured[p] = "none" => ~HasRecord(p)
  /\ \A s \in sync.batch : captured[s] # "none"

\* What an answer says is so on the server, and then on the device.
AnswerIsTrue ==
  /\ sync.step = "accepted" => SentCaptures(Record) \subseteq server.stored
  /\ sync.step = "accepted" /\ Record \in {Create, End} =>
       sync.answer.status # "none" /\ server.row.status # "none"
  /\ sync.step = "applied" => \A p \in Pins : Record = RecordOf(p) => captured[p] = "synced"

\* The device knows the journey before it sends anything else of it.
Acknowledged ==
  /\ journey.known => server.row.status # "none"
  /\ sync.step \in {"sent", "accepted", "applied"} => Record = Create \/ journey.known
  /\ sync.step = "applied" => journey.known

\* The server refused to create the journey.
Doomed == \E i \in DOMAIN outbox : outbox[i].key = Create /\ outbox[i].permanent

DoomedIsUnknown == Doomed => ~journey.known /\ ~Queued(Create)

\* As long as no call fails every record is due and the creation is the first.
CreationFirst ==
  faults = 0 /\ ~Doomed =>
    /\ \A i \in DOMAIN outbox : outbox[i].permanent \/ outbox[i].due
    /\ ~journey.known /\ journey.row.status # "none" => outbox # <<>> /\ Is(outbox[1], Create)
    /\ ~journey.known /\ sync.todo # <<>> => Record = Create

\* What is before the end in the outbox is before it in what is to be done.
EndLast ==
  faults = 0 /\ ~Doomed =>
    \A i, j \in DOMAIN outbox, k \in DOMAIN sync.todo :
      /\ Is(outbox[j], End) /\ i < j /\ sync.todo[k] = End
      /\ ~outbox[i].permanent /\ outbox[i].key # Upload
      => \E l \in DOMAIN sync.todo : l < k /\ sync.todo[l] = outbox[i].key

\* A pin is never forgotten: until the server's answer is stored on the
\* device its record stays, to be sent again or marked as refused, through
\* lost answers, reloads and pulls.
PinHasRecord ==
  \A p \in Pins : captured[p] = "local" => HasRecord(p)

\* What the device shows as synced is on the server.
SyncedIsStored ==
  \A c \in Captures : captured[c] = "synced" => c \in server.stored

Safe == /\ TypeOK /\ Unstarted /\ TodoQueued /\ LiveOnce /\ OnlyCaptures
        /\ AnswerIsTrue /\ Acknowledged /\ PinHasRecord /\ SyncedIsStored

IInv == Safe /\ DoomedIsUnknown /\ CreationFirst /\ EndLast
-----------------------------------------------------------------------------

LEMMA KeyFacts ==
  /\ Create \in Keys /\ Upload \in Keys /\ End \in Keys
  /\ Create # Upload /\ Create # End /\ Upload # End
  /\ \A p \in Pins : RecordOf(p) \in Keys /\ RecordOf(p) \notin {Create, Upload, End}
  /\ \A p, q \in Pins : RecordOf(p) = RecordOf(q) => p = q
  /\ \A s \in Points : RecordOf(s) = Upload
  /\ \A c \in Captures : RecordOf(c) \in Keys
<1>1. \A p \in Pins : RecordOf(p) = <<"pin_stop", p>>
  BY DEF RecordOf
<1>2. \A p \in Pins : RecordOf(p)[1] = "pin_stop" /\ RecordOf(p)[2] = p
  BY <1>1
<1>3. Create[1] = "create_journey" /\ Upload[1] = "upload_locations" /\ End[1] = "end_journey"
  BY DEF Create, Upload, End
<1>4. Create # Upload /\ Create # End /\ Upload # End
  BY <1>3
<1>5. \A p \in Pins : RecordOf(p) \in Keys /\ RecordOf(p) \notin {Create, Upload, End}
  BY <1>2, <1>3 DEF Keys
<1>6. \A p, q \in Pins : RecordOf(p) = RecordOf(q) => p = q
  BY <1>2
<1>7. \A s \in Points : RecordOf(s) = Upload
  BY CapturesAssumption DEF RecordOf
<1>8. \A c \in Captures : RecordOf(c) \in Keys
  BY <1>5, <1>7 DEF Captures, Keys
<1>. QED BY <1>4, <1>5, <1>6, <1>7, <1>8 DEF Keys

LEMMA OutboxType ==
  ASSUME TypeOK
  PROVE  /\ outbox \in Seq(Records) /\ Len(outbox) \in Nat /\ DOMAIN outbox = 1 .. Len(outbox)
         /\ \A i \in DOMAIN outbox : /\ outbox[i] \in Records
                                     /\ outbox[i].key \in Keys
                                     /\ outbox[i].due \in BOOLEAN
                                     /\ outbox[i].permanent \in BOOLEAN
<1>1. outbox \in Seq(Records)
  BY DEF TypeOK
<1>2. Len(outbox) \in Nat /\ DOMAIN outbox = 1 .. Len(outbox)
  BY <1>1
<1>3. \A i \in DOMAIN outbox : outbox[i] \in Records
  BY <1>1, <1>2
<1>. QED BY <1>1, <1>2, <1>3 DEF Records

\* The records that two records of the new outbox were in the old one, in the
\* same order; the later of the two may be new.
OrderKept ==
  \A i, j \in DOMAIN outbox' :
    i < j /\ ~outbox'[i].permanent /\ ~outbox'[j].permanent =>
      \/ ~Queued(outbox'[j].key)
      \/ \E a, b \in DOMAIN outbox :
           /\ a < b /\ ~outbox[a].permanent /\ ~outbox[b].permanent
           /\ outbox[a].key = outbox'[i].key /\ outbox[b].key = outbox'[j].key

AllDue == \A i \in DOMAIN outbox : outbox[i].permanent \/ outbox[i].due

StartsWithCreate == outbox # <<>> /\ Is(outbox[1], Create)

\* What Updated changes.
LEMMA UpdatedIs ==
  ASSUME TypeOK, NEW key \in Keys, NEW due \in BOOLEAN, NEW permanent \in BOOLEAN,
         outbox' = Updated(key, due, permanent)
  PROVE  /\ outbox' \in Seq(Records) /\ DOMAIN outbox' = DOMAIN outbox
         /\ \A i \in DOMAIN outbox :
              /\ outbox'[i].key = outbox[i].key
              /\ outbox'[i].due = IF Is(outbox[i], key) THEN due ELSE outbox[i].due
              /\ outbox'[i].permanent =
                   IF Is(outbox[i], key) THEN permanent ELSE outbox[i].permanent
<1>. DEFINE new(i) == IF Is(outbox[i], key) THEN [key |-> key, due |-> due, permanent |-> permanent]
                      ELSE outbox[i]
<1>1. /\ outbox \in Seq(Records) /\ Len(outbox) \in Nat /\ DOMAIN outbox = 1 .. Len(outbox)
      /\ \A i \in DOMAIN outbox : outbox[i] \in Records
  BY OutboxType
<1>2. outbox' = [i \in 1 .. Len(outbox) |-> new(i)]
  BY <1>1 DEF Updated
<1>3. \A i \in 1 .. Len(outbox) : new(i) \in Records
  BY <1>1 DEF Records
<1>4. \A i \in DOMAIN outbox : /\ new(i).key = outbox[i].key
                               /\ new(i).due = IF Is(outbox[i], key) THEN due ELSE outbox[i].due
                               /\ new(i).permanent = IF Is(outbox[i], key) THEN permanent ELSE outbox[i].permanent
  BY DEF Is
<1>. HIDE DEF new
<1>5. outbox' \in Seq(Records)
  BY <1>1, <1>2, <1>3, SeqDef
<1>. QED BY <1>1, <1>2, <1>4, <1>5

\* A record that is touched stays where it is.
LEMMA Touched ==
  ASSUME TypeOK, LiveOnce, NEW key \in Keys, NEW due \in BOOLEAN, outbox' = Updated(key, due, FALSE)
  PROVE  /\ outbox' \in Seq(Records)
         /\ \A k : Queued(k)' <=> Queued(k)
         /\ \A c : HasRecord(c)' <=> HasRecord(c)
         /\ LiveOnce' /\ OrderKept
         /\ Doomed' <=> Doomed
         /\ AllDue /\ due => AllDue'
         /\ StartsWithCreate => StartsWithCreate'
<1>1. /\ outbox' \in Seq(Records) /\ DOMAIN outbox' = DOMAIN outbox
      /\ \A i \in DOMAIN outbox :
           /\ outbox'[i].key = outbox[i].key
           /\ outbox'[i].due = IF Is(outbox[i], key) THEN due ELSE outbox[i].due
           /\ outbox'[i].permanent = IF Is(outbox[i], key) THEN FALSE ELSE outbox[i].permanent
  BY UpdatedIs
<1>2. \A i \in DOMAIN outbox : outbox'[i].permanent <=> outbox[i].permanent
  BY <1>1 DEF Is
<1>3. /\ outbox \in Seq(Records) /\ Len(outbox) \in Nat /\ DOMAIN outbox = 1 .. Len(outbox)
  BY OutboxType
<1>4. \A k : Queued(k)' <=> Queued(k)
  BY <1>1, <1>2 DEF Queued, Is
<1>5. \A c : HasRecord(c)' <=> HasRecord(c)
  BY <1>1 DEF HasRecord
<1>6. LiveOnce' /\ OrderKept /\ (Doomed' <=> Doomed)
  <2>1. LiveOnce'
    BY <1>1, <1>2 DEF LiveOnce
  <2>2. Doomed' <=> Doomed
    BY <1>1, <1>2 DEF Doomed
  <2>3. ASSUME NEW i \in DOMAIN outbox, NEW j \in DOMAIN outbox, i < j,
               ~outbox'[i].permanent, ~outbox'[j].permanent
        PROVE  /\ i < j /\ ~outbox[i].permanent /\ ~outbox[j].permanent
               /\ outbox[i].key = outbox'[i].key /\ outbox[j].key = outbox'[j].key
    BY <1>1, <1>2, <2>3
  <2>4. OrderKept
    <3>. SUFFICES ASSUME NEW i \in DOMAIN outbox', NEW j \in DOMAIN outbox', i < j,
                         ~outbox'[i].permanent, ~outbox'[j].permanent
                  PROVE  \E a, b \in DOMAIN outbox :
                           /\ a < b /\ ~outbox[a].permanent /\ ~outbox[b].permanent
                           /\ outbox[a].key = outbox'[i].key /\ outbox[b].key = outbox'[j].key
      BY DEF OrderKept
    <3>1. i \in DOMAIN outbox /\ j \in DOMAIN outbox
      BY <1>1
    <3>. QED BY <2>3, <3>1
  <2>. QED BY <2>1, <2>2, <2>4
<1>7. AllDue /\ due => AllDue'
  BY <1>1, <1>2 DEF AllDue
<1>8. StartsWithCreate => StartsWithCreate'
  <2>. SUFFICES ASSUME StartsWithCreate PROVE StartsWithCreate'
    OBVIOUS
  <2>1. 1 \in DOMAIN outbox
    BY <1>3, EmptySeq DEF StartsWithCreate
  <2>2. outbox' # <<>>
    <3>1. DOMAIN <<>> = {}
      OBVIOUS
    <3>. QED BY <1>1, <2>1, <3>1
  <2>. QED BY <1>1, <1>2, <2>1, <2>2 DEF StartsWithCreate, Is
<1>. QED BY <1>1, <1>4, <1>5, <1>6, <1>7, <1>8

\* A record that is refused is there but no longer queued.
LEMMA Refused ==
  ASSUME TypeOK, LiveOnce, NEW key \in Keys, Queued(key), outbox' = Updated(key, FALSE, TRUE)
  PROVE  /\ outbox' \in Seq(Records)
         /\ \A k : Queued(k)' <=> Queued(k) /\ k # key
         /\ \A c : HasRecord(c)' <=> HasRecord(c)
         /\ LiveOnce' /\ OrderKept
         /\ Doomed' <=> Doomed \/ key = Create
         /\ AllDue => AllDue'
         /\ StartsWithCreate /\ key # Create => StartsWithCreate'
<1>1. /\ outbox' \in Seq(Records) /\ DOMAIN outbox' = DOMAIN outbox
      /\ \A i \in DOMAIN outbox :
           /\ outbox'[i].key = outbox[i].key
           /\ outbox'[i].due = IF Is(outbox[i], key) THEN FALSE ELSE outbox[i].due
           /\ outbox'[i].permanent = IF Is(outbox[i], key) THEN TRUE ELSE outbox[i].permanent
  BY UpdatedIs
<1>2. \A i \in DOMAIN outbox : outbox'[i].permanent <=> outbox[i].permanent \/ outbox[i].key = key
  BY <1>1, OutboxType DEF Is
<1>3. /\ outbox \in Seq(Records) /\ Len(outbox) \in Nat /\ DOMAIN outbox = 1 .. Len(outbox)
  BY OutboxType
<1>4. \A k : Queued(k)' <=> Queued(k) /\ k # key
  BY <1>1, <1>2 DEF Queued, Is
<1>5. \A c : HasRecord(c)' <=> HasRecord(c)
  BY <1>1 DEF HasRecord
<1>6. LiveOnce' /\ OrderKept
  <2>1. LiveOnce'
    <3>. SUFFICES ASSUME NEW i \in DOMAIN outbox', NEW j \in DOMAIN outbox',
                         outbox'[i].key = outbox'[j].key,
                         ~outbox'[i].permanent, ~outbox'[j].permanent
                  PROVE  i = j
      BY DEF LiveOnce
    <3>1. i \in DOMAIN outbox /\ j \in DOMAIN outbox
      BY <1>1
    <3>2. outbox[i].key = outbox[j].key /\ ~outbox[i].permanent /\ ~outbox[j].permanent
      BY <1>1, <1>2, <3>1
    <3>. QED BY <3>1, <3>2 DEF LiveOnce
  <2>3. ASSUME NEW i \in DOMAIN outbox, NEW j \in DOMAIN outbox, i < j,
               ~outbox'[i].permanent, ~outbox'[j].permanent
        PROVE  /\ i < j /\ ~outbox[i].permanent /\ ~outbox[j].permanent
               /\ outbox[i].key = outbox'[i].key /\ outbox[j].key = outbox'[j].key
    BY <1>1, <1>2, <2>3
  <2>4. OrderKept
    <3>. SUFFICES ASSUME NEW i \in DOMAIN outbox', NEW j \in DOMAIN outbox', i < j,
                         ~outbox'[i].permanent, ~outbox'[j].permanent
                  PROVE  \E a, b \in DOMAIN outbox :
                           /\ a < b /\ ~outbox[a].permanent /\ ~outbox[b].permanent
                           /\ outbox[a].key = outbox'[i].key /\ outbox[b].key = outbox'[j].key
      BY DEF OrderKept
    <3>1. i \in DOMAIN outbox /\ j \in DOMAIN outbox
      BY <1>1
    <3>. QED BY <2>3, <3>1
  <2>. QED BY <2>1, <2>4
<1>7. Doomed' <=> Doomed \/ key = Create
  BY <1>1, <1>2 DEF Doomed, Queued, Is
<1>8. AllDue => AllDue'
  BY <1>1, <1>2 DEF AllDue, Is
<1>9. StartsWithCreate /\ key # Create => StartsWithCreate'
  <2>. SUFFICES ASSUME StartsWithCreate, key # Create PROVE StartsWithCreate'
    OBVIOUS
  <2>1. 1 \in DOMAIN outbox
    BY <1>3, EmptySeq DEF StartsWithCreate
  <2>2. outbox' # <<>>
    <3>1. DOMAIN <<>> = {}
      OBVIOUS
    <3>. QED BY <1>1, <2>1, <3>1
  <2>. QED BY <1>1, <1>2, <2>1, <2>2 DEF StartsWithCreate, Is
<1>. QED BY <1>1, <1>4, <1>5, <1>6, <1>7, <1>8, <1>9

\* A record that is enqueued is there, at the end unless it was queued.
LEMMA Enqueued ==
  ASSUME TypeOK, LiveOnce, NEW key \in Keys, Enqueue(key)
  PROVE  /\ outbox' \in Seq(Records)
         /\ \A k : Queued(k)' <=> Queued(k) \/ k = key
         /\ \A c : HasRecord(c)' <=> HasRecord(c) \/ RecordOf(c) = key
         /\ LiveOnce' /\ OrderKept
         /\ Doomed' <=> Doomed
         /\ AllDue => AllDue'
         /\ StartsWithCreate => StartsWithCreate'
<1>1. CASE Queued(key)
  <2>1. outbox' = Updated(key, TRUE, FALSE)
    BY <1>1 DEF Enqueue
  <2>2. \A c : RecordOf(c) = key => HasRecord(c)
    BY <1>1 DEF Queued, HasRecord, Is
  <2>. QED BY <1>1, <2>1, <2>2, Touched
<1>2. CASE ~Queued(key)
  <2>. DEFINE record == [key |-> key, due |-> TRUE, permanent |-> FALSE]
              n == Len(outbox)
  <2>1. /\ outbox \in Seq(Records) /\ n \in Nat /\ DOMAIN outbox = 1 .. n
    BY OutboxType
  <2>2. record \in Records
    BY DEF Records
  <2>3. outbox' = Append(outbox, record)
    BY <1>2 DEF Enqueue
  <2>4. /\ outbox' \in Seq(Records) /\ DOMAIN outbox' = 1 .. n + 1 /\ Len(outbox') = n + 1
        /\ \A i \in 1 .. n : outbox'[i] = outbox[i]
        /\ outbox'[n + 1] = record
    BY <2>1, <2>2, <2>3, AppendProperties
  <2>5. /\ outbox'[n + 1].key = key /\ outbox'[n + 1].due /\ ~outbox'[n + 1].permanent
    BY <2>4
  <2>6. \A i \in 1 .. n + 1 : i \in 1 .. n \/ i = n + 1
    BY <2>1
  <2>7. n + 1 \in 1 .. n + 1 /\ n + 1 \notin 1 .. n /\ 1 .. n \subseteq 1 .. n + 1
        /\ \A i \in 1 .. n + 1 : ~(n + 1 < i)
    BY <2>1
  <2>. HIDE DEF n, record
  <2>8. \A k : Queued(k)' <=> Queued(k) \/ k = key
    BY <2>1, <2>4, <2>5, <2>6, <2>7 DEF Queued, Is
  <2>9. \A c : HasRecord(c)' <=> HasRecord(c) \/ RecordOf(c) = key
    BY <2>1, <2>4, <2>5, <2>6, <2>7 DEF HasRecord
  <2>10. LiveOnce'
    <3>1. \A i \in 1 .. n : outbox[i].permanent \/ outbox[i].key # key
      BY <1>2, <2>1 DEF Queued, Is
    <3>. QED BY <2>1, <2>4, <2>5, <2>6, <3>1 DEF LiveOnce
  <2>11. OrderKept
    <3>. SUFFICES ASSUME NEW i \in 1 .. n + 1, NEW j \in 1 .. n + 1, i < j,
                         ~outbox'[i].permanent, ~outbox'[j].permanent, Queued(outbox'[j].key)
                  PROVE  \E a, b \in DOMAIN outbox :
                           /\ a < b /\ ~outbox[a].permanent /\ ~outbox[b].permanent
                           /\ outbox[a].key = outbox'[i].key /\ outbox[b].key = outbox'[j].key
      BY <2>4 DEF OrderKept
    <3>1. j # n + 1
      BY <1>2, <2>5
    <3>2. i \in 1 .. n /\ j \in 1 .. n
      BY <2>6, <2>7, <3>1
    <3>. QED BY <2>1, <2>4, <3>2
  <2>12. Doomed' <=> Doomed
    BY <2>1, <2>4, <2>5, <2>6, <2>7 DEF Doomed
  <2>13. AllDue => AllDue'
    BY <2>1, <2>4, <2>5, <2>6 DEF AllDue
  <2>14. StartsWithCreate => StartsWithCreate'
    <3>. SUFFICES ASSUME StartsWithCreate PROVE StartsWithCreate'
      OBVIOUS
    <3>1. 1 \in 1 .. n
      BY <2>1, EmptySeq DEF StartsWithCreate, n
    <3>2. outbox' # <<>>
      BY <2>4, <2>1, EmptySeq
    <3>. QED BY <2>4, <3>1, <3>2 DEF StartsWithCreate
  <2>. QED BY <2>4, <2>8, <2>9, <2>10, <2>11, <2>12, <2>13, <2>14
<1>. QED BY <1>1, <1>2

\* A record that is removed leaves the others in their order.
LEMMA Removed ==
  ASSUME TypeOK, LiveOnce, NEW key \in Keys, Queued(key), outbox' = Without(key)
  PROVE  /\ outbox' \in Seq(Records)
         /\ \A k : Queued(k)' <=> Queued(k) /\ k # key
         /\ \A c : HasRecord(c)' => HasRecord(c)
         /\ \A c : HasRecord(c) /\ RecordOf(c) # key => HasRecord(c)'
         /\ LiveOnce' /\ OrderKept
         /\ Doomed' <=> Doomed
         /\ AllDue => AllDue'
<1>. DEFINE p == CHOOSE i \in DOMAIN outbox : Is(outbox[i], key)
            n == Len(outbox)
            from(i) == IF i < p THEN i ELSE i + 1
<1>1. /\ outbox \in Seq(Records) /\ n \in Nat /\ DOMAIN outbox = 1 .. n
      /\ \A i \in 1 .. n : outbox[i] \in Records
  BY OutboxType
<1>2. p \in 1 .. n /\ Is(outbox[p], key)
  BY <1>1 DEF Queued
<1>3. outbox' = SubSeq(outbox, 1, p - 1) \o SubSeq(outbox, p + 1, n)
  BY DEF Without, RemoveAt
<1>. HIDE DEF p, n
<1>4. /\ SubSeq(outbox, 1, p - 1) \in Seq(Records)
      /\ Len(SubSeq(outbox, 1, p - 1)) = p - 1
      /\ \A i \in 1 .. p - 1 : SubSeq(outbox, 1, p - 1)[i] = outbox[i]
  <2>1. \A i \in 1 .. p - 1 : outbox[i] \in Records
    BY <1>1, <1>2
  <2>2. 1 \in Int /\ p - 1 \in Int
    BY <1>1, <1>2
  <2>3. /\ SubSeq(outbox, 1, p - 1) \in Seq(Records)
        /\ Len(SubSeq(outbox, 1, p - 1)) = IF 1 <= p - 1 THEN (p - 1) - 1 + 1 ELSE 0
        /\ \A i \in 1 .. (p - 1) - 1 + 1 : SubSeq(outbox, 1, p - 1)[i] = outbox[1 + i - 1]
    BY <2>1, <2>2, SubSeqProperties
  <2>. QED BY <1>1, <1>2, <2>3
<1>5. /\ SubSeq(outbox, p + 1, n) \in Seq(Records)
      /\ Len(SubSeq(outbox, p + 1, n)) = n - p
      /\ \A i \in 1 .. n - p : SubSeq(outbox, p + 1, n)[i] = outbox[p + i]
  <2>1. \A i \in p + 1 .. n : outbox[i] \in Records
    BY <1>1, <1>2
  <2>2. p + 1 \in Int /\ n \in Int
    BY <1>1, <1>2
  <2>3. /\ SubSeq(outbox, p + 1, n) \in Seq(Records)
        /\ Len(SubSeq(outbox, p + 1, n)) = IF p + 1 <= n THEN n - (p + 1) + 1 ELSE 0
        /\ \A i \in 1 .. n - (p + 1) + 1 : SubSeq(outbox, p + 1, n)[i] = outbox[(p + 1) + i - 1]
    BY <2>1, <2>2, SubSeqProperties
  <2>. QED BY <1>1, <1>2, <2>3
<1>6. /\ outbox' \in Seq(Records) /\ DOMAIN outbox' = 1 .. n - 1
      /\ \A i \in 1 .. n - 1 : from(i) \in 1 .. n /\ outbox'[i] = outbox[from(i)]
  <2>1. /\ outbox' \in Seq(Records) /\ Len(outbox') = (p - 1) + (n - p)
        /\ \A i \in 1 .. (p - 1) + (n - p) :
             outbox'[i] = IF i <= p - 1 THEN SubSeq(outbox, 1, p - 1)[i]
                          ELSE SubSeq(outbox, p + 1, n)[i - (p - 1)]
    BY <1>3, <1>4, <1>5, ConcatProperties
  <2>2. (p - 1) + (n - p) = n - 1
    BY <1>1, <1>2
  <2>3. DOMAIN outbox' = 1 .. n - 1
    BY <2>1, <2>2
  <2>4. ASSUME NEW i \in 1 .. n - 1
        PROVE  from(i) \in 1 .. n /\ outbox'[i] = outbox[from(i)]
    <3>1. CASE i < p
      <4>1. i \in 1 .. p - 1 /\ i <= p - 1 /\ i \in 1 .. n
        BY <1>1, <1>2, <3>1
      <4>. QED BY <1>4, <2>1, <2>2, <3>1, <4>1
    <3>2. CASE ~(i < p)
      <4>1. ~(i <= p - 1) /\ i - (p - 1) \in 1 .. n - p /\ p + (i - (p - 1)) = i + 1 /\ i + 1 \in 1 .. n
        BY <1>1, <1>2, <3>2
      <4>. QED BY <1>5, <2>1, <2>2, <3>2, <4>1
    <3>. QED BY <3>1, <3>2
  <2>. QED BY <2>1, <2>3, <2>4
<1>7. \A i, j \in 1 .. n - 1 : /\ from(i) = from(j) => i = j
                               /\ i < j => from(i) < from(j)
  BY <1>1, <1>2
<1>8. \A j \in 1 .. n : j # p => \E i \in 1 .. n - 1 : from(i) = j
  <2>. SUFFICES ASSUME NEW j \in 1 .. n, j # p PROVE \E i \in 1 .. n - 1 : from(i) = j
    OBVIOUS
  <2>1. CASE j < p
    <3>1. j \in 1 .. n - 1 /\ from(j) = j
      BY <1>1, <1>2, <2>1
    <3>. QED BY <3>1
  <2>2. CASE p < j
    <3>1. j - 1 \in 1 .. n - 1 /\ from(j - 1) = j
      BY <1>1, <1>2, <2>2
    <3>. QED BY <3>1
  <2>. QED BY <1>1, <1>2, <2>1, <2>2
<1>9. \A i \in 1 .. n - 1 : from(i) # p
  BY <1>1, <1>2
<1>10. outbox[p].key = key /\ ~outbox[p].permanent
  BY <1>2 DEF Is
<1>. HIDE DEF from
<1>11. \A k : Queued(k)' <=> Queued(k) /\ k # key
  <2>1. \A j \in 1 .. n : outbox[j].key = key /\ ~outbox[j].permanent => j = p
    BY <1>1, <1>2, <1>10 DEF LiveOnce
  <2>2. ASSUME NEW k, Queued(k)' PROVE Queued(k) /\ k # key
    <3>1. PICK i \in 1 .. n - 1 : Is(outbox'[i], k)
      BY <1>6, <2>2 DEF Queued
    <3>. QED BY <1>1, <1>6, <1>9, <2>1, <3>1 DEF Queued, Is
  <2>3. ASSUME NEW k, Queued(k), k # key PROVE Queued(k)'
    <3>1. PICK j \in 1 .. n : Is(outbox[j], k)
      BY <1>1, <2>3 DEF Queued
    <3>2. j # p
      BY <1>10, <2>3, <3>1 DEF Is
    <3>3. PICK i \in 1 .. n - 1 : from(i) = j
      BY <1>8, <3>2
    <3>. QED BY <1>6, <3>1, <3>3 DEF Queued
  <2>. QED BY <2>2, <2>3
<1>12. /\ \A c : HasRecord(c)' => HasRecord(c)
       /\ \A c : HasRecord(c) /\ RecordOf(c) # key => HasRecord(c)'
  <2>1. \A c : HasRecord(c)' => HasRecord(c)
    BY <1>1, <1>6 DEF HasRecord
  <2>2. ASSUME NEW c, HasRecord(c), RecordOf(c) # key PROVE HasRecord(c)'
    <3>1. PICK j \in 1 .. n : outbox[j].key = RecordOf(c)
      BY <1>1, <2>2 DEF HasRecord
    <3>2. PICK i \in 1 .. n - 1 : from(i) = j
      BY <1>8, <1>10, <2>2, <3>1
    <3>. QED BY <1>6, <3>1, <3>2 DEF HasRecord
  <2>. QED BY <2>1, <2>2
<1>13. LiveOnce'
  BY <1>1, <1>6, <1>7 DEF LiveOnce
<1>14. OrderKept
  BY <1>1, <1>6, <1>7 DEF OrderKept
<1>15. Doomed' <=> Doomed
  <2>1. Doomed' => Doomed
    BY <1>1, <1>6 DEF Doomed
  <2>2. ASSUME Doomed PROVE Doomed'
    <3>1. PICK j \in 1 .. n : outbox[j].key = Create /\ outbox[j].permanent
      BY <1>1, <2>2 DEF Doomed
    <3>2. PICK i \in 1 .. n - 1 : from(i) = j
      BY <1>8, <1>10, <3>1
    <3>. QED BY <1>6, <3>1, <3>2 DEF Doomed
  <2>. QED BY <2>1, <2>2
<1>16. AllDue => AllDue'
  BY <1>1, <1>6 DEF AllDue
<1>. QED BY <1>6, <1>11, <1>12, <1>13, <1>14, <1>15, <1>16
-----------------------------------------------------------------------------

IsDue(i) == outbox[i].due /\ ~outbox[i].permanent

\* q names the due records among the first n of the outbox, which are at place,
\* in their order.
Lists(q, n, place) ==
  /\ q \in Seq(Keys)
  /\ \A k \in 1 .. Len(q) : place[k] \in 1 .. n /\ IsDue(place[k]) /\ outbox[place[k]].key = q[k]
  /\ \A k, l \in 1 .. Len(q) : k < l => place[k] < place[l]
  /\ \A i \in 1 .. n : IsDue(i) => \E k \in 1 .. Len(q) : place[k] = i

LEMMA ListsOneMore ==
  ASSUME TypeOK, NEW n \in Nat, n + 1 \in DOMAIN outbox, NEW q, NEW place, Lists(q, n, place)
  PROVE  \E further : Lists(AddDue[q][outbox[n + 1]], n + 1, further)
<1>1. /\ outbox[n + 1] \in Records /\ outbox[n + 1].key \in Keys
      /\ q \in Seq(Keys) /\ Len(q) \in Nat
  BY OutboxType DEF Lists
<1>2. AddDue[q][outbox[n + 1]] = IF IsDue(n + 1) THEN Append(q, outbox[n + 1].key) ELSE q
  BY <1>1 DEF AddDue, IsDue
<1>3. \A i \in 1 .. n + 1 : i \in 1 .. n \/ i = n + 1
  OBVIOUS
<1>4. CASE ~IsDue(n + 1)
  <2>1. Lists(q, n + 1, place)
    BY <1>3, <1>4 DEF Lists
  <2>. QED BY <1>2, <1>4, <2>1
<1>5. CASE IsDue(n + 1)
  <2>. DEFINE r == Append(q, outbox[n + 1].key)
              further == [k \in 1 .. Len(q) + 1 |-> IF k <= Len(q) THEN place[k] ELSE n + 1]
  <2>1. /\ r \in Seq(Keys) /\ Len(r) = Len(q) + 1
        /\ \A k \in 1 .. Len(q) : r[k] = q[k]
        /\ r[Len(q) + 1] = outbox[n + 1].key
    BY <1>1, AppendProperties
  <2>2. /\ \A k \in 1 .. Len(q) : further[k] = place[k]
        /\ further[Len(q) + 1] = n + 1
    BY <1>1
  <2>3. \A k \in 1 .. Len(q) + 1 : k \in 1 .. Len(q) \/ k = Len(q) + 1
    BY <1>1
  <2>4. /\ Len(q) + 1 \in 1 .. Len(q) + 1 /\ 1 .. Len(q) \subseteq 1 .. Len(q) + 1
        /\ n + 1 \in 1 .. n + 1 /\ 1 .. n \subseteq 1 .. n + 1
        /\ \A k \in 1 .. Len(q) + 1 : ~(Len(q) + 1 < k)
    BY <1>1
  <2>. HIDE DEF r, further
  <2>5. \A k \in 1 .. Len(r) :
          further[k] \in 1 .. n + 1 /\ IsDue(further[k]) /\ outbox[further[k]].key = r[k]
    <3>1. ASSUME NEW k \in 1 .. Len(q)
          PROVE  further[k] \in 1 .. n + 1 /\ IsDue(further[k]) /\ outbox[further[k]].key = r[k]
      BY <2>1, <2>2, <2>4 DEF Lists
    <3>2. n + 1 \in 1 .. n + 1 /\ IsDue(n + 1) /\ outbox[n + 1].key = r[Len(q) + 1]
      BY <1>5, <2>1, <2>4
    <3>. QED BY <2>1, <2>2, <2>3, <3>1, <3>2
  <2>6. \A k, l \in 1 .. Len(r) : k < l => further[k] < further[l]
    <3>. SUFFICES ASSUME NEW k \in 1 .. Len(q) + 1, NEW l \in 1 .. Len(q) + 1, k < l
                  PROVE  further[k] < further[l]
      BY <2>1
    <3>1. k \in 1 .. Len(q) /\ further[k] = place[k] /\ place[k] \in 1 .. n
      BY <1>1, <2>2, <2>3, <2>4 DEF Lists
    <3>2. CASE l \in 1 .. Len(q)
      BY <2>2, <3>1, <3>2 DEF Lists
    <3>3. CASE l = Len(q) + 1
      <4>1. place[k] < n + 1
        BY <3>1
      <4>. QED BY <2>2, <3>1, <3>3, <4>1
    <3>. QED BY <2>3, <3>2, <3>3
  <2>7. \A i \in 1 .. n + 1 : IsDue(i) => \E k \in 1 .. Len(r) : further[k] = i
    <3>. SUFFICES ASSUME NEW i \in 1 .. n + 1, IsDue(i)
                  PROVE  \E k \in 1 .. Len(r) : further[k] = i
      OBVIOUS
    <3>1. CASE i \in 1 .. n
      <4>1. PICK k \in 1 .. Len(q) : place[k] = i
        BY <3>1 DEF Lists
      <4>. QED BY <2>1, <2>2, <2>4, <4>1
    <3>2. CASE i = n + 1
      BY <2>1, <2>2, <2>4, <3>2
    <3>. QED BY <1>3, <3>1, <3>2
  <2>8. Lists(r, n + 1, further)
    BY <2>1, <2>5, <2>6, <2>7 DEF Lists
  <2>. QED BY <1>2, <1>5, <2>8 DEF r
<1>. QED BY <1>4, <1>5

\* executeSync goes through the due records in the order of the outbox.
LEMMA TodoKeepsOrder ==
  ASSUME TypeOK
  PROVE  \E place : Lists(Todo, Len(outbox), place)
<1>. DEFINE N == Len(outbox)
            todo == CHOOSE f : f = [n \in 0 .. N |->
                      IF n = 0 THEN <<>> ELSE AddDue[f[n - 1]][outbox[n]]]
            T == {n \in 0 .. N : \E place : Lists(todo[n], n, place)}
<1>1. N \in Nat /\ DOMAIN outbox = 1 .. N
  BY OutboxType
<1>2. Todo = todo[N]
  BY DEF Todo
<1>3. Computes(todo, N, <<>>, AddDue, outbox)
  BY <1>1, RecursionComputes
<1>. HIDE DEF todo
<1>4. todo[0] = <<>> /\ \A n \in 1 .. N : todo[n] = AddDue[todo[n - 1]][outbox[n]]
  BY <1>3 DEF Computes
<1>5. 0 \in T
  <2>1. Lists(<<>>, 0, <<>>)
    BY EmptySeq DEF Lists
  <2>. QED BY <1>1, <1>4, <2>1
<1>6. ASSUME NEW n \in Nat, n < N, n \in T PROVE n + 1 \in T
  <2>1. n + 1 \in 1 .. N /\ (n + 1) - 1 = n /\ n + 1 \in 0 .. N
    BY <1>1, <1>6
  <2>2. PICK place : Lists(todo[n], n, place)
    BY <1>6
  <2>3. \E further : Lists(AddDue[todo[n]][outbox[n + 1]], n + 1, further)
    BY <1>1, <2>1, <2>2, ListsOneMore
  <2>4. todo[n + 1] = AddDue[todo[n]][outbox[n + 1]]
    BY <1>4, <2>1
  <2>. QED BY <2>1, <2>3, <2>4
<1>. HIDE DEF T
<1>7. 0 .. N \subseteq T
  BY <1>1, <1>5, <1>6, IntervalInduction
<1>8. N \in T
  BY <1>1, <1>7
<1>. QED BY <1>2, <1>8 DEF T

Executors == [step : {"idle", "next", "sent", "accepted", "applied"}, todo : Seq(Keys),
              version : Nat, batch : SUBSET Points, more : BOOLEAN, answer : Row]

LEMMA IdleType == Idle \in Executors /\ NoRow \in Row
<1>1. <<>> \in Seq(Keys)
  BY EmptySeq
<1>. QED BY <1>1 DEF Idle, Executors, NoRow, Row

\* What is left when the executor goes on.
LEMMA ContinueIs ==
  ASSUME TypeOK, sync.todo # <<>>
  PROVE  /\ Continue \in Executors /\ Continue.todo \in Seq(Keys)
         /\ Len(sync.todo) \in Nat /\ DOMAIN sync.todo = 1 .. Len(sync.todo)
         /\ Len(Continue.todo) = Len(sync.todo) - 1
         /\ DOMAIN Continue.todo = 1 .. Len(sync.todo) - 1
         /\ \A k \in 1 .. Len(sync.todo) - 1 : Continue.todo[k] = sync.todo[k + 1]
         /\ Continue.step = IF Continue.todo = <<>> THEN "idle" ELSE "next"
         /\ Continue.version = 0 /\ Continue.batch = {} /\ ~Continue.more /\ Continue.answer = NoRow
         /\ 1 \in DOMAIN sync.todo /\ Record = sync.todo[1] /\ Record \in Keys
<1>1. /\ sync.todo \in Seq(Keys) /\ Len(sync.todo) \in Nat /\ DOMAIN sync.todo = 1 .. Len(sync.todo)
      /\ 1 \in 1 .. Len(sync.todo)
  BY EmptySeq DEF TypeOK
<1>2. Record = sync.todo[1] /\ Record \in Keys
  BY <1>1 DEF Record
<1>3. CASE Len(sync.todo) = 1
  <2>1. Continue = Idle
    BY <1>3 DEF Continue
  <2>2. Continue.todo = <<>> /\ <<>> \in Seq(Keys) /\ Len(<<>>) = 0
    BY <2>1, EmptySeq DEF Idle
  <2>. QED BY <1>1, <1>2, <1>3, <2>1, <2>2, IdleType DEF Idle
<1>4. CASE Len(sync.todo) # 1
  <2>1. Continue = [Idle EXCEPT !.step = "next", !.todo = Tail(sync.todo)]
    BY <1>4 DEF Continue
  <2>2. /\ Tail(sync.todo) \in Seq(Keys) /\ Len(Tail(sync.todo)) = Len(sync.todo) - 1
        /\ \A k \in 1 .. Len(sync.todo) - 1 : Tail(sync.todo)[k] = sync.todo[k + 1]
    BY <1>1, HeadTailProperties
  <2>3. DOMAIN Tail(sync.todo) = 1 .. Len(sync.todo) - 1
    BY <2>2
  <2>4. Tail(sync.todo) # <<>>
    <3>0. \A n \in Nat : 1 \in 1 .. n /\ n # 1 => 1 \in 1 .. n - 1
      OBVIOUS
    <3>1. 1 \in 1 .. Len(sync.todo) - 1
      BY <1>1, <1>4, <3>0
    <3>2. DOMAIN <<>> = {}
      OBVIOUS
    <3>. QED BY <2>3, <3>1, <3>2
  <2>5. /\ Continue.todo = Tail(sync.todo) /\ Continue.step = "next"
        /\ Continue.version = 0 /\ Continue.batch = {} /\ ~Continue.more /\ Continue.answer = NoRow
    BY <2>1 DEF Idle
  <2>6. Continue \in Executors
    BY <2>1, <2>2, IdleType DEF Executors
  <2>. QED BY <1>1, <1>2, <2>2, <2>3, <2>4, <2>5, <2>6
<1>. QED BY <1>3, <1>4
-----------------------------------------------------------------------------

LEMMA RowAfterType ==
  ASSUME TypeOK, NEW key
  PROVE  RowAfter(key) \in Row
<1>1. server.row \in Row /\ server.row.version \in Nat
  BY DEF TypeOK, Row
<1>2. /\ [status |-> "active", version |-> 1] \in Row
      /\ [status |-> "ended", version |-> server.row.version + 1] \in Row
  BY <1>1 DEF Row
<1>. QED BY <1>1, <1>2 DEF RowAfter

\* Rows, records and the executor have their types.
LEMMA TypeStep ==
  ASSUME TypeOK, TodoQueued, LiveOnce, [Next]_vars
  PROVE  TypeOK'
<1>. DEFINE DeviceOK == /\ journey \in [row : Row, known : BOOLEAN]
                        /\ duplicate \in BOOLEAN
                        /\ captured \in [Captures -> {"none", "local", "synced"}]
                        /\ checked \subseteq Captures
            ServerOK == server \in [row : Row, stored : SUBSET Captures, otherActive : BOOLEAN]
<1>0. /\ DeviceOK /\ ServerOK /\ sync \in Executors /\ pull \in Row /\ faults \in Nat
      /\ outbox \in Seq(Records)
  BY DEF TypeOK, Executors
<1>1. SUFFICES /\ DeviceOK' /\ ServerOK' /\ sync' \in Executors /\ pull' \in Row /\ faults' \in Nat
               /\ outbox' \in Seq(Records)
  BY DEF TypeOK, Executors
<1>. DEFINE Typed == /\ DeviceOK' /\ ServerOK' /\ sync' \in Executors /\ pull' \in Row /\ faults' \in Nat
                     /\ outbox' \in Seq(Records)
<1>2. ASSUME sync.step # "idle"
      PROVE  /\ Continue \in Executors /\ Record \in Keys /\ Queued(Record)
             /\ sync.todo # <<>>
  BY <1>2, ContinueIs DEF TodoQueued
<1>3. CASE StartJourney
  BY <1>0, <1>3, KeyFacts, Enqueued DEF StartJourney, Row
<1>4. ASSUME NEW c \in Captures, CaptureChecks(c) PROVE Typed
  BY <1>0, <1>4 DEF CaptureChecks
<1>5. ASSUME NEW c \in Captures, CaptureCommits(c) PROVE Typed
  BY <1>0, <1>5, KeyFacts, Enqueued DEF CaptureCommits
<1>6. CASE FinishJourney
  BY <1>0, <1>6, KeyFacts, Enqueued DEF FinishJourney, Row
<1>7. CASE StartSync
  <2>1. Todo \in Seq(Keys)
    BY TodoKeepsOrder DEF Lists
  <2>2. [Idle EXCEPT !.step = "next", !.todo = Todo] \in Executors
    BY <2>1, IdleType DEF Executors
  <2>. QED BY <1>0, <1>7, <2>2 DEF StartSync, deviceVars
<1>8. CASE Wait
  BY <1>0, <1>2, <1>8, Touched DEF Wait, deviceVars
<1>9. CASE Dispatch
  <2>1. journey.row.version \in Nat
    BY <1>0 DEF Row
  <2>2. Batch \in SUBSET Points /\ (Batch # NewSamples) \in BOOLEAN
    BY DEF Batch, NewSamples
  <2>. DEFINE request == [sync EXCEPT !.step = "sent",
                                      !.version = IF Record = End THEN journey.row.version ELSE 0]
              upload == [request EXCEPT !.batch = Batch, !.more = Batch # NewSamples,
                                        !.step = IF Batch = {} THEN "applied" ELSE "sent"]
  <2>3. request \in Executors
    BY <1>0, <2>1 DEF Executors
  <2>4. sync' = request \/ sync' = upload
    BY <1>9 DEF Dispatch
  <2>. HIDE DEF request
  <2>5. upload \in Executors
    BY <2>2, <2>3 DEF Executors
  <2>6. sync' \in Executors
    BY <2>3, <2>4, <2>5
  <2>. QED BY <1>0, <1>9, <2>6 DEF Dispatch, deviceVars
<1>10. CASE ServerHandles
  <2>1. sync.step # "idle"
    BY <1>10 DEF ServerHandles
  <2>2. CASE Accepted(Record)
    <3>1. RowAfter(Record) \in Row /\ NoRow \in Row
      BY RowAfterType, IdleType
    <3>2. SentCaptures(Record) \subseteq Captures
      BY <1>0 DEF SentCaptures, Executors, Captures
    <3>3. /\ server' = [server EXCEPT !.row = RowAfter(Record), !.stored = @ \cup SentCaptures(Record)]
          /\ sync' = [sync EXCEPT !.step = "accepted", !.version = 0,
                        !.answer = IF Record \in {Create, End} THEN RowAfter(Record) ELSE NoRow]
          /\ outbox' = outbox
      BY <1>10, <2>2 DEF ServerHandles
    <3>4. ServerOK'
      BY <1>0, <3>1, <3>2, <3>3
    <3>5. sync' \in Executors
      BY <1>0, <3>1, <3>3 DEF Executors
    <3>. QED BY <1>0, <1>10, <3>3, <3>4, <3>5 DEF ServerHandles, deviceVars
  <2>3. CASE ~Accepted(Record)
    BY <1>0, <1>2, <1>10, <2>1, <2>3, Refused DEF ServerHandles, Refuse, deviceVars
  <2>. QED BY <2>2, <2>3
<1>11. CASE ApplyAnswer
  <2>1. NoRow \in Row /\ sync.answer \in Row
    BY <1>0, IdleType DEF Executors
  <2>2. sync' \in Executors
    BY <1>0, <1>11, <2>1 DEF ApplyAnswer, Executors
  <2>3. journey' \in [row : Row, known : BOOLEAN]
    BY <1>0, <1>11, <2>1 DEF ApplyAnswer
  <2>4. captured' \in [Captures -> {"none", "local", "synced"}]
    BY <1>0, <1>11 DEF ApplyAnswer
  <2>. QED BY <1>0, <1>11, <2>2, <2>3, <2>4 DEF ApplyAnswer
<1>12. CASE Settle
  <2>1. sync.step # "idle"
    BY <1>12 DEF Settle
  <2>2. outbox' \in Seq(Records)
    BY <1>2, <1>12, <2>1, Touched, Removed DEF Settle
  <2>. QED BY <1>0, <1>2, <1>12, <2>1, <2>2 DEF Settle, deviceVars
<1>13. CASE CallFails
  <2>1. Record \in Keys /\ Continue \in Executors
    BY <1>2, <1>13 DEF CallFails
  <2>2. outbox' = Updated(Record, FALSE, FALSE) /\ faults' = faults + 1
        /\ (sync' = Continue \/ sync' = Idle)
    BY <1>13 DEF CallFails
  <2>3. outbox' \in Seq(Records)
    BY <2>1, <2>2, Touched
  <2>4. faults' \in Nat /\ sync' \in Executors
    BY <1>0, <2>1, <2>2, IdleType
  <2>. QED BY <1>0, <1>13, <2>3, <2>4 DEF CallFails, deviceVars
<1>14. ASSUME NEW key \in Keys, RetryDue(key) PROVE Typed
  BY <1>0, <1>14, Touched DEF RetryDue, deviceVars
<1>15. CASE Close
  BY <1>0, <1>15, IdleType DEF Close
<1>16. CASE PullReads
  BY <1>0, <1>16 DEF PullReads, deviceVars
<1>17. CASE PullStores
  BY <1>0, <1>17, IdleType DEF PullStores
<1>18. CASE ChangeElsewhere
  <2>1. ASSUME NEW status \in {"active", "ended"}
        PROVE  [status |-> status, version |-> server.row.version + 1] \in Row
    BY <1>0 DEF Row
  <2>2. ServerOK'
    BY <1>0, <1>18, <2>1 DEF ChangeElsewhere
  <2>. QED BY <1>0, <1>18, <2>2 DEF ChangeElsewhere, deviceVars
<1>19. CASE UNCHANGED vars
  BY <1>0, <1>19 DEF vars, deviceVars
<1>. QED BY <1>3, <1>4, <1>5, <1>6, <1>7, <1>8, <1>9, <1>10, <1>11, <1>12, <1>13, <1>14, <1>15,
            <1>16, <1>17, <1>18, <1>19 DEF Next, Executor
-----------------------------------------------------------------------------

\* The record the executor is at.
LEMMA AtRecord ==
  ASSUME TypeOK, TodoQueued, sync.step # "idle"
  PROVE  /\ sync.todo # <<>> /\ Record \in Keys /\ Queued(Record)
         /\ 1 \in DOMAIN sync.todo /\ Record = sync.todo[1]
  BY ContinueIs DEF TodoQueued

\* A key is in what is left to do only if it is queued and not the one before.
LEMMA LeftIsQueued ==
  ASSUME TypeOK, TodoQueued, sync.step # "idle"
  PROVE  /\ \A k \in DOMAIN Continue.todo : Queued(Continue.todo[k]) /\ Continue.todo[k] # Record
         /\ \A k, l \in DOMAIN Continue.todo : Continue.todo[k] = Continue.todo[l] => k = l
         /\ Continue.step # "idle" <=> Continue.todo # <<>>
         /\ ~Continue.more
<1>1. /\ sync.todo # <<>> /\ Record = sync.todo[1] /\ 1 \in DOMAIN sync.todo
  BY AtRecord
<1>2. /\ Len(sync.todo) \in Nat /\ DOMAIN sync.todo = 1 .. Len(sync.todo)
      /\ DOMAIN Continue.todo = 1 .. Len(sync.todo) - 1
      /\ \A k \in 1 .. Len(sync.todo) - 1 : Continue.todo[k] = sync.todo[k + 1]
      /\ Continue.step = IF Continue.todo = <<>> THEN "idle" ELSE "next"
      /\ ~Continue.more
  BY <1>1, ContinueIs
<1>3. \A k \in 1 .. Len(sync.todo) - 1 : k + 1 \in DOMAIN sync.todo /\ k + 1 # 1
  BY <1>2
<1>4. \A k \in DOMAIN Continue.todo : Queued(Continue.todo[k]) /\ Continue.todo[k] # Record
  BY <1>1, <1>2, <1>3 DEF TodoQueued
<1>5. ASSUME NEW k \in DOMAIN Continue.todo, NEW l \in DOMAIN Continue.todo,
             Continue.todo[k] = Continue.todo[l]
      PROVE  k = l
  <2>1. /\ k \in 1 .. Len(sync.todo) - 1 /\ l \in 1 .. Len(sync.todo) - 1
        /\ k + 1 \in DOMAIN sync.todo /\ l + 1 \in DOMAIN sync.todo
    BY <1>2, <1>3
  <2>2. sync.todo[k + 1] = sync.todo[l + 1]
    BY <1>2, <1>5, <2>1
  <2>3. k + 1 = l + 1
    BY <2>1, <2>2 DEF TodoQueued
  <2>. QED BY <2>1, <2>3
<1>. QED BY <1>2, <1>4, <1>5

\* The executor goes on, and what it has left is still queued.
LEMMA GoesOn ==
  ASSUME TypeOK, TodoQueued, sync.step # "idle", sync' = Continue,
         \A k : Queued(k) /\ k # Record => Queued(k)'
  PROVE  TodoQueued'
  BY LeftIsQueued DEF TodoQueued

LEMMA TodoStep ==
  ASSUME TypeOK, TodoQueued, LiveOnce, [Next]_vars
  PROVE  TodoQueued' /\ LiveOnce'
<1>0. /\ sync \in Executors
      /\ sync.step # "idle" => Record \in Keys /\ Queued(Record)
  BY AtRecord DEF TypeOK, Executors
<1>1. ASSUME \A k : Queued(k) => Queued(k)', sync' = sync PROVE TodoQueued'
  BY <1>1 DEF TodoQueued, Record
<1>2. CASE StartJourney
  BY <1>1, <1>2, KeyFacts, Enqueued DEF StartJourney
<1>3. ASSUME NEW c \in Captures, CaptureChecks(c) PROVE TodoQueued' /\ LiveOnce'
  BY <1>1, <1>3 DEF CaptureChecks, Queued, LiveOnce
<1>4. ASSUME NEW c \in Captures, CaptureCommits(c) PROVE TodoQueued' /\ LiveOnce'
  BY <1>1, <1>4, KeyFacts, Enqueued DEF CaptureCommits
<1>5. CASE FinishJourney
  BY <1>1, <1>5, KeyFacts, Enqueued DEF FinishJourney
<1>6. CASE StartSync
  <2>1. PICK place : Lists(Todo, Len(outbox), place)
    BY TodoKeepsOrder
  <2>2. /\ Todo \in Seq(Keys) /\ Len(Todo) \in Nat /\ DOMAIN Todo = 1 .. Len(Todo)
        /\ DOMAIN outbox = 1 .. Len(outbox)
    BY <2>1, OutboxType DEF Lists
  <2>3. \A k \in DOMAIN Todo : /\ place[k] \in DOMAIN outbox /\ Is(outbox[place[k]], Todo[k])
    BY <2>1, <2>2 DEF Lists, Is, IsDue
  <2>4. ASSUME NEW k \in DOMAIN Todo, NEW l \in DOMAIN Todo, Todo[k] = Todo[l] PROVE k = l
    <3>1. place[k] = place[l]
      BY <2>3, <2>4 DEF LiveOnce, Is
    <3>2. /\ k < l => place[k] < place[l]
          /\ l < k => place[l] < place[k]
      BY <2>1, <2>2 DEF Lists
    <3>. QED BY <2>2, <2>3, <3>1, <3>2
  <2>5. sync'.step = "next" /\ sync'.todo = Todo /\ Todo # <<>> /\ ~sync'.more /\ outbox' = outbox
    BY <1>6 DEF StartSync, Idle
  <2>6. \A k \in DOMAIN Todo : Queued(Todo[k])
    BY <2>3 DEF Queued
  <2>7. \A k : Queued(k)' <=> Queued(k)
    BY <2>5 DEF Queued
  <2>8. LiveOnce'
    BY <2>5 DEF LiveOnce
  <2>. QED BY <2>4, <2>5, <2>6, <2>7, <2>8 DEF TodoQueued
<1>7. CASE Wait
  BY <1>0, <1>7, Touched, GoesOn DEF Wait
<1>8. CASE Dispatch
  <2>1. /\ sync.step # "idle" /\ outbox' = outbox
        /\ sync'.todo = sync.todo /\ sync'.step # "idle" /\ (sync'.more => sync.more \/ Record = Upload)
    BY <1>0, <1>8 DEF Dispatch, Executors
  <2>2. \A k : Queued(k)' <=> Queued(k)
    BY <2>1 DEF Queued
  <2>3. LiveOnce'
    BY <2>1 DEF LiveOnce
  <2>. QED BY <2>1, <2>2, <2>3 DEF TodoQueued, Record
<1>9. CASE ServerHandles
  <2>1. sync.step # "idle"
    BY <1>9 DEF ServerHandles
  <2>2. CASE Accepted(Record)
    <3>1. /\ outbox' = outbox
          /\ sync'.todo = sync.todo /\ sync'.step # "idle" /\ sync'.more = sync.more
      BY <1>0, <1>9, <2>2 DEF ServerHandles, Executors
    <3>2. \A k : Queued(k)' <=> Queued(k)
      BY <3>1 DEF Queued
    <3>3. LiveOnce'
      BY <3>1 DEF LiveOnce
    <3>. QED BY <2>1, <3>1, <3>2, <3>3 DEF TodoQueued, Record
  <2>3. CASE ~Accepted(Record)
    BY <1>0, <1>9, <2>1, <2>3, Refused, GoesOn DEF ServerHandles, Refuse
  <2>. QED BY <2>2, <2>3
<1>10. CASE ApplyAnswer
  <2>1. /\ sync.step # "idle" /\ outbox' = outbox
        /\ sync'.todo = sync.todo /\ sync'.step # "idle" /\ sync'.more = sync.more
    BY <1>0, <1>10 DEF ApplyAnswer, Executors
  <2>2. \A k : Queued(k)' <=> Queued(k)
    BY <2>1 DEF Queued
  <2>3. LiveOnce'
    BY <2>1 DEF LiveOnce
  <2>. QED BY <2>1, <2>2, <2>3 DEF TodoQueued, Record
<1>11. CASE Settle
  <2>1. sync.step # "idle" /\ sync' = Continue
    BY <1>11 DEF Settle
  <2>2. CASE sync.more
    BY <1>0, <1>11, <2>1, <2>2, Touched, GoesOn DEF Settle
  <2>3. CASE ~sync.more
    BY <1>0, <1>11, <2>1, <2>3, Removed, GoesOn DEF Settle
  <2>. QED BY <2>2, <2>3
<1>12. CASE CallFails
  <2>1. sync.step # "idle" /\ outbox' = Updated(Record, FALSE, FALSE)
    BY <1>12 DEF CallFails
  <2>2. LiveOnce' /\ \A k : Queued(k)' <=> Queued(k)
    BY <1>0, <2>1, Touched
  <2>3. CASE sync' = Continue
    BY <2>1, <2>2, <2>3, GoesOn
  <2>4. CASE sync' = Idle
    BY <2>2, <2>4 DEF TodoQueued, Idle
  <2>. QED BY <1>12, <2>2, <2>3, <2>4 DEF CallFails
<1>13. ASSUME NEW key \in Keys, RetryDue(key) PROVE TodoQueued' /\ LiveOnce'
  BY <1>1, <1>13, Touched DEF RetryDue
<1>14. CASE Close
  <2>1. sync' = Idle /\ outbox' = outbox
    BY <1>14 DEF Close
  <2>2. LiveOnce'
    BY <2>1 DEF LiveOnce
  <2>. QED BY <2>1, <2>2 DEF TodoQueued, Idle
<1>15. CASE UNCHANGED <<outbox, sync>>
  BY <1>1, <1>15 DEF Queued, LiveOnce
<1>. QED BY <1>2, <1>3, <1>4, <1>5, <1>6, <1>7, <1>8, <1>9, <1>10, <1>11, <1>12, <1>13, <1>14,
            <1>15 DEF Next, Executor, PullReads, PullStores, ChangeElsewhere, vars
-----------------------------------------------------------------------------

\* Without records there is nothing to do.
LEMMA NothingToDo ==
  ASSUME TypeOK, outbox = <<>>
  PROVE  Todo = <<>>
<1>1. PICK place : Lists(Todo, Len(outbox), place)
  BY TodoKeepsOrder
<1>2. Len(outbox) = 0 /\ Todo \in Seq(Keys) /\ Len(Todo) \in Nat
  BY <1>1 DEF Lists
<1>3. \A k \in 1 .. Len(Todo) : place[k] \in 1 .. 0
  BY <1>1, <1>2 DEF Lists
<1>. QED BY <1>2, <1>3, EmptySeq

LEMMA UnstartedStep ==
  ASSUME TypeOK, TodoQueued, LiveOnce, Unstarted, AnswerIsTrue, [Next]_vars
  PROVE  Unstarted'
<1>0. /\ journey \in [row : Row, known : BOOLEAN] /\ server.row \in Row
      /\ sync.todo = <<>> => sync.step = "idle"
  BY DEF TypeOK, TodoQueued
<1>. DEFINE Started == journey.row.status # "none"
<1>1. ASSUME Started', pull' = pull PROVE Unstarted'
  BY <1>1 DEF Unstarted
<1>2. CASE StartJourney
  BY <1>0, <1>1, <1>2 DEF StartJourney
<1>3. ASSUME NEW c \in Captures, CaptureChecks(c) PROVE Unstarted'
  BY <1>1, <1>3 DEF CaptureChecks
<1>4. ASSUME NEW c \in Captures, CaptureCommits(c) PROVE Unstarted'
  BY <1>1, <1>4 DEF CaptureCommits, Unstarted
<1>5. CASE FinishJourney
  <2>1. journey' = [journey EXCEPT !.row.status = "ended"] /\ pull' = pull
    BY <1>5 DEF FinishJourney
  <2>2. journey.row \in Row
    BY <1>0
  <2>3. journey'.row.status = "ended"
    BY <1>0, <2>1, <2>2 DEF Row
  <2>. QED BY <1>1, <2>1, <2>3
<1>6. CASE StartSync
  BY <1>1, <1>6, NothingToDo DEF StartSync, Unstarted, deviceVars
<1>7. ASSUME sync.step # "idle", journey' = journey, pull' = pull PROVE Unstarted'
  BY <1>0, <1>1, <1>7 DEF Unstarted
<1>8. CASE Wait \/ Dispatch \/ ServerHandles \/ Settle \/ CallFails
  BY <1>7, <1>8 DEF Wait, Dispatch, ServerHandles, Settle, CallFails, deviceVars
<1>9. CASE ApplyAnswer
  <2>1. Started
    BY <1>0, <1>9 DEF ApplyAnswer, Unstarted
  <2>2. Started' /\ pull' = pull
    BY <1>9, <2>1 DEF ApplyAnswer, AnswerIsTrue
  <2>. QED BY <1>1, <2>2
<1>10. ASSUME NEW key \in Keys, RetryDue(key) PROVE Unstarted'
  <2>1. outbox # <<>> /\ journey' = journey /\ pull' = pull
    BY <1>10 DEF RetryDue, deviceVars
  <2>. QED BY <1>1, <2>1 DEF Unstarted
<1>11. CASE Close
  BY <1>11 DEF Close, Unstarted, Idle
<1>12. CASE PullReads
  BY <1>12 DEF PullReads, Unstarted, deviceVars
<1>13. CASE PullStores
  <2>1. /\ pull' = NoRow /\ outbox' = outbox /\ sync' = sync /\ checked' = checked
        /\ pull.status # "none"
    BY <1>13 DEF PullStores, Unstarted
  <2>2. CASE journey' = journey
    BY <2>1, <2>2 DEF Unstarted
  <2>3. CASE journey' = [journey EXCEPT !.row = pull]
    BY <1>0, <2>1, <2>3 DEF Unstarted
  <2>. QED BY <1>13, <2>2, <2>3 DEF PullStores
<1>14. CASE ChangeElsewhere \/ UNCHANGED vars
  BY <1>14 DEF ChangeElsewhere, vars, deviceVars, Unstarted
<1>. QED BY <1>2, <1>3, <1>4, <1>5, <1>6, <1>8, <1>9, <1>10, <1>11, <1>12, <1>13, <1>14
         DEF Next, Executor

\* What is sent was captured.
LEMMA SentWasCaptured ==
  ASSUME TypeOK, TodoQueued, OnlyCaptures, sync.step # "idle"
  PROVE  \A c \in SentCaptures(Record) : c \in Captures /\ captured[c] # "none"
<1>1. ASSUME NEW p \in Pins, Record = RecordOf(p) PROVE captured[p] # "none"
  <2>1. HasRecord(p)
    BY <1>1, AtRecord DEF Queued, HasRecord, Is
  <2>. QED BY <2>1 DEF OnlyCaptures
<1>2. sync.batch \subseteq Points
  BY DEF TypeOK
<1>. QED BY <1>1, <1>2 DEF SentCaptures, Captures, OnlyCaptures

\* A capture is acknowledged after it was stored, and never again only local.
LEMMA CaptureStep ==
  ASSUME TypeOK, TodoQueued, OnlyCaptures, [Next]_vars
  PROVE  \A c \in Captures : /\ captured[c] # "none" => captured'[c] # "none"
                             /\ captured[c] = "synced" => captured'[c] = "synced"
<1>0. captured \in [Captures -> {"none", "local", "synced"}]
  BY DEF TypeOK
<1>1. ASSUME NEW c \in Captures, CaptureCommits(c)
      PROVE  captured[c] = "none" /\ captured' = [captured EXCEPT ![c] = "local"]
  BY <1>1 DEF CaptureCommits, OnlyCaptures
<1>2. CASE ApplyAnswer
  BY <1>0, <1>2 DEF ApplyAnswer
<1>. QED BY <1>0, <1>1, <1>2 DEF Next, Executor, StartJourney, FinishJourney, CaptureChecks, StartSync,
            Wait, Dispatch, ServerHandles, Settle, CallFails, RetryDue, Close, PullReads, PullStores,
            ChangeElsewhere, vars, deviceVars

\* A record of a pin is made when the pin is captured.
LEMMA NewRecord ==
  ASSUME TypeOK, TodoQueued, LiveOnce, [Next]_vars, NEW p \in Pins, HasRecord(p)'
  PROVE  HasRecord(p) \/ CaptureCommits(p)
<1>0. /\ sync.step # "idle" => Record \in Keys /\ Queued(Record)
      /\ RecordOf(p) # Create /\ RecordOf(p) # End
      /\ Create \in Keys /\ End \in Keys
  BY AtRecord, KeyFacts
<1>1. ASSUME outbox' = outbox PROVE HasRecord(p)
  BY <1>1 DEF HasRecord
<1>2. CASE StartJourney
  BY <1>0, <1>2, Enqueued DEF StartJourney
<1>3. ASSUME NEW c \in Captures, CaptureCommits(c) PROVE HasRecord(p) \/ CaptureCommits(p)
  <2>1. RecordOf(c) \in Keys
    BY KeyFacts
  <2>2. HasRecord(p) \/ RecordOf(p) = RecordOf(c)
    BY <1>3, <2>1, Enqueued DEF CaptureCommits
  <2>3. CASE c \in Pins
    BY <1>3, <2>2, <2>3, KeyFacts
  <2>4. CASE c \in Points
    BY <2>2, <2>4, KeyFacts
  <2>. QED BY <2>3, <2>4 DEF Captures
<1>4. CASE FinishJourney
  BY <1>0, <1>4, Enqueued DEF FinishJourney
<1>5. CASE Wait
  BY <1>0, <1>5, Touched DEF Wait
<1>6. CASE ServerHandles
  BY <1>0, <1>1, <1>6, Refused DEF ServerHandles, Refuse
<1>7. CASE Settle
  <2>1. Record \in Keys /\ Queued(Record)
    BY <1>0, <1>7 DEF Settle
  <2>2. outbox' = Updated(Record, TRUE, FALSE) \/ outbox' = Without(Record)
    BY <1>7 DEF Settle
  <2>. QED BY <2>1, <2>2, Touched, Removed
<1>8. CASE CallFails
  BY <1>0, <1>8, Touched DEF CallFails
<1>9. ASSUME NEW key \in Keys, RetryDue(key) PROVE HasRecord(p)
  BY <1>9, Touched DEF RetryDue
<1>. QED BY <1>1, <1>2, <1>3, <1>4, <1>5, <1>6, <1>7, <1>8, <1>9 DEF Next, Executor, CaptureChecks,
            StartSync, Dispatch, ApplyAnswer, Close, PullReads, PullStores, ChangeElsewhere, vars

LEMMA CapturesStep ==
  ASSUME TypeOK, TodoQueued, LiveOnce, OnlyCaptures, [Next]_vars
  PROVE  OnlyCaptures'
<1>0. /\ captured \in [Captures -> {"none", "local", "synced"}] /\ checked \subseteq Captures
      /\ sync \in Executors
      /\ sync.batch \subseteq Points /\ Points \subseteq Captures /\ Pins \subseteq Captures
  BY DEF TypeOK, Captures, Executors
<1>1. \A c \in Captures : captured'[c] = "none" => captured[c] = "none"
  BY CaptureStep
<1>2. \A p \in Pins : captured'[p] = "none" => ~HasRecord(p)'
  <2>. SUFFICES ASSUME NEW p \in Pins, HasRecord(p)' PROVE captured'[p] # "none"
    OBVIOUS
  <2>1. CASE HasRecord(p)
    BY <1>0, <1>1, <2>1 DEF OnlyCaptures
  <2>2. CASE CaptureCommits(p)
    BY <1>0, <2>2 DEF CaptureCommits
  <2>. QED BY <2>1, <2>2, NewRecord
<1>3. \A c \in checked' : captured'[c] = "none"
  <2>1. ASSUME checked' = checked, captured' = captured PROVE \A c \in checked' : captured'[c] = "none"
    BY <2>1 DEF OnlyCaptures
  <2>2. ASSUME NEW c \in Captures, CaptureChecks(c) PROVE \A d \in checked' : captured'[d] = "none"
    BY <2>2 DEF CaptureChecks, OnlyCaptures
  <2>3. ASSUME NEW c \in Captures, CaptureCommits(c) PROVE \A d \in checked' : captured'[d] = "none"
    BY <1>0, <2>3 DEF CaptureCommits, OnlyCaptures
  <2>4. CASE ApplyAnswer
    <3>1. \A c \in SentCaptures(Record) : captured[c] # "none"
      BY <2>4, SentWasCaptured DEF ApplyAnswer
    <3>. QED BY <1>0, <2>4, <3>1 DEF ApplyAnswer, OnlyCaptures
  <2>5. CASE Close
    BY <2>5 DEF Close
  <2>. QED BY <2>1, <2>2, <2>3, <2>4, <2>5 DEF Next, Executor, StartJourney, FinishJourney,
              StartSync, Wait, Dispatch, ServerHandles, Settle, CallFails, RetryDue, PullReads,
              PullStores, ChangeElsewhere, vars, deviceVars
<1>4. \A s \in sync'.batch : captured'[s] # "none"
  <2>1. ASSUME sync'.batch \subseteq sync.batch \cup Batch PROVE \A s \in sync'.batch : captured'[s] # "none"
    <3>1. \A s \in Batch : s \in Points /\ captured[s] = "local"
      BY DEF Batch, NewSamples
    <3>. QED BY <1>0, <1>1, <2>1, <3>1 DEF OnlyCaptures
  <2>2. CASE sync' = sync
    BY <2>1, <2>2
  <2>3. Idle.batch = {}
    BY DEF Idle
  <2>4. ASSUME sync.step # "idle" PROVE Continue.batch = {}
    BY <2>4, AtRecord, ContinueIs
  <2>5. CASE StartSync
    BY <2>1, <2>5 DEF StartSync, Idle
  <2>6. CASE Wait \/ Settle \/ CallFails
    BY <2>1, <2>3, <2>4, <2>6 DEF Wait, Settle, CallFails
  <2>7. CASE Dispatch
    <3>1. sync'.batch = sync.batch \/ sync'.batch = Batch
      BY <1>0, <2>7 DEF Dispatch, Executors
    <3>. QED BY <2>1, <3>1
  <2>8. CASE ServerHandles
    <3>1. sync'.batch = sync.batch \/ sync'.batch = {}
      BY <1>0, <2>4, <2>8 DEF ServerHandles, Executors
    <3>. QED BY <2>1, <3>1
  <2>9. CASE ApplyAnswer
    <3>1. sync'.batch = {}
      BY <1>0, <2>9 DEF ApplyAnswer, Executors
    <3>. QED BY <2>1, <3>1
  <2>10. CASE Close
    BY <2>1, <2>3, <2>10 DEF Close
  <2>. QED BY <2>2, <2>5, <2>6, <2>7, <2>8, <2>9, <2>10 DEF Next, Executor, StartJourney, FinishJourney,
              CaptureChecks, CaptureCommits, RetryDue, PullReads, PullStores, ChangeElsewhere, vars
<1>. QED BY <1>2, <1>3, <1>4 DEF OnlyCaptures
-----------------------------------------------------------------------------

\* The server forgets neither the journey nor a capture.
LEMMA ServerStep ==
  ASSUME TypeOK, [Next]_vars
  PROVE  /\ server.stored \subseteq server'.stored
         /\ server.row.status # "none" => server'.row.status # "none"
<1>0. server \in [row : Row, stored : SUBSET Captures, otherActive : BOOLEAN]
  BY DEF TypeOK
<1>1. CASE server' = server
  BY <1>1
<1>2. CASE ServerHandles /\ Accepted(Record)
  <2>1. server' = [server EXCEPT !.row = RowAfter(Record), !.stored = @ \cup SentCaptures(Record)]
    BY <1>2 DEF ServerHandles
  <2>2. server.row.status # "none" => RowAfter(Record).status # "none"
    BY DEF RowAfter
  <2>. QED BY <1>0, <2>1, <2>2
<1>3. CASE ChangeElsewhere
  BY <1>0, <1>3 DEF ChangeElsewhere
<1>. QED BY <1>1, <1>2, <1>3 DEF Next, Executor, StartJourney, FinishJourney, CaptureChecks,
            CaptureCommits, StartSync, Wait, Dispatch, ServerHandles, ApplyAnswer, Settle, CallFails,
            RetryDue, Close, PullReads, PullStores, vars

\* The executor is done with a record, or was closed.
LEMMA NotAnswered ==
  ASSUME TypeOK, TodoQueued
  PROVE  /\ Idle.step = "idle"
         /\ sync.step # "idle" => Continue.step \in {"idle", "next"}
<1>1. ASSUME sync.step # "idle" PROVE Continue.step \in {"idle", "next"}
  BY <1>1, AtRecord, ContinueIs
<1>. QED BY <1>1 DEF Idle

LEMMA AnswerStep ==
  ASSUME TypeOK, TodoQueued, OnlyCaptures, AnswerIsTrue, [Next]_vars
  PROVE  AnswerIsTrue'
<1>0. /\ server \in [row : Row, stored : SUBSET Captures, otherActive : BOOLEAN]
      /\ sync \in Executors
      /\ captured \in [Captures -> {"none", "local", "synced"}]
      /\ Pins \subseteq Captures
  BY DEF TypeOK, Executors, Captures
<1>1. CASE sync' = sync
  <2>1. /\ server.stored \subseteq server'.stored
        /\ server.row.status # "none" => server'.row.status # "none"
        /\ \A p \in Pins : captured[p] = "synced" => captured'[p] = "synced"
    BY <1>0, ServerStep, CaptureStep
  <2>2. Record' = Record /\ SentCaptures(Record)' = SentCaptures(Record)
    BY <1>1 DEF Record, SentCaptures
  <2>. QED BY <1>1, <2>1, <2>2 DEF AnswerIsTrue
<1>2. ASSUME sync'.step \notin {"accepted", "applied"} PROVE AnswerIsTrue'
  BY <1>2 DEF AnswerIsTrue
<1>3. CASE Dispatch
  <2>1. /\ sync'.step = "sent" \/ (sync'.step = "applied" /\ Record = Upload)
        /\ sync'.todo = sync.todo
    BY <1>0, <1>3 DEF Dispatch, Executors
  <2>2. Record' = Record
    BY <2>1 DEF Record
  <2>. QED BY <2>1, <2>2, KeyFacts DEF AnswerIsTrue
<1>4. CASE ServerHandles
  <2>1. CASE Accepted(Record)
    <3>1. /\ server' = [server EXCEPT !.row = RowAfter(Record), !.stored = @ \cup SentCaptures(Record)]
          /\ sync' = [sync EXCEPT !.step = "accepted", !.version = 0,
                        !.answer = IF Record \in {Create, End} THEN RowAfter(Record) ELSE NoRow]
      BY <1>4, <2>1 DEF ServerHandles
    <3>2. /\ sync'.step = "accepted" /\ sync'.todo = sync.todo /\ sync'.batch = sync.batch
          /\ Record \in {Create, End} => sync'.answer = RowAfter(Record)
          /\ server'.row = RowAfter(Record) /\ SentCaptures(Record) \subseteq server'.stored
      BY <1>0, <3>1 DEF Executors
    <3>3. Record' = Record /\ SentCaptures(Record)' = SentCaptures(Record)
      BY <3>2 DEF Record, SentCaptures
    <3>4. Record \in {Create, End} => RowAfter(Record).status # "none"
      <4>1. Record = End => RowAfter(Record).status = "ended"
        BY KeyFacts DEF RowAfter
      <4>2. Record = Create => RowAfter(Record).status # "none"
        BY KeyFacts DEF RowAfter
      <4>. QED BY <4>1, <4>2
    <3>. QED BY <3>2, <3>3, <3>4 DEF AnswerIsTrue
  <2>2. CASE ~Accepted(Record)
    BY <1>2, <1>4, <2>2, NotAnswered DEF ServerHandles
  <2>. QED BY <2>1, <2>2
<1>5. CASE ApplyAnswer
  <2>1. sync'.step = "applied" /\ sync'.todo = sync.todo
    BY <1>0, <1>5 DEF ApplyAnswer, Executors
  <2>2. Record' = Record
    BY <2>1 DEF Record
  <2>3. ASSUME NEW p \in Pins, Record = RecordOf(p) PROVE captured'[p] = "synced"
    <3>1. p \in SentCaptures(Record)
      BY <2>3, KeyFacts DEF SentCaptures
    <3>. QED BY <1>0, <1>5, <3>1 DEF ApplyAnswer
  <2>. QED BY <2>1, <2>2, <2>3 DEF AnswerIsTrue
<1>6. CASE StartSync
  BY <1>2, <1>6 DEF StartSync, Idle
<1>7. CASE Wait \/ Settle \/ CallFails \/ Close
  BY <1>2, <1>7, NotAnswered DEF Wait, Settle, CallFails, Close
<1>. QED BY <1>1, <1>3, <1>4, <1>5, <1>6, <1>7 DEF Next, Executor, StartJourney, FinishJourney,
            CaptureChecks, CaptureCommits, RetryDue, PullReads, PullStores, ChangeElsewhere, vars

\* The device learns the server id from the answer to the creation and keeps it.
LEMMA KnownStep ==
  ASSUME TypeOK, Acknowledged, [Next]_vars
  PROVE  /\ journey.known => journey'.known
         /\ journey'.known => journey.known \/ (ApplyAnswer /\ Record = Create)
         /\ ApplyAnswer => journey'.known
<1>0. journey \in [row : Row, known : BOOLEAN]
  BY DEF TypeOK
<1>1. ASSUME journey'.known = journey.known, ~ApplyAnswer
      PROVE  /\ journey.known => journey'.known
             /\ journey'.known => journey.known
             /\ ApplyAnswer => journey'.known
  BY <1>1
<1>2. CASE ApplyAnswer
  <2>1. journey' = IF Record \in {Create, End} THEN [row |-> sync.answer, known |-> TRUE] ELSE journey
    BY <1>2 DEF ApplyAnswer
  <2>2. Record = Create \/ journey.known
    BY <1>2 DEF ApplyAnswer, Acknowledged
  <2>3. journey'.known
    BY <2>1, <2>2
  <2>. QED BY <1>2, <2>2, <2>3
<1>3. CASE StartJourney
  <2>1. journey'.known = journey.known
    BY <1>0, <1>3 DEF StartJourney
  <2>. QED BY <1>1, <1>2, <2>1
<1>4. CASE FinishJourney
  <2>1. journey'.known = journey.known
    BY <1>0, <1>4 DEF FinishJourney
  <2>. QED BY <1>1, <1>2, <2>1
<1>5. CASE PullStores
  <2>1. journey'.known = journey.known
    BY <1>0, <1>5 DEF PullStores
  <2>. QED BY <1>1, <1>2, <2>1
<1>6. CASE journey' = journey
  BY <1>2, <1>6
<1>. QED BY <1>2, <1>3, <1>4, <1>5, <1>6 DEF Next, Executor, CaptureChecks, CaptureCommits, StartSync,
            Wait, Dispatch, ServerHandles, Settle, CallFails, RetryDue, Close, PullReads,
            ChangeElsewhere, vars, deviceVars

LEMMA AcknowledgedStep ==
  ASSUME TypeOK, TodoQueued, AnswerIsTrue, Acknowledged, [Next]_vars
  PROVE  Acknowledged'
<1>0. sync \in Executors
  BY DEF TypeOK, Executors
<1>1. journey'.known => server'.row.status # "none"
  <2>1. journey'.known => server.row.status # "none"
    BY KnownStep DEF Acknowledged, ApplyAnswer, AnswerIsTrue
  <2>. QED BY <2>1, ServerStep
<1>. DEFINE Sent == sync.step \in {"sent", "accepted", "applied"} => Record = Create \/ journey.known
            Applied == sync.step = "applied" => journey.known
<1>2. SUFFICES Sent' /\ Applied'
  BY <1>1 DEF Acknowledged
<1>3. CASE sync' = sync
  BY <1>3, KnownStep DEF Acknowledged, Record
<1>4. ASSUME sync'.step \in {"idle", "next"} PROVE Sent' /\ Applied'
  BY <1>4
<1>5. CASE Dispatch
  <2>1. /\ sync'.step = "sent" \/ (sync'.step = "applied" /\ Record = Upload)
        /\ sync'.todo = sync.todo
    BY <1>0, <1>5 DEF Dispatch, Executors
  <2>2. Record' = Record
    BY <2>1 DEF Record
  <2>3. Record = Create \/ journey.known
    BY <1>5 DEF Dispatch, MissingDependency
  <2>. QED BY <2>1, <2>2, <2>3, KeyFacts, KnownStep
<1>6. CASE ServerHandles
  <2>1. CASE Accepted(Record)
    <3>1. sync'.step = "accepted" /\ sync'.todo = sync.todo
      BY <1>0, <1>6, <2>1 DEF ServerHandles, Executors
    <3>2. Record' = Record
      BY <3>1 DEF Record
    <3>3. Record = Create \/ journey.known
      BY <1>6 DEF ServerHandles, Acknowledged
    <3>. QED BY <3>1, <3>2, <3>3, KnownStep
  <2>2. CASE ~Accepted(Record)
    BY <1>4, <1>6, <2>2, NotAnswered DEF ServerHandles
  <2>. QED BY <2>1, <2>2
<1>7. CASE ApplyAnswer
  BY <1>7, KnownStep
<1>8. CASE StartSync
  BY <1>4, <1>8 DEF StartSync, Idle
<1>9. CASE Wait \/ Settle \/ CallFails \/ Close
  BY <1>4, <1>9, NotAnswered DEF Wait, Settle, CallFails, Close
<1>. QED BY <1>3, <1>5, <1>6, <1>7, <1>8, <1>9 DEF Next, Executor, StartJourney, FinishJourney,
            CaptureChecks, CaptureCommits, RetryDue, PullReads, PullStores, ChangeElsewhere, vars
-----------------------------------------------------------------------------

\* A record is deleted when it is settled, and otherwise stays.
LEMMA RecordStays ==
  ASSUME TypeOK, TodoQueued, LiveOnce, [Next]_vars, NEW p \in Pins, HasRecord(p)
  PROVE  HasRecord(p)' \/ (Settle /\ Record = RecordOf(p))
<1>0. /\ sync.step # "idle" => Record \in Keys /\ Queued(Record)
      /\ Create \in Keys /\ End \in Keys
  BY AtRecord, KeyFacts
<1>1. ASSUME outbox' = outbox PROVE HasRecord(p)'
  BY <1>1 DEF HasRecord
<1>2. CASE StartJourney
  BY <1>0, <1>2, Enqueued DEF StartJourney
<1>3. ASSUME NEW c \in Captures, CaptureCommits(c) PROVE HasRecord(p)'
  BY <1>3, KeyFacts, Enqueued DEF CaptureCommits
<1>4. CASE FinishJourney
  BY <1>0, <1>4, Enqueued DEF FinishJourney
<1>5. CASE Wait
  BY <1>0, <1>5, Touched DEF Wait
<1>6. CASE ServerHandles
  BY <1>0, <1>1, <1>6, Refused DEF ServerHandles, Refuse
<1>7. CASE Settle
  <2>1. Record \in Keys /\ Queued(Record)
    BY <1>0, <1>7 DEF Settle
  <2>2. outbox' = Updated(Record, TRUE, FALSE) \/ outbox' = Without(Record)
    BY <1>7 DEF Settle
  <2>. QED BY <1>7, <2>1, <2>2, Touched, Removed
<1>8. CASE CallFails
  BY <1>0, <1>8, Touched DEF CallFails
<1>9. ASSUME NEW key \in Keys, RetryDue(key) PROVE HasRecord(p)'
  BY <1>9, Touched DEF RetryDue
<1>. QED BY <1>1, <1>2, <1>3, <1>4, <1>5, <1>6, <1>7, <1>8, <1>9 DEF Next, Executor, CaptureChecks,
            StartSync, Dispatch, ApplyAnswer, Close, PullReads, PullStores, ChangeElsewhere, vars

\* A pin becomes local when it is captured, and synced from a stored answer.
LEMMA WhereFrom ==
  ASSUME TypeOK, TodoQueued, OnlyCaptures, [Next]_vars, NEW c \in Captures
  PROVE  /\ captured'[c] = "local" => captured[c] = "local" \/ CaptureCommits(c)
         /\ captured'[c] = "synced" => captured[c] = "synced" \/ (ApplyAnswer /\ c \in SentCaptures(Record))
<1>0. captured \in [Captures -> {"none", "local", "synced"}]
  BY DEF TypeOK
<1>1. ASSUME NEW d \in Captures, CaptureCommits(d)
      PROVE  captured'[c] = IF c = d THEN "local" ELSE captured[c]
  BY <1>0, <1>1 DEF CaptureCommits
<1>2. CASE ApplyAnswer
  BY <1>0, <1>2 DEF ApplyAnswer
<1>. QED BY <1>0, <1>1, <1>2 DEF Next, Executor, StartJourney, FinishJourney, CaptureChecks, StartSync,
            Wait, Dispatch, ServerHandles, Settle, CallFails, RetryDue, Close, PullReads, PullStores,
            ChangeElsewhere, vars, deviceVars

LEMMA PinStep ==
  ASSUME TypeOK, TodoQueued, LiveOnce, OnlyCaptures, AnswerIsTrue, PinHasRecord, [Next]_vars
  PROVE  PinHasRecord'
<1>. SUFFICES ASSUME NEW p \in Pins, captured'[p] = "local"
              PROVE  HasRecord(p)'
  BY DEF PinHasRecord
<1>1. p \in Captures
  BY DEF Captures
<1>2. CASE CaptureCommits(p)
  BY <1>1, <1>2, KeyFacts, Enqueued DEF CaptureCommits
<1>3. CASE captured[p] = "local"
  <2>1. HasRecord(p)
    BY <1>3 DEF PinHasRecord
  <2>2. ~(Settle /\ Record = RecordOf(p))
    BY <1>3 DEF Settle, AnswerIsTrue
  <2>. QED BY <2>1, <2>2, RecordStays
<1>. QED BY <1>1, <1>2, <1>3, WhereFrom

LEMMA SyncedStep ==
  ASSUME TypeOK, TodoQueued, OnlyCaptures, AnswerIsTrue, SyncedIsStored, [Next]_vars
  PROVE  SyncedIsStored'
<1>. SUFFICES ASSUME NEW c \in Captures, captured'[c] = "synced"
              PROVE  c \in server'.stored
  BY DEF SyncedIsStored
<1>1. c \in server.stored
  BY WhereFrom DEF SyncedIsStored, AnswerIsTrue, ApplyAnswer
<1>. QED BY <1>1, ServerStep
-----------------------------------------------------------------------------

\* No step reorders the outbox, and a refused creation stays refused.
LEMMA OrderStep ==
  ASSUME TypeOK, TodoQueued, LiveOnce, [Next]_vars
  PROVE  OrderKept /\ (Doomed => Doomed')
<1>0. /\ sync.step # "idle" => Record \in Keys /\ Queued(Record)
      /\ Create \in Keys /\ End \in Keys
      /\ \A c \in Captures : RecordOf(c) \in Keys
  BY AtRecord, KeyFacts
<1>1. ASSUME outbox' = outbox PROVE OrderKept /\ (Doomed => Doomed')
  BY <1>1 DEF OrderKept, Doomed
<1>2. CASE StartJourney
  BY <1>0, <1>2, Enqueued DEF StartJourney
<1>3. ASSUME NEW c \in Captures, CaptureCommits(c) PROVE OrderKept /\ (Doomed => Doomed')
  BY <1>0, <1>3, Enqueued DEF CaptureCommits
<1>4. CASE FinishJourney
  BY <1>0, <1>4, Enqueued DEF FinishJourney
<1>5. CASE Wait
  BY <1>0, <1>5, Touched DEF Wait
<1>6. CASE ServerHandles
  BY <1>0, <1>1, <1>6, Refused DEF ServerHandles, Refuse
<1>7. CASE Settle
  <2>1. Record \in Keys /\ Queued(Record)
    BY <1>0, <1>7 DEF Settle
  <2>2. outbox' = Updated(Record, TRUE, FALSE) \/ outbox' = Without(Record)
    BY <1>7 DEF Settle
  <2>. QED BY <2>1, <2>2, Touched, Removed
<1>8. CASE CallFails
  BY <1>0, <1>8, Touched DEF CallFails
<1>9. ASSUME NEW key \in Keys, RetryDue(key) PROVE OrderKept /\ (Doomed => Doomed')
  BY <1>9, Touched DEF RetryDue
<1>. QED BY <1>1, <1>2, <1>3, <1>4, <1>5, <1>6, <1>7, <1>8, <1>9 DEF Next, Executor, CaptureChecks,
            StartSync, Dispatch, ApplyAnswer, Close, PullReads, PullStores, ChangeElsewhere, vars

\* A creation is refused by the server, or was before.
LEMMA WhoDooms ==
  ASSUME TypeOK, TodoQueued, LiveOnce, [Next]_vars, Doomed'
  PROVE  Doomed \/ (ServerHandles /\ ~Accepted(Record) /\ Record = Create)
<1>0. /\ sync.step # "idle" => Record \in Keys /\ Queued(Record)
      /\ Create \in Keys /\ End \in Keys
      /\ \A c \in Captures : RecordOf(c) \in Keys
  BY AtRecord, KeyFacts
<1>1. ASSUME outbox' = outbox PROVE Doomed
  BY <1>1 DEF Doomed
<1>2. CASE StartJourney
  BY <1>0, <1>2, Enqueued DEF StartJourney
<1>3. ASSUME NEW c \in Captures, CaptureCommits(c) PROVE Doomed
  BY <1>0, <1>3, Enqueued DEF CaptureCommits
<1>4. CASE FinishJourney
  BY <1>0, <1>4, Enqueued DEF FinishJourney
<1>5. CASE Wait
  BY <1>0, <1>5, Touched DEF Wait
<1>6. CASE ServerHandles
  BY <1>0, <1>1, <1>6, Refused DEF ServerHandles, Refuse
<1>7. CASE Settle
  <2>1. Record \in Keys /\ Queued(Record)
    BY <1>0, <1>7 DEF Settle
  <2>2. outbox' = Updated(Record, TRUE, FALSE) \/ outbox' = Without(Record)
    BY <1>7 DEF Settle
  <2>. QED BY <2>1, <2>2, Touched, Removed
<1>8. CASE CallFails
  BY <1>0, <1>8, Touched DEF CallFails
<1>9. ASSUME NEW key \in Keys, RetryDue(key) PROVE Doomed
  BY <1>9, Touched DEF RetryDue
<1>. QED BY <1>1, <1>2, <1>3, <1>4, <1>5, <1>6, <1>7, <1>8, <1>9 DEF Next, Executor, CaptureChecks,
            StartSync, Dispatch, ApplyAnswer, Close, PullReads, PullStores, ChangeElsewhere, vars

\* The creation is queued when the journey is started, and never again.
LEMMA WhoCreates ==
  ASSUME TypeOK, TodoQueued, LiveOnce, [Next]_vars, Queued(Create)'
  PROVE  Queued(Create) \/ StartJourney
<1>0. /\ sync.step # "idle" => Record \in Keys /\ Queued(Record)
      /\ Create \in Keys /\ End \in Keys /\ Create # End
      /\ \A c \in Captures : RecordOf(c) \in Keys
  BY AtRecord, KeyFacts
<1>1. ASSUME outbox' = outbox PROVE Queued(Create)
  BY <1>1 DEF Queued
<1>3. ASSUME NEW c \in Captures, CaptureCommits(c) PROVE Queued(Create)
  <2>1. RecordOf(c) # Create
    BY KeyFacts DEF Captures
  <2>. QED BY <1>0, <1>3, <2>1, Enqueued DEF CaptureCommits
<1>4. CASE FinishJourney
  BY <1>0, <1>4, Enqueued DEF FinishJourney
<1>5. CASE Wait
  BY <1>0, <1>5, Touched DEF Wait
<1>6. CASE ServerHandles
  BY <1>0, <1>1, <1>6, Refused DEF ServerHandles, Refuse
<1>7. CASE Settle
  <2>1. Record \in Keys /\ Queued(Record)
    BY <1>0, <1>7 DEF Settle
  <2>2. outbox' = Updated(Record, TRUE, FALSE) \/ outbox' = Without(Record)
    BY <1>7 DEF Settle
  <2>. QED BY <2>1, <2>2, Touched, Removed
<1>8. CASE CallFails
  BY <1>0, <1>8, Touched DEF CallFails
<1>9. ASSUME NEW key \in Keys, RetryDue(key) PROVE Queued(Create)
  BY <1>9, Touched DEF RetryDue
<1>. QED BY <1>1, <1>3, <1>4, <1>5, <1>6, <1>7, <1>8, <1>9 DEF Next, Executor, CaptureChecks,
            StartSync, Dispatch, ApplyAnswer, Close, PullReads, PullStores, ChangeElsewhere, vars

LEMMA DoomedStep ==
  ASSUME Safe, DoomedIsUnknown, [Next]_vars
  PROVE  DoomedIsUnknown'
<1>0. TypeOK /\ TodoQueued /\ LiveOnce /\ Acknowledged
  BY DEF Safe
<1>. SUFFICES ASSUME Doomed' PROVE ~journey'.known /\ ~Queued(Create)'
  BY DEF DoomedIsUnknown
<1>1. CASE Doomed
  <2>1. ~journey.known /\ ~Queued(Create)
    BY <1>1 DEF DoomedIsUnknown
  <2>2. ~(ApplyAnswer /\ Record = Create)
    BY <1>0, <2>1, AtRecord DEF ApplyAnswer
  <2>3. ~StartJourney
    <3>1. outbox # <<>>
      <4>1. DOMAIN <<>> = {}
        OBVIOUS
      <4>. QED BY <1>1, <4>1 DEF Doomed
    <3>. QED BY <3>1 DEF StartJourney, Safe, Unstarted
  <2>. QED BY <1>0, <2>1, <2>2, <2>3, KnownStep, WhoCreates
<1>2. CASE ServerHandles /\ ~Accepted(Record) /\ Record = Create
  <2>1. journey' = journey /\ outbox' = Updated(Create, FALSE, TRUE) /\ sync.step # "idle"
    BY <1>2 DEF ServerHandles, Refuse, deviceVars
  <2>2. ~Queued(Create)'
    BY <1>0, <1>2, <2>1, AtRecord, Refused
  <2>3. server.row.status = "none"
    BY <1>2, KeyFacts DEF Accepted
  <2>. QED BY <1>0, <2>1, <2>2, <2>3 DEF Acknowledged
<1>. QED BY <1>0, <1>1, <1>2, WhoDooms

LEMMA FaultsGrow ==
  ASSUME TypeOK, [Next]_vars, faults' = 0
  PROVE  faults = 0 /\ ~CallFails /\ ~Close
<1>1. faults \in Nat /\ faults + 1 # 0
  BY DEF TypeOK
<1>. QED BY <1>1 DEF Next, Executor, StartJourney, FinishJourney, CaptureChecks,
            CaptureCommits, StartSync, Wait, Dispatch, ServerHandles, ApplyAnswer, Settle, CallFails,
            RetryDue, Close, PullReads, PullStores, ChangeElsewhere, vars

\* Then everything is due, and the creation is the first to be done.
LEMMA StartsFirst ==
  ASSUME TypeOK, TodoQueued, LiveOnce, AllDue, StartsWithCreate
  PROVE  Todo # <<>> => Todo[1] = Create
<1>1. PICK place : Lists(Todo, Len(outbox), place)
  BY TodoKeepsOrder
<1>2. /\ Todo \in Seq(Keys) /\ Len(Todo) \in Nat
      /\ outbox \in Seq(Records) /\ Len(outbox) \in Nat /\ DOMAIN outbox = 1 .. Len(outbox)
  BY <1>1, OutboxType DEF Lists
<1>3. 1 \in 1 .. Len(outbox) /\ IsDue(1) /\ outbox[1].key = Create
  <2>1. 1 \in 1 .. Len(outbox)
    BY <1>2, EmptySeq DEF StartsWithCreate
  <2>. QED BY <1>2, <2>1 DEF StartsWithCreate, AllDue, IsDue, Is
<1>4. PICK k \in 1 .. Len(Todo) : place[k] = 1
  BY <1>1, <1>3 DEF Lists
<1>5. 1 \in 1 .. Len(Todo)
  BY <1>2, <1>4
<1>6. place[1] \in 1 .. Len(outbox) /\ (1 < k => place[1] < place[k])
  BY <1>1, <1>4, <1>5 DEF Lists
<1>7. k = 1
  BY <1>2, <1>4, <1>6
<1>. QED BY <1>1, <1>3, <1>4, <1>5, <1>7 DEF Lists

\* Without failures nothing waits: what is due stays due, and the creation is
\* sent before anything else.
LEMMA CreationStep ==
  ASSUME Safe, DoomedIsUnknown, CreationFirst, [Next]_vars
  PROVE  CreationFirst'
<1>0. TypeOK /\ Unstarted /\ TodoQueued /\ LiveOnce /\ Acknowledged /\ AnswerIsTrue
  BY DEF Safe
<1>. DEFINE First == ~journey.known /\ journey.row.status # "none" => StartsWithCreate
            Begins == ~journey.known /\ sync.todo # <<>> => Record = Create
<1>. SUFFICES ASSUME faults' = 0, ~Doomed' PROVE AllDue' /\ First' /\ Begins'
  BY DEF CreationFirst, AllDue, StartsWithCreate
<1>1. faults = 0 /\ ~CallFails /\ ~Close /\ ~Doomed
  BY <1>0, FaultsGrow, OrderStep
<1>2. AllDue /\ First /\ Begins
  BY <1>1 DEF CreationFirst, AllDue, StartsWithCreate
<1>3. /\ sync.step # "idle" => Record \in Keys /\ Queued(Record) /\ sync.todo # <<>>
      /\ Create \in Keys /\ End \in Keys /\ Create # End
      /\ \A c \in Captures : RecordOf(c) \in Keys
      /\ journey \in [row : Row, known : BOOLEAN]
  BY <1>0, AtRecord, KeyFacts DEF TypeOK
<1>4. ASSUME UNCHANGED <<outbox, journey, sync>> PROVE AllDue' /\ First' /\ Begins'
  BY <1>2, <1>4 DEF AllDue, StartsWithCreate, Record
<1>5. CASE StartJourney
  <2>1. outbox = <<>> /\ sync' = sync /\ sync.todo = <<>> /\ Enqueue(Create)
    BY <1>0, <1>5 DEF StartJourney, Unstarted
  <2>2. AllDue'
    BY <1>0, <1>2, <1>3, <2>1, Enqueued
  <2>3. outbox' = Append(<<>>, [key |-> Create, due |-> TRUE, permanent |-> FALSE])
    <3>1. DOMAIN <<>> = {}
      OBVIOUS
    <3>2. ~Queued(Create)
      BY <2>1, <3>1 DEF Queued
    <3>. QED BY <2>1, <3>2 DEF Enqueue
  <2>4. Len(outbox') = 1 /\ outbox'[1] = [key |-> Create, due |-> TRUE, permanent |-> FALSE]
    BY <2>3
  <2>5. StartsWithCreate'
    BY <2>4, EmptySeq DEF StartsWithCreate, Is
  <2>. QED BY <2>1, <2>2, <2>5
<1>6. ASSUME NEW c \in Captures, CaptureCommits(c) PROVE AllDue' /\ First' /\ Begins'
  BY <1>0, <1>2, <1>3, <1>6, Enqueued DEF CaptureCommits, Record
<1>7. CASE FinishJourney
  <2>1. /\ journey'.known = journey.known /\ journey.row.status # "none"
        /\ sync' = sync /\ Enqueue(End)
    BY <1>3, <1>7 DEF FinishJourney
  <2>. QED BY <1>0, <1>2, <1>3, <2>1, Enqueued DEF Record
<1>8. CASE StartSync
  <2>1. outbox' = outbox /\ journey' = journey /\ sync'.todo = Todo /\ Todo # <<>>
    BY <1>8 DEF StartSync, deviceVars, Idle
  <2>2. AllDue' /\ First'
    BY <1>2, <2>1 DEF AllDue, StartsWithCreate
  <2>3. ~journey.known => Todo[1] = Create
    <3>1. outbox # <<>>
      BY <1>0, <2>1, NothingToDo
    <3>2. journey.row.status # "none"
      BY <1>0, <3>1 DEF Unstarted
    <3>. QED BY <1>0, <1>2, <2>1, <3>2, StartsFirst
  <2>4. Record' = Todo[1]
    BY <2>1 DEF Record
  <2>. QED BY <2>1, <2>2, <2>3, <2>4
<1>9. ~Wait
  BY <1>2, <1>3 DEF Wait, MissingDependency
<1>10. CASE Dispatch
  <2>1. outbox' = outbox /\ journey' = journey /\ sync'.todo = sync.todo
    BY <1>0, <1>10 DEF Dispatch, deviceVars, TypeOK
  <2>. QED BY <1>2, <2>1 DEF AllDue, StartsWithCreate, Record
<1>11. CASE ServerHandles
  <2>1. CASE Accepted(Record)
    <3>1. outbox' = outbox /\ journey' = journey /\ sync'.todo = sync.todo
      BY <1>0, <1>11, <2>1 DEF ServerHandles, deviceVars, TypeOK
    <3>. QED BY <1>2, <3>1 DEF AllDue, StartsWithCreate, Record
  <2>2. CASE ~Accepted(Record)
    <3>1. /\ outbox' = Updated(Record, FALSE, TRUE) /\ journey' = journey
          /\ Record \in Keys /\ Queued(Record) /\ sync.todo # <<>>
      BY <1>3, <1>11, <2>2 DEF ServerHandles, deviceVars, Refuse
    <3>2. Record # Create
      BY <1>0, <3>1, Refused
    <3>3. journey.known
      BY <1>2, <3>1, <3>2
    <3>4. AllDue'
      BY <1>0, <1>2, <3>1, Refused
    <3>. QED BY <3>1, <3>3, <3>4
  <2>. QED BY <2>1, <2>2
<1>12. CASE ApplyAnswer
  <2>1. journey'.known /\ outbox' = outbox
    BY <1>0, <1>12, KnownStep DEF ApplyAnswer
  <2>. QED BY <1>2, <2>1 DEF AllDue
<1>13. CASE Settle
  <2>1. /\ Record \in Keys /\ Queued(Record) /\ journey.known /\ journey' = journey
        /\ outbox' = Updated(Record, TRUE, FALSE) \/ outbox' = Without(Record)
    BY <1>0, <1>3, <1>13 DEF Settle, Acknowledged, deviceVars
  <2>2. AllDue'
    BY <1>0, <1>2, <2>1, Touched, Removed
  <2>. QED BY <2>1, <2>2
<1>14. ASSUME NEW key \in Keys, RetryDue(key) PROVE AllDue' /\ First' /\ Begins'
  BY <1>0, <1>2, <1>14, Touched DEF RetryDue, deviceVars, Record
<1>15. CASE PullStores
  <2>1. /\ outbox' = outbox /\ sync' = sync
        /\ journey' = journey \/ (journey.known /\ journey'.known)
    BY <1>3, <1>15 DEF PullStores
  <2>. QED BY <1>2, <2>1 DEF AllDue, StartsWithCreate, Record
<1>. QED BY <1>1, <1>4, <1>5, <1>6, <1>7, <1>8, <1>9, <1>10, <1>11, <1>12, <1>13, <1>14, <1>15
         DEF Next, Executor, CaptureChecks, PullReads, ChangeElsewhere, vars, deviceVars

\* The list is taken from the outbox as it is.
LEMMA EndIsListedLast ==
  ASSUME TypeOK, LiveOnce, AllDue,
         NEW i \in DOMAIN outbox, NEW j \in DOMAIN outbox, NEW k \in DOMAIN Todo,
         Is(outbox[j], End), i < j, Todo[k] = End, ~outbox[i].permanent
  PROVE  \E l \in DOMAIN Todo : l < k /\ Todo[l] = outbox[i].key
<1>1. PICK place : Lists(Todo, Len(outbox), place)
  BY TodoKeepsOrder
<1>2. /\ Todo \in Seq(Keys) /\ Len(Todo) \in Nat /\ DOMAIN Todo = 1 .. Len(Todo)
      /\ Len(outbox) \in Nat /\ DOMAIN outbox = 1 .. Len(outbox)
  BY <1>1, OutboxType DEF Lists
<1>3. place[k] = j
  <2>1. place[k] \in DOMAIN outbox /\ ~outbox[place[k]].permanent /\ outbox[place[k]].key = End
    BY <1>1, <1>2 DEF Lists, IsDue
  <2>. QED BY <2>1 DEF LiveOnce, Is
<1>4. IsDue(i)
  BY DEF AllDue, IsDue
<1>5. PICK l \in 1 .. Len(Todo) : place[l] = i
  BY <1>1, <1>2, <1>4 DEF Lists
<1>6. outbox[i].key = Todo[l]
  BY <1>1, <1>5 DEF Lists
<1>7. k < l => place[k] < place[l]
  BY <1>1, <1>2, <1>5 DEF Lists
<1>8. l < k
  BY <1>2, <1>3, <1>5, <1>7
<1>. QED BY <1>2, <1>5, <1>6, <1>8

\* What was to be done before the end still is, unless it was just done.
LEMMA EndStep ==
  ASSUME Safe, DoomedIsUnknown, CreationFirst, EndLast, [Next]_vars
  PROVE  EndLast'
<1>0. TypeOK /\ Unstarted /\ TodoQueued /\ LiveOnce /\ Acknowledged /\ AnswerIsTrue
  BY DEF Safe
<1>. SUFFICES ASSUME faults' = 0, ~Doomed',
                     NEW i \in DOMAIN outbox', NEW j \in DOMAIN outbox', NEW k \in DOMAIN sync'.todo,
                     Is(outbox'[j], End), i < j, sync'.todo[k] = End,
                     ~outbox'[i].permanent, outbox'[i].key # Upload
              PROVE  \E l \in DOMAIN sync'.todo : l < k /\ sync'.todo[l] = outbox'[i].key
  BY DEF EndLast, Is
<1>1. faults = 0 /\ ~CallFails /\ ~Close /\ ~Doomed
  BY <1>0, FaultsGrow, OrderStep
<1>2. /\ AllDue
      /\ ~journey.known /\ sync.todo # <<>> => Record = Create
  BY <1>1 DEF CreationFirst, AllDue
<1>3. CASE StartSync
  <2>1. outbox' = outbox /\ sync'.todo = Todo
    BY <1>3 DEF StartSync, Idle
  <2>2. /\ i \in DOMAIN outbox /\ j \in DOMAIN outbox /\ k \in DOMAIN Todo
        /\ Is(outbox[j], End) /\ Todo[k] = End /\ ~outbox[i].permanent
    BY <2>1
  <2>. QED BY <1>0, <1>2, <2>1, <2>2, EndIsListedLast
<1>4. ASSUME NEW m \in DOMAIN sync.todo, sync.todo[m] = End
      PROVE  \E l \in DOMAIN sync.todo : l < m /\ sync.todo[l] = outbox'[i].key
  <2>1. Queued(End)
    BY <1>0, <1>4 DEF TodoQueued
  <2>2. OrderKept
    BY <1>0, OrderStep
  <2>3. outbox'[j].key = End /\ ~outbox'[j].permanent
    BY DEF Is
  <2>4. PICK a \in DOMAIN outbox, b \in DOMAIN outbox :
           /\ a < b /\ ~outbox[a].permanent /\ ~outbox[b].permanent
           /\ outbox[a].key = outbox'[i].key /\ outbox[b].key = End
    BY <2>1, <2>2, <2>3 DEF OrderKept
  <2>. QED BY <1>1, <1>4, <2>4 DEF EndLast, Is
<1>5. ASSUME sync'.todo = sync.todo
      PROVE  \E l \in DOMAIN sync'.todo : l < k /\ sync'.todo[l] = outbox'[i].key
  BY <1>4, <1>5
<1>6. ASSUME sync' = Continue, sync.step # "idle",
             \A key : key = Record /\ key # Upload => ~Queued(key)'
      PROVE  \E l \in DOMAIN sync'.todo : l < k /\ sync'.todo[l] = outbox'[i].key
  <2>1. /\ sync.todo # <<>> /\ Record = sync.todo[1] /\ Len(sync.todo) \in Nat
        /\ DOMAIN sync.todo = 1 .. Len(sync.todo)
        /\ DOMAIN sync'.todo = 1 .. Len(sync.todo) - 1
        /\ \A m \in 1 .. Len(sync.todo) - 1 : sync'.todo[m] = sync.todo[m + 1]
    BY <1>0, <1>6, AtRecord, ContinueIs
  <2>2. k + 1 \in DOMAIN sync.todo /\ sync.todo[k + 1] = End
    BY <2>1
  <2>3. PICK l \in DOMAIN sync.todo : l < k + 1 /\ sync.todo[l] = outbox'[i].key
    BY <1>4, <2>2
  <2>4. \A key : key = outbox'[i].key => Queued(key)'
    BY DEF Queued, Is
  <2>5. l # 1
    BY <1>6, <2>1, <2>3, <2>4
  <2>6. l - 1 \in 1 .. Len(sync.todo) - 1 /\ l - 1 < k /\ (l - 1) + 1 = l
    BY <2>1, <2>2, <2>3, <2>5
  <2>7. sync'.todo[l - 1] = outbox'[i].key
    BY <2>1, <2>3, <2>6
  <2>. QED BY <2>1, <2>6, <2>7
<1>7. ~Wait
  BY <1>0, <1>2, AtRecord DEF Wait, MissingDependency
<1>8. CASE Dispatch
  BY <1>0, <1>5, <1>8 DEF Dispatch, TypeOK
<1>9. CASE ServerHandles
  <2>1. CASE Accepted(Record)
    BY <1>0, <1>5, <1>9, <2>1 DEF ServerHandles, TypeOK
  <2>2. CASE ~Accepted(Record)
    <3>1. /\ sync.step # "idle" /\ sync' = Continue /\ outbox' = Updated(Record, FALSE, TRUE)
          /\ Record \in Keys /\ Queued(Record)
      BY <1>0, <1>9, <2>2, AtRecord DEF ServerHandles, Refuse
    <3>2. \A key : key = Record => ~Queued(key)'
      BY <1>0, <3>1, Refused
    <3>. QED BY <1>6, <3>1, <3>2
  <2>. QED BY <2>1, <2>2
<1>10. CASE ApplyAnswer
  BY <1>0, <1>5, <1>10 DEF ApplyAnswer, TypeOK
<1>11. CASE Settle
  <2>1. /\ sync.step # "idle" /\ sync' = Continue /\ Record \in Keys /\ Queued(Record)
        /\ outbox' = IF sync.more THEN Updated(Record, TRUE, FALSE) ELSE Without(Record)
    BY <1>0, <1>11, AtRecord DEF Settle
  <2>2. CASE sync.more
    BY <1>0, <1>6, <2>1, <2>2 DEF TodoQueued
  <2>3. CASE ~sync.more
    <3>1. \A key : key = Record => ~Queued(key)'
      BY <1>0, <2>1, <2>3, Removed
    <3>. QED BY <1>6, <2>1, <3>1
  <2>. QED BY <2>2, <2>3
<1>. QED BY <1>1, <1>3, <1>5, <1>7, <1>8, <1>9, <1>10, <1>11 DEF Next, Executor, StartJourney,
            FinishJourney, CaptureChecks, CaptureCommits, RetryDue, PullReads, PullStores,
            ChangeElsewhere, vars
-----------------------------------------------------------------------------

LEMMA Initially == Init => IInv
<1>. SUFFICES ASSUME Init PROVE IInv
  OBVIOUS
<1>1. DOMAIN outbox = {} /\ outbox = <<>> /\ sync = Idle /\ journey = [row |-> NoRow, known |-> FALSE]
      /\ captured = [c \in Captures |-> "none"] /\ checked = {} /\ pull = NoRow
  BY DEF Init
<1>2. sync \in Executors /\ NoRow \in Row /\ <<>> \in Seq(Records)
  BY <1>1, IdleType, EmptySeq
<1>3. TypeOK
  BY <1>2 DEF Init, TypeOK, Executors
<1>4. /\ sync.step = "idle" /\ sync.todo = <<>> /\ DOMAIN sync.todo = {} /\ sync.batch = {}
      /\ ~sync.more
  BY <1>1 DEF Idle
<1>5. Unstarted /\ TodoQueued /\ LiveOnce /\ AnswerIsTrue /\ Acknowledged
  BY <1>1, <1>4 DEF Unstarted, TodoQueued, LiveOnce, AnswerIsTrue, Acknowledged
<1>6. OnlyCaptures /\ PinHasRecord /\ SyncedIsStored
  BY <1>1, <1>4 DEF OnlyCaptures, PinHasRecord, SyncedIsStored, HasRecord, Captures
<1>7. DoomedIsUnknown /\ CreationFirst /\ EndLast
  <2>1. journey.row.status = "none"
    BY <1>1 DEF NoRow
  <2>. QED BY <1>1, <1>4, <2>1 DEF DoomedIsUnknown, Doomed, CreationFirst, EndLast
<1>. QED BY <1>3, <1>5, <1>6, <1>7 DEF IInv, Safe

LEMMA StepIInv == IInv /\ [Next]_vars => IInv'
<1>. SUFFICES ASSUME IInv, [Next]_vars PROVE IInv'
  OBVIOUS
<1>1. /\ Safe /\ DoomedIsUnknown /\ CreationFirst /\ EndLast
      /\ TypeOK /\ Unstarted /\ TodoQueued /\ LiveOnce /\ OnlyCaptures
      /\ AnswerIsTrue /\ Acknowledged /\ PinHasRecord /\ SyncedIsStored
  BY DEF IInv, Safe
<1>2. TypeOK' /\ Unstarted' /\ TodoQueued' /\ LiveOnce'
  BY <1>1, TypeStep, UnstartedStep, TodoStep
<1>3. OnlyCaptures' /\ AnswerIsTrue' /\ Acknowledged'
  BY <1>1, CapturesStep, AnswerStep, AcknowledgedStep
<1>4. PinHasRecord' /\ SyncedIsStored'
  BY <1>1, PinStep, SyncedStep
<1>5. DoomedIsUnknown' /\ CreationFirst' /\ EndLast'
  BY <1>1, DoomedStep, CreationStep, EndStep
<1>. QED BY <1>2, <1>3, <1>4, <1>5 DEF IInv, Safe

LEMMA Invariance == Spec => []IInv
BY Initially, StepIInv, PTL DEF Spec
-----------------------------------------------------------------------------

\* Every record of the outbox has an operation and a state, and the executor
\* is at a step with a list of records.
THEOREM TypeCorrect == Spec => []TypeOK
<1>1. IInv => TypeOK
  BY DEF IInv, Safe
<1>. QED BY <1>1, Invariance, PTL

\* A pin is never forgotten: its record is in the outbox, to be sent again or
\* marked as refused, until the server's answer is stored on the device.
THEOREM PinsKeepTheirRecord == Spec => []PinHasRecord
<1>1. IInv => PinHasRecord
  BY DEF IInv, Safe
<1>. QED BY <1>1, Invariance, PTL

\* What the device shows as synced is on the server, whatever was lost, closed
\* or pulled in between.
THEOREM SyncedCapturesAreStored == Spec => []SyncedIsStored
<1>1. IInv => SyncedIsStored
  BY DEF IInv, Safe
<1>. QED BY <1>1, Invariance, PTL

\* Nothing that names the journey by its server id is sent before the server
\* has made it.
THEOREM CreationIsAcknowledgedFirst == Spec => []CreateAcknowledgedFirst
<1>1. IInv => CreateAcknowledgedFirst
  BY DEF IInv, Safe, Acknowledged, CreateAcknowledgedFirst
<1>. QED BY <1>1, Invariance, PTL

\* As long as no call fails, the end of a journey is sent after every pin and
\* after the creation queued before it.
THEOREM EndIsSentAfterPins == Spec => []EndAfterPins
<1>1. ASSUME IInv PROVE EndAfterPins
  <2>0. TypeOK /\ TodoQueued /\ Acknowledged /\ DoomedIsUnknown /\ EndLast
    BY <1>1 DEF IInv, Safe
  <2>. SUFFICES ASSUME faults = 0, sync.step = "sent", Record = End,
                       NEW key, key # Upload, Overtaken(key)
                PROVE  FALSE
    BY KeyFacts DEF EndAfterPins, EndIsSent
  <2>1. sync.todo[1] = End /\ 1 \in DOMAIN sync.todo /\ DOMAIN sync.todo = 1 .. Len(sync.todo)
    BY <2>0, AtRecord, ContinueIs
  <2>2. ~Doomed
    BY <2>0, KeyFacts DEF Acknowledged, DoomedIsUnknown
  <2>3. PICK i \in DOMAIN outbox, j \in DOMAIN outbox : Is(outbox[j], End) /\ i < j /\ Is(outbox[i], key)
    BY DEF Overtaken
  <2>4. ~outbox[i].permanent /\ outbox[i].key # Upload
    BY <2>3 DEF Is
  <2>5. \E l \in DOMAIN sync.todo : l < 1 /\ sync.todo[l] = outbox[i].key
    BY <2>0, <2>1, <2>2, <2>3, <2>4 DEF EndLast
  <2>. QED BY <2>1, <2>5
<1>2. IInv => EndAfterPins
  BY <1>1
<1>. QED BY <1>2, Invariance, PTL
-----------------------------------------------------------------------------

\* One kind of step for each kind of step of Delivery; the rest change nothing
\* that it speaks of.
LEMMA DeliveryStep ==
  ASSUME Safe, [Next]_vars
  PROVE  [Delivered!Next]_(Delivered!vars)
<1>0. /\ TypeOK /\ TodoQueued /\ LiveOnce /\ OnlyCaptures /\ AnswerIsTrue
      /\ captured \in [Captures -> {"none", "local", "synced"}]
      /\ server \in [row : Row, stored : SUBSET Captures, otherActive : BOOLEAN]
      /\ sync.step # "idle" => Record \in Keys /\ Queued(Record)
      /\ Create \in Keys /\ End \in Keys
      /\ \A p \in Pins : RecordOf(p) \in Keys /\ RecordOf(p) # Create /\ RecordOf(p) # End
      /\ Pins \subseteq Captures
  BY AtRecord, KeyFacts DEF Safe, TypeOK, Captures
<1>. DEFINE Made == {c \in Captures : captured[c] # "none"}
            Waiting == {p \in Pins : HasRecord(p)}
            Synced == {c \in Captures : captured[c] = "synced"}
            Simulated == [Delivered!Next]_(Delivered!vars)
<1>1. ASSUME captured' = captured, server'.stored = server.stored,
             \A p \in Pins : HasRecord(p)' <=> HasRecord(p)
      PROVE  Simulated
  <2>1. Waiting' = Waiting
    BY <1>1
  <2>. QED BY <1>1, <2>1 DEF Delivered!vars
<1>2. ASSUME outbox' = outbox PROVE \A p \in Pins : HasRecord(p)' <=> HasRecord(p)
  BY <1>2 DEF HasRecord
<1>3. CASE StartJourney
  BY <1>0, <1>1, <1>3, Enqueued DEF StartJourney
<1>4. ASSUME NEW c \in Captures, CaptureCommits(c) PROVE Simulated
  <2>1. captured[c] = "none" /\ RecordOf(c) \in Keys
    BY <1>0, <1>4, KeyFacts DEF CaptureCommits, OnlyCaptures
  <2>2. captured' = [captured EXCEPT ![c] = "local"] /\ server' = server /\ Enqueue(RecordOf(c))
    BY <1>4 DEF CaptureCommits
  <2>3. c \notin Made /\ Made' = Made \cup {c} /\ Synced' = Synced
    BY <1>0, <2>1, <2>2
  <2>4. \A p \in Pins : RecordOf(p) = RecordOf(c) <=> p = c
    BY KeyFacts DEF Captures
  <2>5. \A p \in Pins : HasRecord(p)' <=> HasRecord(p) \/ p = c
    BY <1>0, <2>1, <2>2, <2>4, Enqueued
  <2>6. Waiting' = Waiting \cup (Pins \cap {c})
    BY <2>5
  <2>7. Delivered!Capture(c)
    BY <2>2, <2>3, <2>6 DEF Delivered!Capture
  <2>. QED BY <2>7 DEF Delivered!Next
<1>5. CASE FinishJourney
  BY <1>0, <1>1, <1>5, Enqueued DEF FinishJourney
<1>6. CASE Wait
  BY <1>0, <1>1, <1>6, Touched DEF Wait, deviceVars
<1>7. CASE ServerHandles
  <2>1. CASE Accepted(Record)
    <3>1. /\ server' = [server EXCEPT !.row = RowAfter(Record), !.stored = @ \cup SentCaptures(Record)]
          /\ captured' = captured /\ outbox' = outbox
      BY <1>7, <2>1 DEF ServerHandles, deviceVars
    <3>2. server'.stored = server.stored \cup SentCaptures(Record)
      BY <1>0, <3>1
    <3>3. SentCaptures(Record) \in SUBSET Made
      BY <1>0, <1>7, SentWasCaptured DEF ServerHandles
    <3>4. Waiting' = Waiting
      BY <1>2, <3>1
    <3>5. Delivered!Store(SentCaptures(Record))
      BY <3>1, <3>2, <3>4 DEF Delivered!Store
    <3>. QED BY <3>3, <3>5 DEF Delivered!Next
  <2>2. CASE ~Accepted(Record)
    BY <1>0, <1>1, <1>7, <2>2, Refused DEF ServerHandles, Refuse, deviceVars
  <2>. QED BY <2>1, <2>2
<1>8. CASE ApplyAnswer
  <2>1. /\ captured' = [c \in Captures |-> IF c \in SentCaptures(Record) THEN "synced" ELSE captured[c]]
        /\ server' = server /\ outbox' = outbox
    BY <1>8 DEF ApplyAnswer
  <2>2. SentCaptures(Record) \in SUBSET server.stored
    BY <1>0, <1>8 DEF ApplyAnswer, AnswerIsTrue
  <2>3. \A c \in SentCaptures(Record) : c \in Captures /\ captured[c] # "none"
    BY <1>0, <1>8, SentWasCaptured DEF ApplyAnswer
  <2>4. Made' = Made /\ Synced' = Synced \cup SentCaptures(Record)
    BY <1>0, <2>1, <2>3
  <2>5. Waiting' = Waiting
    BY <1>2, <2>1
  <2>6. PICK S \in SUBSET server.stored : S = SentCaptures(Record)
    BY <2>2
  <2>7. Delivered!Acknowledge(S)
    BY <2>1, <2>4, <2>5, <2>6 DEF Delivered!Acknowledge
  <2>. QED BY <2>7 DEF Delivered!Next
<1>9. CASE Settle
  <2>1. /\ sync.step = "applied" /\ captured' = captured /\ server' = server
        /\ outbox' = IF sync.more THEN Updated(Record, TRUE, FALSE) ELSE Without(Record)
        /\ Record \in Keys /\ Queued(Record)
    BY <1>0, <1>9 DEF Settle, deviceVars
  <2>2. CASE sync.more
    BY <1>0, <1>1, <2>1, <2>2, Touched
  <2>3. CASE ~sync.more
    <3>1. /\ \A p \in Pins : HasRecord(p)' => HasRecord(p)
          /\ \A p \in Pins : HasRecord(p) /\ RecordOf(p) # Record => HasRecord(p)'
      BY <1>0, <2>1, <2>3, Removed
    <3>2. CASE \A p \in Pins : HasRecord(p)' <=> HasRecord(p)
      BY <1>1, <2>1, <3>2
    <3>3. ASSUME NEW p \in Pins, ~(HasRecord(p)' <=> HasRecord(p)) PROVE Simulated
      <4>1. RecordOf(p) = Record /\ ~HasRecord(p)'
        BY <3>1, <3>3
      <4>2. p \in Synced
        BY <1>0, <2>1, <4>1 DEF AnswerIsTrue
      <4>3. \A q \in Pins : RecordOf(q) = Record => q = p
        BY <4>1, KeyFacts
      <4>4. Waiting' = Waiting \ {p}
        BY <3>1, <4>1, <4>3
      <4>5. Delivered!Settle(p)
        BY <2>1, <4>4 DEF Delivered!Settle
      <4>. QED BY <4>2, <4>5 DEF Delivered!Next
    <3>. QED BY <3>2, <3>3
  <2>. QED BY <2>2, <2>3
<1>10. CASE CallFails
  BY <1>0, <1>1, <1>10, Touched DEF CallFails, deviceVars
<1>11. ASSUME NEW key \in Keys, RetryDue(key) PROVE Simulated
  BY <1>0, <1>1, <1>11, Touched DEF RetryDue, deviceVars
<1>12. CASE ChangeElsewhere
  <2>1. server'.stored = server.stored
    BY <1>0, <1>12 DEF ChangeElsewhere
  <2>. QED BY <1>1, <1>2, <1>12, <2>1 DEF ChangeElsewhere, deviceVars
<1>13. CASE UNCHANGED <<captured, outbox, server>>
  BY <1>1, <1>2, <1>13
<1>. QED BY <1>3, <1>4, <1>5, <1>6, <1>7, <1>8, <1>9, <1>10, <1>11, <1>12, <1>13 DEF Next, Executor,
            CaptureChecks, StartSync, Dispatch, Close, PullReads, PullStores, vars, deviceVars

\* The outbox implements Delivery, through lost requests and answers, reloads,
\* pulls and changes on other devices: a capture reaches the server only after
\* it was stored, shows as synced only after it reached the server and for good,
\* and a pin's record stays until then.
THEOREM OutboxDelivers == Spec => ImplementsDelivery
<1>1. Init => Delivered!Init
  <2>. SUFFICES ASSUME Init PROVE Delivered!Init
    OBVIOUS
  <2>1. /\ captured = [c \in Captures |-> "none"] /\ outbox = <<>> /\ DOMAIN outbox = {}
        /\ server.stored = {}
    BY DEF Init
  <2>. QED BY <2>1 DEF Delivered!Init, HasRecord
<1>2. IInv /\ [Next]_vars => [Delivered!Next]_(Delivered!vars)
  BY DeliveryStep DEF IInv
<1>. QED BY <1>1, <1>2, Invariance, PTL DEF Spec, ImplementsDelivery, Delivered!Spec
=============================================================================
