--------------------------- MODULE ItineraryProofs ---------------------------
(***************************************************************************)
(* Theorems about Timeline and Sharing, for any number of journeys, pins,  *)
(* calls, shares and item lists.                                           *)
(*                                                                         *)
(* Timeline: the row lock carries the argument.  A call past               *)
(* LockActiveJourney owns the lock of its journey (LockHeld), so that      *)
(* nothing is inserted there between its reading the highest number and    *)
(* its insert (NumberIsNext).                                              *)
(*                                                                         *)
(* Sharing changes nothing of the timeline, so that what is shown of it    *)
(* holds here (ShareImplementsTimeline).  The snapshot theorems follow     *)
(* from the order of the three reads: what Create read of the stops is     *)
(* numbered 1 .. n (ReadsNumbered), and is all there will ever be if the   *)
(* journey was over before (ReadsComplete).                                *)
(***************************************************************************)
EXTENDS Sharing, FiniteSetTheorems, SequenceTheorems, TLAPS

\* A call that is at a pin knows it; past the lock it owns it, and the
\* journey is active.
LockHeld ==
  \A c \in Calls :
    /\ call[c].step # "idle" => call[c].request \in Requests
    /\ call[c].step \in {"locked", "numbered"} =>
         locked[JourneyIn(c)] = c /\ JourneyIn(c) \in active

\* Stops are finitely many, each in the journey of its request.
StopsWellFormed ==
  /\ IsFiniteSet(stops)
  /\ \A s \in stops : s.journey = JourneyOf(s.request)

\* The number a call holds is the next of its journey.
NumberIsNext ==
  \A c \in Calls : call[c].step = "numbered" =>
    call[c].sequence = Cardinality(StopsOf(JourneyIn(c))) + 1

\* A pin that is sent several times, also at once, leaves a single stop.
OneStopPerRequest ==
  \A s, t \in stops : s.request = t.request /\ s.journey = t.journey => s = t

IInv == /\ TypeOK
        /\ LockHeld
        /\ StopsWellFormed
        /\ Contiguous
        /\ NumberIsNext
        /\ OneStopPerRequest

\* The largest of the numbers 1 .. n.
LEMMA MaxOfInterval ==
  ASSUME NEW n \in Nat \ {0}
  PROVE  Max(1 .. n) = n
<1>1. n \in 1 .. n /\ \A y \in 1 .. n : n >= y
  OBVIOUS
<1>2. Max(1 .. n) \in 1 .. n /\ \A y \in 1 .. n : Max(1 .. n) >= y
  BY <1>1 DEF Max
<1> QED BY <1>1, <1>2


\* With contiguous numbers the next number of a journey is one more than its
\* stops.
LEMMA NextNumber ==
  ASSUME StopsWellFormed, Contiguous, NEW j \in Journeys
  PROVE  /\ IsFiniteSet(StopsOf(j)) /\ Cardinality(StopsOf(j)) \in Nat
         /\ (IF Sequences(j) = {} THEN 0 ELSE Max(Sequences(j))) + 1
              = Cardinality(StopsOf(j)) + 1
<1> DEFINE n == Cardinality(StopsOf(j))
<1>1. IsFiniteSet(StopsOf(j)) /\ n \in Nat
  BY FS_Subset, FS_CardinalityType DEF StopsWellFormed, StopsOf
<1>2. Sequences(j) = 1 .. n
  BY DEF Contiguous
<1> HIDE DEF n
<1>3. CASE n = 0
  <2>1. Sequences(j) = {}
    BY <1>2, <1>3
  <2> QED BY <1>1, <1>3, <2>1 DEF n
<1>4. CASE n # 0
  <2>1. n \in Nat \ {0} /\ n \in 1 .. n
    BY <1>1, <1>4
  <2>2. Sequences(j) # {} /\ Max(Sequences(j)) = n
    BY <1>2, <2>1, MaxOfInterval
  <2> QED BY <1>1, <2>2 DEF n
<1> QED BY <1>3, <1>4

\* The journey of a call that is at a pin is a journey.
LEMMA CallJourney ==
  ASSUME LockHeld, NEW c \in Calls, call[c].step # "idle"
  PROVE  call[c].request \in Requests /\ JourneyIn(c) \in Journeys
BY JourneyOfAssumption DEF LockHeld, JourneyIn

\* The stop a commit inserts.
NewStop(c) == [journey |-> JourneyIn(c), request |-> call[c].request, sequence |-> call[c].sequence]

\* What a commit inserts is a stop with the number the call read.
LEMMA NewStopType ==
  ASSUME TypeOK, LockHeld, StopsWellFormed, NumberIsNext, NEW c \in Calls, call[c].step = "numbered"
  PROVE  /\ NewStop(c) \in Stop
         /\ NewStop(c).journey = JourneyIn(c) /\ NewStop(c).request = call[c].request
         /\ NewStop(c).sequence = call[c].sequence
<1>1. call[c].request \in Requests /\ JourneyIn(c) \in Journeys
  BY CallJourney
<1>2. IsFiniteSet(StopsOf(JourneyIn(c)))
  BY FS_Subset DEF StopsWellFormed, StopsOf
<1>3. Cardinality(StopsOf(JourneyIn(c))) \in Nat
  BY <1>2, FS_CardinalityType
<1>4. call[c].sequence = Cardinality(StopsOf(JourneyIn(c))) + 1
  BY DEF NumberIsNext
<1>5. call[c].sequence \in Nat \ {0}
  BY <1>3, <1>4
<1> QED BY <1>1, <1>5 DEF NewStop, Stop

\* Every step keeps the types.
LEMMA TypeStep == IInv /\ [Next]_vars => TypeOK'
<1> SUFFICES ASSUME IInv, [Next]_vars PROVE TypeOK'
  OBVIOUS
<1>0. TypeOK /\ LockHeld /\ StopsWellFormed /\ Contiguous /\ NumberIsNext
  BY DEF IInv
<1>1. CASE UNCHANGED vars
  BY <1>0, <1>1 DEF vars, TypeOK
<1>2. ASSUME NEW j \in Journeys, EndJourney(j) PROVE TypeOK'
  BY <1>0, <1>2 DEF EndJourney, TypeOK
<1>3. ASSUME NEW c \in Calls, NEW r \in Requests, PinCheck(c, r) PROVE TypeOK'
  BY <1>0, <1>3 DEF PinCheck, TypeOK, Steps
<1>4. ASSUME NEW c \in Calls, LockActiveJourney(c) PROVE TypeOK'
  BY <1>0, <1>4 DEF LockActiveJourney, TypeOK, Steps, Idle
<1>5. ASSUME NEW c \in Calls, NextJourneyStopSequence(c) PROVE TypeOK'
  <2> DEFINE next == (IF Sequences(JourneyIn(c)) = {} THEN 0 ELSE Max(Sequences(JourneyIn(c)))) + 1
  <2>1. JourneyIn(c) \in Journeys
    BY <1>0, <1>5, CallJourney DEF NextJourneyStopSequence
  <2>2. next \in Nat
    BY <1>0, <2>1, NextNumber
  <2>3. call' = [call EXCEPT ![c].step = "numbered", ![c].sequence = next]
    BY <1>5 DEF NextJourneyStopSequence
  <2>4. UNCHANGED <<active, locked, places, stops, edited>>
    BY <1>5 DEF NextJourneyStopSequence
  <2> HIDE DEF next
  <2>5. call' \in [Calls -> [step : Steps, request : Requests \cup {NoRequest}, sequence : Nat]]
    BY <1>0, <2>2, <2>3 DEF TypeOK, Steps
  <2> QED BY <1>0, <2>4, <2>5 DEF TypeOK
<1>6. ASSUME NEW c \in Calls, PinCommits(c) PROVE TypeOK'
  <2>1. NewStop(c) \in Stop /\ call[c].request \in Requests
    BY <1>0, <1>6, NewStopType, CallJourney DEF PinCommits
  <2>2. stops' \subseteq Stop
    BY <1>0, <1>6, <2>1 DEF PinCommits, CreateJourneyStop, NewStop, JourneyIn, TypeOK
  <2>3. call' \in [Calls -> [step : Steps, request : Requests \cup {NoRequest}, sequence : Nat]]
    BY <1>0, <1>6 DEF PinCommits, TypeOK, Steps, Idle
  <2>4. active' = active /\ edited' = edited /\ locked' \in [Journeys -> Calls \cup {Nobody}]
    BY <1>0, <1>6 DEF PinCommits, TypeOK
  <2>5. places' \in [Requests \cup Saves -> {"none", "live", "edited", "deleted"}]
    BY <1>0, <1>6 DEF PinCommits, CreatePlace, TypeOK
  <2> QED BY <1>0, <2>2, <2>3, <2>4, <2>5 DEF TypeOK
<1>7. ASSUME NEW c \in Calls, PinFails(c) PROVE TypeOK'
  BY <1>0, <1>7 DEF PinFails, TypeOK, Steps, Idle
<1>8. ASSUME NEW r \in Requests \cup Saves, SavePlace(r) \/ ChangePlace(r) \/ RemovePlace(r)
      PROVE  TypeOK'
  BY <1>0, <1>8 DEF SavePlace, ChangePlace, RemovePlace, CreatePlace, UpdatePlace, DeletePlace,
                    Live, TypeOK
<1>9. ASSUME NEW r \in Requests, UpdateStop(r) PROVE TypeOK'
  BY <1>0, <1>9 DEF UpdateStop, UpdateJourneyStopMetadata, TypeOK
<1> QED BY <1>1, <1>2, <1>3, <1>4, <1>5, <1>6, <1>7, <1>8, <1>9 DEF Next

\* A journey ends only with its lock free, and a call gives up the lock with the pin.
LEMMA LockHeldStep == TypeOK /\ LockHeld /\ [Next]_vars => LockHeld'
<1> SUFFICES ASSUME TypeOK, LockHeld, [Next]_vars, NEW d \in Calls
             PROVE  /\ call'[d].step # "idle" => call'[d].request \in Requests
                    /\ call'[d].step \in {"locked", "numbered"} =>
                         /\ locked'[JourneyOf(call'[d].request)] = d
                         /\ JourneyOf(call'[d].request) \in active'
  BY DEF LockHeld, JourneyIn
<1> DEFINE Goal == /\ call'[d].step # "idle" => call'[d].request \in Requests
                   /\ call'[d].step \in {"locked", "numbered"} =>
                        /\ locked'[JourneyOf(call'[d].request)] = d
                        /\ JourneyOf(call'[d].request) \in active'
<1>0. d # Nobody
  BY NobodyAssumption
<1> USE DEF LockHeld, JourneyIn
<1>1. CASE UNCHANGED <<call, locked, active>>
  BY <1>1
<1>2. ASSUME NEW j \in Journeys, EndJourney(j) PROVE Goal
  BY <1>0, <1>2 DEF EndJourney
<1>3. ASSUME NEW c \in Calls, NEW r \in Requests, PinCheck(c, r) PROVE Goal
  BY <1>3 DEF PinCheck, TypeOK
<1>4. ASSUME NEW c \in Calls, LockActiveJourney(c) PROVE Goal
  <2>1. JourneyIn(c) \in Journeys /\ call[c].request \in Requests
    BY <1>4, CallJourney DEF LockActiveJourney
  <2>2. CASE JourneyIn(c) \in active
    <3>1. CASE d = c
      BY <1>4, <2>1, <2>2, <3>1 DEF LockActiveJourney, TypeOK
    <3>2. CASE d # c
      BY <1>0, <1>4, <2>1, <2>2, <3>2 DEF LockActiveJourney, TypeOK
    <3> QED BY <3>1, <3>2
  <2>3. CASE JourneyIn(c) \notin active
    BY <1>4, <2>3 DEF LockActiveJourney, TypeOK, Idle
  <2> QED BY <2>2, <2>3
<1>5. ASSUME NEW c \in Calls, NextJourneyStopSequence(c) PROVE Goal
  <2>1. /\ call'[d].request = call[d].request
        /\ call'[d].step # call[d].step => call[d].step = "locked"
    BY <1>5 DEF NextJourneyStopSequence, TypeOK
  <2> QED BY <1>5, <2>1 DEF NextJourneyStopSequence
<1>6. ASSUME NEW c \in Calls, PinCommits(c) PROVE Goal
  <2>1. locked[JourneyIn(c)] = c /\ JourneyIn(c) \in Journeys
    BY <1>6, CallJourney DEF PinCommits
  <2>2. CASE d = c
    BY <1>6, <2>2 DEF PinCommits, TypeOK, Idle
  <2>3. CASE d # c
    BY <1>6, <2>1, <2>3 DEF PinCommits, TypeOK
  <2> QED BY <2>2, <2>3
<1>7. ASSUME NEW c \in Calls, PinFails(c) PROVE Goal
  <2>1. CASE d = c
    BY <1>7, <2>1 DEF PinFails, TypeOK, Idle
  <2>2. CASE d # c
    BY <1>7, <2>2, JourneyOfAssumption DEF PinFails, TypeOK
  <2> QED BY <2>1, <2>2
<1>8. ASSUME NEW r \in Requests \cup Saves,
             SavePlace(r) \/ ChangePlace(r) \/ RemovePlace(r) \/ UpdateStop(r)
      PROVE  Goal
  BY <1>8, <1>1 DEF SavePlace, ChangePlace, RemovePlace, UpdateStop
<1> QED BY <1>1, <1>2, <1>3, <1>4, <1>5, <1>6, <1>7, <1>8 DEF Next, vars

(***************************************************************************)
(* The timeline: a step leaves it alone, or one call commits the next stop *)
(* of its journey.                                                         *)
(***************************************************************************)
Commits(c) ==
  /\ call[c].step = "numbered"
  /\ StopFor(call[c].request) = {}
  /\ stops' = stops \cup {NewStop(c)}
  /\ active' = active
  /\ call'[c] = Idle
  /\ \A d \in Calls : d # c => call'[d] = call[d]

\* A step inserts one stop at most, by the call that holds the lock.
LEMMA TimelineStep ==
  ASSUME TypeOK, [Next]_vars
  PROVE  stops' = stops \/ \E c \in Calls : Commits(c)
<1>1. ASSUME NEW c \in Calls, PinCommits(c)
      PROVE  stops' = stops \/ Commits(c)
  BY <1>1 DEF PinCommits, CreateJourneyStop, Commits, NewStop, JourneyIn, TypeOK
<1> QED BY <1>1 DEF Next, vars, EndJourney, PinCheck, LockActiveJourney, NextJourneyStopSequence,
                    PinFails, SavePlace, ChangePlace, RemovePlace, UpdateStop

\* A commit adds its stop to its own journey and to no other.
LEMMA StopsAfter ==
  ASSUME IInv, NEW c \in Calls, Commits(c), NEW j \in Journeys
  PROVE  /\ JourneyIn(c) \in Journeys
         /\ j = JourneyIn(c) => /\ StopsOf(j)' = StopsOf(j) \cup {NewStop(c)}
                                /\ NewStop(c) \notin stops
                                /\ NewStop(c).sequence = Cardinality(StopsOf(j)) + 1
                                /\ Cardinality(StopsOf(j)') = Cardinality(StopsOf(j)) + 1
         /\ j # JourneyIn(c) => StopsOf(j)' = StopsOf(j)
<1>1. TypeOK /\ LockHeld /\ StopsWellFormed /\ Contiguous /\ NumberIsNext
  BY DEF IInv
<1>2. call[c].step = "numbered" /\ stops' = stops \cup {NewStop(c)}
  BY DEF Commits
<1>3. /\ JourneyIn(c) \in Journeys
      /\ NewStop(c).journey = JourneyIn(c) /\ NewStop(c).request = call[c].request
      /\ NewStop(c).sequence = call[c].sequence
  BY <1>1, <1>2, NewStopType, CallJourney
<1>4. NewStop(c) \notin stops
  BY <1>1, <1>3 DEF Commits, StopFor, StopsWellFormed, JourneyIn
<1>5. j # JourneyIn(c) => StopsOf(j)' = StopsOf(j)
  BY <1>2, <1>3 DEF StopsOf
<1>6. ASSUME j = JourneyIn(c)
      PROVE  /\ StopsOf(j)' = StopsOf(j) \cup {NewStop(c)}
             /\ NewStop(c).sequence = Cardinality(StopsOf(j)) + 1
             /\ Cardinality(StopsOf(j)') = Cardinality(StopsOf(j)) + 1
  <2>1. StopsOf(j)' = StopsOf(j) \cup {NewStop(c)}
    BY <1>2, <1>3, <1>6 DEF StopsOf
  <2>2. IsFiniteSet(StopsOf(j)) /\ NewStop(c) \notin StopsOf(j)
    BY <1>1, <1>4, NextNumber DEF StopsOf
  <2>3. Cardinality(StopsOf(j) \cup {NewStop(c)}) = Cardinality(StopsOf(j)) + 1
    BY <2>2, FS_AddElement
  <2>4. NewStop(c).sequence = Cardinality(StopsOf(j)) + 1
    BY <1>1, <1>2, <1>3, <1>6 DEF NumberIsNext
  <2> QED BY <2>1, <2>3, <2>4
<1> QED BY <1>3, <1>4, <1>5, <1>6

\* Stops stay finitely many.
LEMMA StopsWellFormedStep ==
  ASSUME IInv, [Next]_vars
  PROVE  StopsWellFormed'
<1>1. TypeOK /\ LockHeld /\ StopsWellFormed /\ NumberIsNext
  BY DEF IInv
<1>2. CASE stops' = stops
  BY <1>1, <1>2 DEF StopsWellFormed
<1>3. ASSUME NEW c \in Calls, Commits(c) PROVE StopsWellFormed'
  <2>1. NewStop(c).journey = JourneyIn(c) /\ NewStop(c).request = call[c].request
    BY <1>1, <1>3, NewStopType DEF Commits
  <2>2. IsFiniteSet(stops \cup {NewStop(c)})
    BY <1>1, FS_AddElement DEF StopsWellFormed
  <2> QED BY <1>1, <1>3, <2>1, <2>2 DEF Commits, StopsWellFormed, JourneyIn
<1> QED BY <1>1, <1>2, <1>3, TimelineStep

\* The next number after 1 .. n keeps the numbers contiguous.
LEMMA ContiguousStep ==
  ASSUME IInv, [Next]_vars
  PROVE  Contiguous'
<1>1. TypeOK /\ StopsWellFormed /\ Contiguous
  BY DEF IInv
<1>2. CASE stops' = stops
  BY <1>1, <1>2 DEF Contiguous, Sequences, StopsOf
<1>3. ASSUME NEW c \in Calls, Commits(c) PROVE Contiguous'
  <2> SUFFICES ASSUME NEW j \in Journeys
               PROVE  /\ Sequences(j)' = 1 .. Cardinality(StopsOf(j)')
                      /\ \A s, t \in StopsOf(j)' : s.sequence = t.sequence => s = t
    BY DEF Contiguous
  <2>1. /\ Sequences(j) = 1 .. Cardinality(StopsOf(j))
        /\ \A s, t \in StopsOf(j) : s.sequence = t.sequence => s = t
    BY <1>1 DEF Contiguous
  <2>2. CASE j # JourneyIn(c)
    <3>1. StopsOf(j)' = StopsOf(j)
      BY <1>3, <2>2, StopsAfter
    <3> QED BY <2>1, <3>1 DEF Sequences
  <2>3. CASE j = JourneyIn(c)
    <3> DEFINE n == Cardinality(StopsOf(j))
    <3>1. /\ StopsOf(j)' = StopsOf(j) \cup {NewStop(c)}
          /\ NewStop(c).sequence = n + 1
          /\ Cardinality(StopsOf(j)') = n + 1
      BY <1>3, <2>3, StopsAfter
    <3>2. n \in Nat
      BY <1>1, NextNumber
    <3>3. \A s \in StopsOf(j) : s.sequence \in 1 .. n
      BY <2>1 DEF Sequences
    <3>4. Sequences(j)' = Sequences(j) \cup {n + 1}
      BY <3>1 DEF Sequences
    <3> HIDE DEF n
    <3>5. Sequences(j)' = 1 .. (n + 1)
      BY <2>1, <3>2, <3>4 DEF n
    <3>6. \A s \in StopsOf(j) : s.sequence # n + 1
      BY <3>2, <3>3
    <3> QED BY <2>1, <3>1, <3>5, <3>6
  <2> QED BY <2>2, <2>3
<1> QED BY <1>1, <1>2, <1>3, TimelineStep

\* Only the call that owns the lock of a journey can hold a number of it.
LEMMA NumberIsNextStep ==
  ASSUME IInv, [Next]_vars
  PROVE  NumberIsNext'
<1> SUFFICES ASSUME NEW d \in Calls, call'[d].step = "numbered"
             PROVE  call'[d].sequence = Cardinality(StopsOf(JourneyIn(d))') + 1
  BY DEF NumberIsNext, JourneyIn, StopsOf
<1>1. TypeOK /\ LockHeld /\ StopsWellFormed /\ Contiguous /\ NumberIsNext
  BY DEF IInv
<1>2. call'[d] = call[d] \/ NextJourneyStopSequence(d)
  <2>1. ASSUME NEW c \in Calls, NEW r \in Requests, PinCheck(c, r)
        PROVE  call'[d] = call[d]
    BY <1>1, <2>1 DEF PinCheck, TypeOK
  <2>2. ASSUME NEW c \in Calls, LockActiveJourney(c) \/ PinCommits(c) \/ PinFails(c)
        PROVE  call'[d] = call[d]
    BY <1>1, <2>2 DEF LockActiveJourney, PinCommits, PinFails, TypeOK, Idle
  <2>3. ASSUME NEW c \in Calls, NextJourneyStopSequence(c), c # d
        PROVE  call'[d] = call[d]
    BY <1>1, <2>3 DEF NextJourneyStopSequence, TypeOK
  <2> QED BY <2>1, <2>2, <2>3 DEF Next, vars, EndJourney, SavePlace, ChangePlace, RemovePlace, UpdateStop
<1>3. CASE call'[d] = call[d]
  <2>1. call[d].step = "numbered" /\ JourneyIn(d)' = JourneyIn(d) /\ JourneyIn(d) \in Journeys
    BY <1>1, <1>3, CallJourney DEF JourneyIn
  <2>2. call[d].sequence = Cardinality(StopsOf(JourneyIn(d))) + 1
    BY <1>1, <2>1 DEF NumberIsNext
  <2>3. CASE stops' = stops
    BY <1>3, <2>1, <2>2, <2>3 DEF StopsOf
  <2>4. ASSUME NEW c \in Calls, Commits(c)
        PROVE  StopsOf(JourneyIn(d))' = StopsOf(JourneyIn(d))
    <3>1. c # d
      BY <1>3, <2>1, <2>4 DEF Commits, Idle
    <3>2. JourneyIn(c) # JourneyIn(d)
      BY <1>1, <2>1, <2>4, <3>1 DEF LockHeld, Commits
    <3> QED BY <2>1, <2>4, <3>2, StopsAfter DEF StopsOf
  <2> QED BY <1>1, <1>3, <2>2, <2>3, <2>4, TimelineStep
<1>4. CASE NextJourneyStopSequence(d)
  <2>1. JourneyIn(d) \in Journeys
    BY <1>1, <1>4, CallJourney DEF NextJourneyStopSequence
  <2>2. /\ stops' = stops /\ JourneyIn(d)' = JourneyIn(d)
        /\ call'[d].sequence =
             (IF Sequences(JourneyIn(d)) = {} THEN 0 ELSE Max(Sequences(JourneyIn(d)))) + 1
    BY <1>1, <1>4 DEF NextJourneyStopSequence, JourneyIn, TypeOK
  <2> QED BY <1>1, <2>1, <2>2, NextNumber DEF StopsOf
<1> QED BY <1>2, <1>3, <1>4

\* A stop is inserted only for a request that has none.
LEMMA OneStopStep ==
  ASSUME IInv, [Next]_vars
  PROVE  OneStopPerRequest'
<1>1. TypeOK /\ LockHeld /\ StopsWellFormed /\ NumberIsNext /\ OneStopPerRequest
  BY DEF IInv
<1>2. CASE stops' = stops
  BY <1>1, <1>2 DEF OneStopPerRequest
<1>3. ASSUME NEW c \in Calls, Commits(c) PROVE OneStopPerRequest'
  <2>1. NewStop(c).journey = JourneyIn(c) /\ NewStop(c).request = call[c].request
    BY <1>1, <1>3, NewStopType DEF Commits
  <2>2. \A s \in stops : ~(s.request = NewStop(c).request /\ s.journey = NewStop(c).journey)
    BY <1>3, <2>1 DEF Commits, StopFor, JourneyIn
  <2> QED BY <1>1, <1>3, <2>2 DEF Commits, OneStopPerRequest
<1> QED BY <1>1, <1>2, <1>3, TimelineStep

-----------------------------------------------------------------------------
\* No stops and no calls satisfy the invariant.
LEMMA Initially == Init => IInv
<1> SUFFICES ASSUME Init PROVE IInv
  OBVIOUS
<1>1. TypeOK /\ LockHeld /\ NumberIsNext /\ OneStopPerRequest
  BY DEF Init, TypeOK, LockHeld, NumberIsNext, OneStopPerRequest, Idle, Steps
<1>2. StopsWellFormed
  BY FS_EmptySet DEF Init, StopsWellFormed
<1>3. \A j \in Journeys : StopsOf(j) = {} /\ Sequences(j) = {}
  BY DEF Init, StopsOf, Sequences
<1>4. Cardinality({}) = 0
  BY FS_EmptySet
<1>5. Contiguous
  BY <1>3, <1>4 DEF Contiguous
<1> QED BY <1>1, <1>2, <1>5 DEF IInv

\* Every step keeps the invariant.
LEMMA Inductive == IInv /\ [Next]_vars => IInv'
<1> SUFFICES ASSUME IInv, [Next]_vars PROVE IInv'
  OBVIOUS
<1>1. TypeOK' /\ LockHeld'
  BY TypeStep, LockHeldStep DEF IInv
<1>2. StopsWellFormed' /\ Contiguous' /\ NumberIsNext' /\ OneStopPerRequest'
  BY StopsWellFormedStep, ContiguousStep, NumberIsNextStep, OneStopStep
<1> QED BY <1>1, <1>2 DEF IInv

\* The invariant holds in every reachable state.
LEMMA Invariant == Spec => []IInv
BY Initially, Inductive, PTL DEF Spec

\* Type correctness: calls, locks and stops keep their shape.
THEOREM TypeCorrect == Spec => []TypeOK
<1>1. IInv => TypeOK
  BY DEF IInv
<1> QED BY <1>1, Invariant, PTL

\* NextJourneyStopSequence under the row lock numbers the stops of every
\* journey 1 .. n, however many calls race for it and whichever fail.
THEOREM NumbersAreContiguous == Spec => []Contiguous
<1>1. IInv => Contiguous
  BY DEF IInv
<1> QED BY <1>1, Invariant, PTL

\* Repeated and concurrent pins of one request leave one stop.
THEOREM OneStop == Spec => []OneStopPerRequest
<1>1. IInv => OneStopPerRequest
  BY DEF IInv
<1> QED BY <1>1, Invariant, PTL

\* The number a call holds is above all numbers of its journey.
NumberStillFree ==
  \A c \in Calls : call[c].step = "numbered" =>
    \A n \in Sequences(JourneyIn(c)) : n < call[c].sequence

\* The unique index on the number never has to refuse an insert.
THEOREM NumberIsFree == Spec => []NumberStillFree
<1>1. IInv => NumberStillFree
  <2> SUFFICES ASSUME IInv, NEW c \in Calls, call[c].step = "numbered",
                      NEW n \in Sequences(JourneyIn(c))
               PROVE  n < call[c].sequence
    BY DEF NumberStillFree
  <2>1. JourneyIn(c) \in Journeys
    BY CallJourney DEF IInv
  <2>2. Cardinality(StopsOf(JourneyIn(c))) \in Nat
    BY <2>1, NextNumber DEF IInv
  <2>3. n \in 1 .. Cardinality(StopsOf(JourneyIn(c)))
    BY <2>1 DEF IInv, Contiguous
  <2>4. call[c].sequence = Cardinality(StopsOf(JourneyIn(c))) + 1
    BY DEF IInv, NumberIsNext
  <2> QED BY <2>2, <2>3, <2>4
<1> QED BY <1>1, Invariant, PTL

(***************************************************************************)
(* The timeline as the log of JourneyLog: the stops of a journey, numbered *)
(* 1 .. n, are a sequence of requests, and a commit appends to one of them.*)
(***************************************************************************)
\* The stops of one journey, with the numbers 1 .. n.
Numbered(S) ==
  /\ IsFiniteSet(S)
  /\ {s.sequence : s \in S} = 1 .. Cardinality(S)
  /\ \A s, t \in S : s.sequence = t.sequence => s = t

Nth(S, n) == CHOOSE s \in S : s.sequence = n
InOrder(S) == [n \in 1 .. Cardinality(S) |-> Nth(S, n).request]

\* The stops of a journey are numbered.
LEMMA StopsNumbered ==
  ASSUME IInv, NEW j \in Journeys
  PROVE  Numbered(StopsOf(j)) /\ StopsOf(j) \in SUBSET Stop
<1>1. IsFiniteSet(StopsOf(j))
  BY NextNumber DEF IInv
<1> QED BY <1>1 DEF IInv, TypeOK, Contiguous, Sequences, StopsOf, Numbered

\* Each number is that of one stop.
LEMMA NthStop ==
  ASSUME NEW S \in SUBSET Stop, Numbered(S)
  PROVE  /\ Cardinality(S) \in Nat
         /\ \A n \in 1 .. Cardinality(S) : Nth(S, n) \in S /\ Nth(S, n).sequence = n
         /\ \A s \in S : s.sequence \in 1 .. Cardinality(S) /\ Nth(S, s.sequence) = s
         /\ InOrder(S) \in Seq(Requests)
         /\ Range(InOrder(S)) = {s.request : s \in S}
<1>1. Cardinality(S) \in Nat
  BY FS_CardinalityType DEF Numbered
<1>2. ASSUME NEW n \in 1 .. Cardinality(S)
      PROVE  Nth(S, n) \in S /\ Nth(S, n).sequence = n
  <2>1. PICK s \in S : s.sequence = n
    BY DEF Numbered
  <2> QED BY <2>1 DEF Nth
<1>3. ASSUME NEW s \in S
      PROVE  s.sequence \in 1 .. Cardinality(S) /\ Nth(S, s.sequence) = s
  <2>1. s.sequence \in 1 .. Cardinality(S)
    BY DEF Numbered
  <2> QED BY <1>2, <2>1 DEF Numbered
<1>4. \A s \in S : s.request \in Requests
  BY DEF Stop
<1>5. InOrder(S) \in Seq(Requests) /\ DOMAIN InOrder(S) = 1 .. Cardinality(S)
  BY <1>1, <1>2, <1>4 DEF InOrder
<1>6. Range(InOrder(S)) = {s.request : s \in S}
  BY <1>2, <1>3, <1>5 DEF InOrder, Range
<1> QED BY <1>1, <1>2, <1>3, <1>5, <1>6

\* A stop with the next number is appended.
LEMMA AppendStop ==
  ASSUME NEW S \in SUBSET Stop, Numbered(S), NEW t \in Stop,
         t.sequence = Cardinality(S) + 1, Cardinality(S \cup {t}) = Cardinality(S) + 1,
         Numbered(S \cup {t})
  PROVE  InOrder(S \cup {t}) = Append(InOrder(S), t.request)
<1> DEFINE n == Cardinality(S)
           T == S \cup {t}
<1>1. n \in Nat /\ InOrder(S) \in Seq(Requests)
      /\ \A k \in 1 .. n : Nth(S, k) \in S /\ Nth(S, k).sequence = k
  BY NthStop
<1>2. \A s \in T : Nth(T, s.sequence) = s
  BY NthStop
<1>3. Nth(T, n + 1) = t /\ \A k \in 1 .. n : Nth(T, k) = Nth(S, k)
  BY <1>1, <1>2
<1>4. InOrder(T) = [k \in 1 .. (n + 1) |-> Nth(T, k).request]
  BY DEF InOrder
<1>5. Len(InOrder(S)) = n /\ InOrder(S) = [k \in 1 .. n |-> Nth(S, k).request]
  BY <1>1 DEF InOrder
<1> HIDE DEF n, T
<1>6. Append(InOrder(S), t.request)
        = [k \in 1 .. (n + 1) |-> IF k = n + 1 THEN t.request ELSE InOrder(S)[k]]
  BY <1>1, <1>5
<1>7. \A k \in 1 .. (n + 1) :
        Nth(T, k).request = IF k = n + 1 THEN t.request ELSE InOrder(S)[k]
  BY <1>1, <1>3, <1>5
<1>8. InOrder(T) = Append(InOrder(S), t.request)
  BY <1>4, <1>6, <1>7
<1> QED BY <1>8 DEF T

\* The numbers of a journey, in the words of JourneyLog.
LogOf(j) == [n \in 1 .. Cardinality(StopsOf(j)) |-> StopAt(j, n).request]
LogNow == [j \in Journeys |-> LogOf(j)]

\* A step writes one entry to one open log, closes one, or leaves them alone.
LEMMA JourneyLogStep ==
  ASSUME IInv, [Next]_vars
  PROVE  [Timelines!Next]_(Timelines!vars)
<1>0. TypeOK /\ IInv'
  BY Inductive DEF IInv
<1>1. \A j \in Journeys : LogOf(j) = InOrder(StopsOf(j))
  BY DEF LogOf, StopAt, InOrder, Nth
<1>2. \A j \in Journeys : LogOf(j)' = InOrder(StopsOf(j)')
  BY DEF LogOf, StopAt, InOrder, Nth, StopsOf
<1>3. CASE stops' = stops
  <2>1. LogNow' = LogNow
    BY <1>3 DEF LogNow, LogOf, StopAt, StopsOf
  <2>2. active' = active \/ \E j \in active : active' = active \ {j}
    BY DEF Next, vars, EndJourney, PinCheck, LockActiveJourney, NextJourneyStopSequence, PinCommits,
           PinFails, SavePlace, ChangePlace, RemovePlace, UpdateStop
  <2> QED BY <2>1, <2>2 DEF LogNow, LogOf, Timelines!Next, Timelines!vars, Timelines!Close
<1>4. ASSUME NEW c \in Calls, Commits(c)
      PROVE  Timelines!Next
  <2>1. PICK i \in Journeys : i = JourneyIn(c)
    BY <1>0, <1>4, CallJourney DEF IInv, Commits
  <2>2. PICK r \in Requests : r = call[c].request
    BY <1>0, <1>4, CallJourney DEF IInv, Commits
  <2>3. i \in active /\ active' = active
    BY <1>4, <2>1 DEF IInv, LockHeld, Commits
  <2>4. /\ NewStop(c) \in Stop /\ NewStop(c).request = r
        /\ NewStop(c).sequence = Cardinality(StopsOf(i)) + 1
        /\ StopsOf(i)' = StopsOf(i) \cup {NewStop(c)}
        /\ Cardinality(StopsOf(i)') = Cardinality(StopsOf(i)) + 1
    BY <1>0, <1>4, <2>1, <2>2, NewStopType, StopsAfter DEF IInv, Commits
  <2>5. Numbered(StopsOf(i)) /\ StopsOf(i) \in SUBSET Stop
    BY StopsNumbered
  <2>6. Numbered(StopsOf(i)')
    <3>1. IsFiniteSet(stops') /\ StopsOf(i)' \in SUBSET stops'
      BY <1>0 DEF IInv, StopsWellFormed, StopsOf
    <3>2. IsFiniteSet(StopsOf(i)')
      BY <3>1, FS_Subset
    <3> QED BY <1>0, <3>2 DEF IInv, Contiguous, Sequences, Numbered
  <2>7. LogOf(i)' = Append(LogOf(i), r)
    <3>1. InOrder(StopsOf(i) \cup {NewStop(c)}) = Append(InOrder(StopsOf(i)), NewStop(c).request)
      BY <2>4, <2>5, <2>6, AppendStop
    <3> QED BY <1>1, <1>2, <2>4, <3>1
  <2>8. r \notin Range(LogOf(i))
    <3>1. Range(LogOf(i)) = {s.request : s \in StopsOf(i)}
      BY <1>1, <2>5, NthStop
    <3>2. \A s \in StopsOf(i) : s.request # r
      BY <1>4, <2>1, <2>2 DEF Commits, StopFor, StopsOf, JourneyIn
    <3> QED BY <3>1, <3>2
  <2>9. \A j \in Journeys : j # i => LogOf(j)' = LogOf(j)
    BY <1>1, <1>2, <1>4, <2>1, StopsAfter
  <2>10. LogNow' = [LogNow EXCEPT ![i] = Append(@, r)]
    BY <2>7, <2>9 DEF LogNow
  <2>11. Timelines!Write(i, r)
    BY <2>3, <2>8, <2>10 DEF LogNow, LogOf, Range, Timelines!Range, Timelines!Write
  <2> QED BY <2>11 DEF Timelines!Next
<1> QED BY <1>3, <1>4, TimelineStep DEF IInv

\* The timelines are the logs of JourneyLog.
THEOREM TimelineIsJourneyLog == Spec => ImplementsJourneyLog
<1>1. Init => Timelines!Init
  <2> SUFFICES ASSUME Init PROVE Timelines!Init
    OBVIOUS
  <2>1. \A j \in Journeys : StopsOf(j) = {} /\ Cardinality({}) = 0
    BY FS_EmptySet DEF Init, StopsOf
  <2>2. \A j \in Journeys : LogOf(j) = <<>>
    BY <2>1 DEF LogOf
  <2> QED BY <2>2 DEF Init, LogOf, Timelines!Init
<1>2. IInv /\ [Next]_vars => [Timelines!Next]_(Timelines!vars)
  BY JourneyLogStep
<1> QED BY <1>1, <1>2, Invariant, PTL DEF Spec, ImplementsJourneyLog, Timelines!Spec

\* What joins is of an active journey, and nothing leaves.
TimelineClosed ==
  [][/\ stops \subseteq stops'
     /\ \A s \in stops' \ stops : s.journey \in active /\ s.journey \in active']_vars

\* LockActiveJourney closes the timeline of a journey that is over: a stop
\* joins only an active journey, and none leaves.
THEOREM TimelineIsClosed == Spec => TimelineClosed
<1>1. IInv /\ [Next]_vars =>
        [/\ stops \subseteq stops'
         /\ \A s \in stops' \ stops : s.journey \in active /\ s.journey \in active']_vars
  <2> SUFFICES ASSUME IInv, [Next]_vars
               PROVE  /\ stops \subseteq stops'
                      /\ \A s \in stops' \ stops : s.journey \in active /\ s.journey \in active'
    OBVIOUS
  <2>1. CASE stops' = stops
    BY <2>1
  <2>2. ASSUME NEW c \in Calls, Commits(c)
        PROVE  /\ stops \subseteq stops'
               /\ \A s \in stops' \ stops : s.journey \in active /\ s.journey \in active'
    <3>1. NewStop(c).journey = JourneyIn(c) /\ JourneyIn(c) \in active
      BY <2>2, NewStopType DEF IInv, Commits, LockHeld
    <3> QED BY <2>2, <3>1 DEF Commits
  <2> QED BY <2>1, <2>2, TimelineStep DEF IInv
<1> QED BY <1>1, Invariant, PTL DEF Spec, TimelineClosed

\* A repeated pin or save leaves what was changed since: CreatePlace keeps the
\* row it finds, and nothing brings a deleted place back.
THEOREM RepeatsAreHarmless == Spec => RepeatsUndoNothing
<1> DEFINE Kept == /\ edited \subseteq edited'
                   /\ \A r \in Requests \cup Saves :
                        /\ places[r] = "edited" => places'[r] # "live"
                        /\ places[r] = "deleted" => places'[r] = "deleted"
<1>1. IInv /\ [Next]_vars => [Kept]_vars
  <2> SUFFICES ASSUME TypeOK, LockHeld, Next PROVE Kept
    BY DEF IInv
  <2>1. ASSUME NEW c \in Calls, PinCommits(c) PROVE Kept
    <3>1. edited' = edited /\ places' = [places EXCEPT ![call[c].request] = CreatePlace(@)]
      BY <2>1 DEF PinCommits
    <3> QED BY <3>1 DEF CreatePlace, TypeOK
  <2>2. ASSUME NEW r \in Requests \cup Saves, SavePlace(r) \/ ChangePlace(r) \/ RemovePlace(r)
        PROVE  Kept
    BY <2>2 DEF SavePlace, ChangePlace, RemovePlace, CreatePlace, UpdatePlace, DeletePlace, Live,
                TypeOK
  <2>3. ASSUME NEW r \in Requests, UpdateStop(r) PROVE Kept
    BY <2>3 DEF UpdateStop, UpdateJourneyStopMetadata
  <2>4. CASE UNCHANGED <<places, edited>>
    BY <2>4
  <2> QED BY <2>1, <2>2, <2>3, <2>4
        DEF Next, EndJourney, PinCheck, LockActiveJourney, NextJourneyStopSequence, PinFails
<1> QED BY <1>1, Invariant, PTL DEF Spec, RepeatsUndoNothing
-----------------------------------------------------------------------------

CreatingRow == [step : CreateSteps, ended : BOOLEAN, stops : SUBSET Stop, photos : SUBSET Photos]
ShareRow == [state : {"none", "live", "revoked", "expired"}, ended : BOOLEAN, whole : BOOLEAN,
             items : SUBSET Item]

Over(j) == j \notin active

\* Stops that Create read are those the journey had then.
ReadsNumbered ==
  \A h \in Shares : creating[h].step \in {"stops", "photos"} => Numbered(creating[h].stops)

\* A journey that was over when Create began has the stops that were read.
ReadsComplete ==
  \A h \in Shares :
    /\ creating[h].step \in {"journey", "stops", "photos"} /\ creating[h].ended =>
         Over(SharedJourney(h))
    /\ creating[h].step \in {"stops", "photos"} /\ creating[h].ended =>
         creating[h].stops = StopsOf(SharedJourney(h))

\* A snapshot that says so is of a journey that is over.
EndedIsOver ==
  \A h \in Shares : shares[h].whole /\ shares[h].ended => Over(SharedJourney(h))

ShareInv ==
  /\ IInv
  /\ ShareTypeOK
  /\ ReadsNumbered
  /\ ReadsComplete
  /\ EndedIsOver
  /\ EndedSnapshotIsComplete
  /\ WholeSnapshotIsTimeline
-----------------------------------------------------------------------------

\* Among stops numbered 1 .. n, those up to a stop are as many as its number.
LEMMA PositionIsSequence ==
  ASSUME NEW S \in SUBSET Stop, Numbered(S), NEW s \in S
  PROVE  Cardinality({t \in S : t.sequence <= s.sequence}) = s.sequence
<1>. DEFINE k == s.sequence
            T == {t \in S : t.sequence <= k}
            f == [t \in T |-> t.sequence]
<1>1. k \in Nat \ {0} /\ k \in 1 .. Cardinality(S) /\ Cardinality(S) \in Nat
      /\ \A t \in S : t.sequence \in Nat \ {0}
  BY FS_CardinalityType DEF Numbered, Stop
<1>2. f \in [T -> 1 .. k]
  BY <1>1
<1>3. \A a, b \in T : f[a] = f[b] => a = b
  BY DEF Numbered
<1>4. \A i \in 1 .. k : \E t \in T : f[t] = i
  <2>. SUFFICES ASSUME NEW i \in 1 .. k PROVE \E t \in S : t.sequence = i /\ t.sequence <= k
    BY <1>1
  <2>1. i \in {t.sequence : t \in S}
    BY <1>1 DEF Numbered
  <2>. QED BY <2>1, <1>1
<1>5. f \in Bijection(T, 1 .. k)
  <2>. HIDE DEF f, T, k
  <2>. QED BY <1>2, <1>3, <1>4 DEF Bijection, Injection, Surjection, IsInjective
<1>6. IsFiniteSet(T)
  BY FS_Subset DEF Numbered
<1>7. Cardinality(1 .. k) = Cardinality(T)
  <2>. HIDE DEF f, T, k
  <2>. QED BY <1>5, <1>6, FS_Bijection DEF ExistsBijection
<1>. QED BY <1>1, <1>7, FS_Interval

\* What ListJourneyStops returns is numbered.
LEMMA StopsAreNumbered ==
  ASSUME IInv, NEW j \in Journeys
  PROVE  Numbered(StopsOf(j)) /\ StopsOf(j) \in SUBSET Stop
<1>1. IsFiniteSet(StopsOf(j)) /\ StopsOf(j) \in SUBSET Stop
  BY FS_Subset DEF IInv, StopsWellFormed, StopsOf, TypeOK
<1>. QED BY <1>1 DEF IInv, Contiguous, Numbered, Sequences

\* A journey that is over stays so and keeps its stops.
LEMMA OverStays ==
  ASSUME IInv, [Next]_vars, NEW j \in Journeys, Over(j)
  PROVE  Over(j)' /\ StopsOf(j)' = StopsOf(j)
<1>1. active' \subseteq active
  BY DEF Next, vars, EndJourney, PinCheck, LockActiveJourney, NextJourneyStopSequence, PinCommits,
         PinFails, SavePlace, ChangePlace, RemovePlace, UpdateStop
<1>2. stops' = stops \/ \E c \in Calls : Commits(c)
  BY TimelineStep DEF IInv
<1>3. ASSUME NEW c \in Calls, Commits(c) PROVE StopsOf(j)' = StopsOf(j)
  <2>1. JourneyIn(c) # j
    BY <1>3 DEF IInv, LockHeld, Commits, Over
  <2>. QED BY <1>3, <2>1, StopsAfter
<1>. QED BY <1>1, <1>2, <1>3 DEF Over, StopsOf

\* Sharing is a part of the program that only reads the timeline.
LEMMA ShareStepIsTimelineStep == [ShareNext]_allVars => [Next]_vars
  BY DEF ShareNext, allVars, PhotoProcessed, ShareStep, GetJourney, ReadStops, ReadPhotos,
         CreateItineraryShare, CreateFails, Revoke, ExpiryPasses, ResolveReads, ResolveSigns,
         UrlsExpire

\* Sharing implements Timeline: whatever Timeline promises holds with shares.
THEOREM ShareImplementsTimeline == ShareSpec => Spec
<1>1. ShareInit => Init
  BY DEF ShareInit
<1>. QED BY <1>1, ShareStepIsTimelineStep, PTL DEF ShareSpec, Spec
-----------------------------------------------------------------------------

\* The items of a snapshot, as CreateItineraryShare makes them.
Items(list, S) == IF list = <<>> THEN WholeTimeline(S) ELSE Chosen(list, S)

LEMMA ItemsAreTyped ==
  ASSUME NEW list \in Selections, NEW read \in CreatingRow, Numbered(read.stops), Valid(list, read)
  PROVE  Items(list, read.stops) \in SUBSET Item
<1>0. read.stops \in SUBSET Stop /\ read.photos \in SUBSET Photos
  BY DEF CreatingRow
<1>1. WholeTimeline(read.stops) \in SUBSET Item
  <2>. SUFFICES ASSUME NEW s \in read.stops
                PROVE  [position |-> Cardinality({t \in read.stops : t.sequence <= s.sequence}),
                        stop |-> s, photos |-> {}] \in Item
    BY DEF WholeTimeline
  <2>1. Cardinality({t \in read.stops : t.sequence <= s.sequence}) = s.sequence
    BY <1>0, PositionIsSequence
  <2>2. s \in Stop /\ s.sequence \in Nat \ {0}
    BY <1>0 DEF Stop
  <2>. QED BY <2>1, <2>2 DEF Item
<1>2. Chosen(list, read.stops) \in SUBSET Item
  <2>. SUFFICES ASSUME NEW i \in DOMAIN list
                PROVE  [position |-> i, stop |-> CHOOSE s \in read.stops : s.request = list[i].request,
                        photos |-> list[i].photos] \in Item
    BY DEF Chosen
  <2>0. list \in Seq([request : Requests, photos : SUBSET Photos])
    BY SelectionAssumption
  <2>1. i \in Nat \ {0} /\ list[i].photos \in SUBSET Photos
    <3>1. /\ DOMAIN list = 1 .. Len(list) /\ Len(list) \in Nat
          /\ list \in [1 .. Len(list) -> [request : Requests, photos : SUBSET Photos]]
      BY <2>0, LenProperties
    <3>. QED BY <3>1
  <2>2. (CHOOSE s \in read.stops : s.request = list[i].request) \in read.stops
    <3>1. \E s \in read.stops : s.request = list[i].request
      BY DEF Valid
    <3>. QED BY <3>1
  <2>. QED BY <1>0, <2>1, <2>2 DEF Item
<1>. QED BY <1>1, <1>2 DEF Items

\* CreateItineraryShare either stores one row or none.
LEMMA CreateStores ==
  ASSUME ShareInv, NEW h \in Shares, CreateItineraryShare(h)
  PROVE  \/ shares' = shares
         \/ \E list \in Selections :
              /\ shares' = [shares EXCEPT ![h] =
                              [state |-> "live", ended |-> creating[h].ended, whole |-> list = <<>>,
                               items |-> Items(list, creating[h].stops)]]
              /\ shares' \in [Shares -> ShareRow]
<1>1. creating[h] \in CreatingRow /\ creating[h].step = "photos" /\ Numbered(creating[h].stops)
  BY DEF ShareInv, ShareTypeOK, ReadsNumbered, CreateItineraryShare, CreatingRow
<1>2. PICK list \in Selections :
        shares' = IF Valid(list, creating[h])
                  THEN [shares EXCEPT ![h] =
                          [state |-> "live", ended |-> creating[h].ended, whole |-> list = <<>>,
                           items |-> Items(list, creating[h].stops)]]
                  ELSE shares
  BY DEF CreateItineraryShare, Ended, Items
<1>3. CASE Valid(list, creating[h])
  <2>1. Items(list, creating[h].stops) \in SUBSET Item
    BY <1>1, <1>3, ItemsAreTyped
  <2>2. creating[h].ended \in BOOLEAN /\ (list = <<>>) \in BOOLEAN
    BY <1>1 DEF CreatingRow
  <2>3. [state |-> "live", ended |-> creating[h].ended, whole |-> list = <<>>,
         items |-> Items(list, creating[h].stops)] \in ShareRow
    BY <2>1, <2>2 DEF ShareRow
  <2>. QED BY <1>2, <1>3, <2>3 DEF ShareInv, ShareTypeOK, ShareRow
<1>4. CASE ~Valid(list, creating[h])
  BY <1>2, <1>4
<1>. QED BY <1>3, <1>4

LEMMA ShareTypeStep == ShareInv /\ [ShareNext]_allVars => ShareTypeOK'
<1>. SUFFICES ASSUME ShareInv, [ShareNext]_allVars PROVE ShareTypeOK'
  OBVIOUS
<1>0. /\ processed \subseteq Photos /\ resolving \subseteq Shares /\ urls \subseteq Shares
      /\ creating \in [Shares -> CreatingRow] /\ shares \in [Shares -> ShareRow]
      /\ NotCreating \in CreatingRow /\ stops \subseteq Stop
  BY DEF ShareInv, ShareTypeOK, CreatingRow, ShareRow, NotCreating, CreateSteps, IInv, TypeOK
<1>a. ASSUME processed' \subseteq Photos, resolving' \subseteq Shares, urls' \subseteq Shares,
             creating' \in [Shares -> CreatingRow], shares' \in [Shares -> ShareRow]
      PROVE  ShareTypeOK'
  BY <1>a DEF ShareTypeOK, CreatingRow, ShareRow
<1>1. ASSUME NEW h \in Shares, GetJourney(h) \/ ReadStops(h) \/ ReadPhotos(h) PROVE ShareTypeOK'
  <2>1. creating' \in [Shares -> CreatingRow]
    BY <1>0, <1>1 DEF GetJourney, ReadStops, ReadPhotos, CreatingRow, CreateSteps, ListJourneyStops,
                      StopsOf, ListPhotosForShare
  <2>. QED BY <1>0, <1>1, <1>a, <2>1 DEF GetJourney, ReadStops, ReadPhotos
<1>2. ASSUME NEW h \in Shares, CreateItineraryShare(h) PROVE ShareTypeOK'
  <2>1. [NotCreating EXCEPT !.step = "done"] \in CreatingRow
    BY DEF NotCreating, CreatingRow, CreateSteps
  <2>2. creating' \in [Shares -> CreatingRow]
    BY <1>0, <1>2, <2>1 DEF CreateItineraryShare
  <2>3. shares' \in [Shares -> ShareRow]
    BY <1>0, <1>2, CreateStores
  <2>. QED BY <1>0, <1>2, <1>a, <2>2, <2>3 DEF CreateItineraryShare
<1>3. ASSUME NEW h \in Shares, CreateFails(h) PROVE ShareTypeOK'
  BY <1>0, <1>3, <1>a DEF CreateFails
<1>4. ASSUME NEW h \in Shares, Revoke(h) \/ ExpiryPasses(h) PROVE ShareTypeOK'
  <2>1. [shares[h] EXCEPT !.state = "revoked"] \in ShareRow
        /\ [shares[h] EXCEPT !.state = "expired"] \in ShareRow
    BY <1>0 DEF ShareRow
  <2>2. shares' \in [Shares -> ShareRow]
    BY <1>0, <1>4, <2>1 DEF Revoke, ExpiryPasses, RevokeItineraryShare
  <2>. QED BY <1>0, <1>4, <1>a, <2>2 DEF Revoke, ExpiryPasses
<1>5. ASSUME NEW h \in Shares, ResolveReads(h) \/ ResolveSigns(h) \/ UrlsExpire(h) PROVE ShareTypeOK'
  BY <1>0, <1>5, <1>a DEF ResolveReads, ResolveSigns, UrlsExpire
<1>6. ASSUME NEW p \in Photos, PhotoProcessed(p) PROVE ShareTypeOK'
  BY <1>0, <1>6, <1>a DEF PhotoProcessed
<1>7. CASE UNCHANGED shareVars
  BY <1>0, <1>7, <1>a DEF shareVars
<1>. QED BY <1>1, <1>2, <1>3, <1>4, <1>5, <1>6, <1>7 DEF ShareNext, ShareStep, allVars

\* What Create has read of one share, from the statement that read it on.
LEMMA ReadsStep == ShareInv /\ [ShareNext]_allVars => ReadsNumbered' /\ ReadsComplete'
<1>. SUFFICES ASSUME ShareInv, [ShareNext]_allVars, NEW g \in Shares
              PROVE  /\ creating'[g].step \in {"stops", "photos"} => Numbered(creating'[g].stops)
                     /\ creating'[g].step \in {"journey", "stops", "photos"} /\ creating'[g].ended =>
                          Over(SharedJourney(g))'
                     /\ creating'[g].step \in {"stops", "photos"} /\ creating'[g].ended =>
                          creating'[g].stops = StopsOf(SharedJourney(g))'
  BY DEF ReadsNumbered, ReadsComplete, Numbered
<1>. DEFINE j == SharedJourney(g)
<1>0. /\ creating \in [Shares -> CreatingRow] /\ NotCreating.step = "idle" /\ j \in Journeys
      /\ IInv /\ ReadsNumbered /\ ReadsComplete /\ [Next]_vars
  BY SharedAssumption, ShareStepIsTimelineStep DEF ShareInv, ShareTypeOK, CreatingRow, NotCreating
<1>1. Over(j) => Over(j)' /\ StopsOf(j)' = StopsOf(j)
  BY <1>0, OverStays
<1>2. CASE creating'[g] = creating[g]
  BY <1>0, <1>1, <1>2 DEF ReadsNumbered, ReadsComplete
<1>3. CASE GetJourney(g)
  <2>1. creating'[g].step = "journey" /\ creating'[g].ended = Over(j) /\ active' = active
    BY <1>0, <1>3 DEF GetJourney, CreatingRow, Over, vars
  <2>. QED BY <2>1 DEF Over
<1>4. CASE ReadStops(g)
  <2>1. /\ creating[g].step = "journey" /\ creating'[g].step = "stops"
        /\ creating'[g].ended = creating[g].ended /\ creating'[g].stops = StopsOf(j)
        /\ active' = active /\ StopsOf(j)' = StopsOf(j)
    BY <1>0, <1>4 DEF ReadStops, CreatingRow, ListJourneyStops, vars, StopsOf
  <2>2. Numbered(StopsOf(j))
    BY <1>0, StopsAreNumbered
  <2>. QED BY <1>0, <1>1, <2>1, <2>2 DEF ReadsComplete
<1>5. CASE ReadPhotos(g)
  <2>1. /\ creating[g].step = "stops" /\ creating'[g].step = "photos"
        /\ creating'[g].ended = creating[g].ended /\ creating'[g].stops = creating[g].stops
    BY <1>0, <1>5 DEF ReadPhotos, CreatingRow
  <2>. QED BY <1>0, <1>1, <2>1 DEF ReadsNumbered, ReadsComplete
<1>6. CASE CreateItineraryShare(g) \/ CreateFails(g)
  <2>1. creating'[g].step \in {"idle", "done"}
    BY <1>0, <1>6 DEF CreateItineraryShare, CreateFails, NotCreating
  <2>. QED BY <2>1
<1>7. ASSUME NEW h \in Shares, ShareStep(h), creating'[g] # creating[g]
      PROVE  GetJourney(g) \/ ReadStops(g) \/ ReadPhotos(g) \/ CreateItineraryShare(g) \/ CreateFails(g)
  BY <1>0, <1>7 DEF ShareStep, GetJourney, ReadStops, ReadPhotos, CreateItineraryShare, CreateFails,
         Revoke, ExpiryPasses, ResolveReads, ResolveSigns, UrlsExpire
<1>. QED BY <1>2, <1>3, <1>4, <1>5, <1>6, <1>7 DEF ShareNext, allVars, shareVars, PhotoProcessed

\* What a row says stays; a new one is what was read.
LEMMA SnapshotStep ==
  ShareInv /\ [ShareNext]_allVars =>
    EndedIsOver' /\ EndedSnapshotIsComplete' /\ WholeSnapshotIsTimeline'
<1>. SUFFICES ASSUME ShareInv, [ShareNext]_allVars, NEW g \in Shares
              PROVE  /\ shares'[g].whole /\ shares'[g].ended => Over(SharedJourney(g))'
                     /\ shares'[g].whole /\ shares'[g].ended =>
                          {item.stop : item \in shares'[g].items} = StopsOf(SharedJourney(g))'
                     /\ shares'[g].whole =>
                          \A item \in shares'[g].items : item.position = item.stop.sequence
  BY DEF EndedIsOver, EndedSnapshotIsComplete, WholeSnapshotIsTimeline, ItemStops
<1>. DEFINE j == SharedJourney(g)
<1>0. /\ shares \in [Shares -> ShareRow] /\ creating \in [Shares -> CreatingRow] /\ j \in Journeys
      /\ IInv /\ [Next]_vars /\ ReadsNumbered /\ ReadsComplete
      /\ EndedIsOver /\ EndedSnapshotIsComplete /\ WholeSnapshotIsTimeline
  BY SharedAssumption, ShareStepIsTimelineStep DEF ShareInv, ShareTypeOK, CreatingRow, ShareRow
<1>1. Over(j) => Over(j)' /\ StopsOf(j)' = StopsOf(j)
  BY <1>0, OverStays
<1>2. CASE /\ shares'[g].whole = shares[g].whole /\ shares'[g].ended = shares[g].ended
           /\ shares'[g].items = shares[g].items
  BY <1>0, <1>1, <1>2 DEF EndedIsOver, EndedSnapshotIsComplete, WholeSnapshotIsTimeline, ItemStops
<1>3. CASE CreateItineraryShare(g)
  <2>. DEFINE S == creating[g].stops
  <2>1. /\ creating[g].step = "photos" /\ Numbered(S) /\ S \in SUBSET Stop
        /\ creating[g].ended => Over(j) /\ S = StopsOf(j)
    BY <1>0, <1>3 DEF CreateItineraryShare, ReadsNumbered, ReadsComplete, CreatingRow
  <2>2. CASE shares' = shares
    BY <1>2, <2>2
  <2>3. ASSUME NEW list \in Selections,
               shares' = [shares EXCEPT ![g] =
                            [state |-> "live", ended |-> creating[g].ended, whole |-> list = <<>>,
                             items |-> Items(list, S)]]
        PROVE  /\ shares'[g].whole /\ shares'[g].ended => Over(j)'
               /\ shares'[g].whole /\ shares'[g].ended =>
                    {item.stop : item \in shares'[g].items} = StopsOf(j)'
               /\ shares'[g].whole =>
                    \A item \in shares'[g].items : item.position = item.stop.sequence
    <3>1. /\ shares'[g].whole <=> list = <<>>
          /\ shares'[g].ended = creating[g].ended
          /\ list = <<>> => shares'[g].items = WholeTimeline(S)
      BY <1>0, <2>3 DEF Items
    <3>. DEFINE item(s) == [position |-> Cardinality({t \in S : t.sequence <= s.sequence}),
                            stop |-> s, photos |-> {}]
    <3>0. WholeTimeline(S) = {item(s) : s \in S}
      BY DEF WholeTimeline
    <3>a. \A s : item(s).stop = s
      OBVIOUS
    <3>b. \A s \in S : item(s).position = s.sequence
      BY <2>1, PositionIsSequence
    <3>2. {i.stop : i \in WholeTimeline(S)} = S
      <4>. HIDE DEF item, S
      <4>. QED BY <3>0, <3>a
    <3>3. \A i \in WholeTimeline(S) : i.position = i.stop.sequence
      <4>. HIDE DEF item, S
      <4>. QED BY <3>0, <3>a, <3>b
    <3>. HIDE DEF S, j
    <3>. QED BY <1>1, <2>1, <3>1, <3>2, <3>3
  <2>. QED BY <1>3, <2>2, <2>3, CreateStores DEF ShareInv
<1>4. ASSUME NEW h \in Shares, Revoke(h) \/ ExpiryPasses(h)
      PROVE  /\ shares'[g].whole = shares[g].whole /\ shares'[g].ended = shares[g].ended
             /\ shares'[g].items = shares[g].items
  BY <1>0, <1>4 DEF Revoke, ExpiryPasses, RevokeItineraryShare, ShareRow
<1>5. ASSUME NEW h \in Shares, CreateItineraryShare(h), h # g PROVE shares'[g] = shares[g]
  BY <1>0, <1>5, CreateStores
<1>6. ASSUME NEW h \in Shares, ShareStep(h), ~CreateItineraryShare(h), ~Revoke(h), ~ExpiryPasses(h)
      PROVE  shares' = shares
  BY <1>6 DEF ShareStep, GetJourney, ReadStops, ReadPhotos, CreateFails, ResolveReads, ResolveSigns,
         UrlsExpire
<1>7. CASE shares' = shares
  BY <1>2, <1>7
<1>8. ASSUME NEW h \in Shares, ShareStep(h)
      PROVE  \/ CreateItineraryShare(g)
             \/ /\ shares'[g].whole = shares[g].whole /\ shares'[g].ended = shares[g].ended
                /\ shares'[g].items = shares[g].items
  BY <1>4, <1>5, <1>6, <1>8
<1>. QED BY <1>2, <1>3, <1>7, <1>8 DEF ShareNext, allVars, shareVars, PhotoProcessed

LEMMA ShareInitInv == ShareInit => ShareInv
<1>. SUFFICES ASSUME ShareInit PROVE ShareInv
  OBVIOUS
<1>1. IInv
  BY Initially DEF ShareInit
<1>2. ShareTypeOK
  BY DEF ShareInit, ShareTypeOK, NotCreating, NoShare, CreateSteps
<1>3. ReadsNumbered /\ ReadsComplete
  BY DEF ShareInit, ReadsNumbered, ReadsComplete, NotCreating
<1>4. EndedIsOver /\ EndedSnapshotIsComplete /\ WholeSnapshotIsTimeline
  BY DEF ShareInit, EndedIsOver, EndedSnapshotIsComplete, WholeSnapshotIsTimeline, NoShare
<1>. QED BY <1>1, <1>2, <1>3, <1>4 DEF ShareInv

LEMMA ShareInvariance == ShareSpec => []ShareInv
<1>1. ShareInv /\ [ShareNext]_allVars => ShareInv'
  BY ShareStepIsTimelineStep, Inductive, ShareTypeStep, ReadsStep, SnapshotStep DEF ShareInv
<1>. QED BY <1>1, ShareInitInv, PTL DEF ShareSpec
-----------------------------------------------------------------------------

\* GetJourney comes first in Create: a snapshot of the whole journey that says
\* when it ended holds every stop the journey will ever have.
THEOREM EndedSnapshots == ShareSpec => []EndedSnapshotIsComplete
<1>1. ShareInv => EndedSnapshotIsComplete
  BY DEF ShareInv
<1>. QED BY <1>1, ShareInvariance, PTL

\* A snapshot of the whole journey numbers its stops as the timeline does,
\* however many pins were racing when they were read.
THEOREM WholeSnapshots == ShareSpec => []WholeSnapshotIsTimeline
<1>1. ShareInv => WholeSnapshotIsTimeline
  BY DEF ShareInv
<1>. QED BY <1>1, ShareInvariance, PTL

\* Contiguous numbers, with shares in the system.
THEOREM SharedNumbersAreContiguous == ShareSpec => []Contiguous
  BY ShareImplementsTimeline, NumbersAreContiguous, PTL

\* With shares in the system timelines are the logs of JourneyLog as well.
THEOREM SharedTimelineIsJourneyLog == ShareSpec => ImplementsJourneyLog
  BY ShareImplementsTimeline, TimelineIsJourneyLog, PTL

\* Timelines of journeys that are over stay closed, with shares in the system.
THEOREM SharedTimelineIsClosed == ShareSpec => TimelineClosed
  BY ShareImplementsTimeline, TimelineIsClosed, PTL
=============================================================================
