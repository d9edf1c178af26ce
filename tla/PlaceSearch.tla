---------------------------- MODULE PlaceSearch ----------------------------
(***************************************************************************)
(* Place suggestions on the server: the limiter in front of the handler,   *)
(* placesearch.Service with its cache and the provider's daily usage in    *)
(* the database, and the slot the Geoapify client waits for, which spaces  *)
(* requests.  A call is one request to GET /places/search; the steps of    *)
(* calls interleave, and a caller who goes away makes any of them fail.    *)
(***************************************************************************)
EXTENDS RateLimiter, FiniteSets

CONSTANTS
  Calls,         \* requests
  User(_),       \* who makes a call: the limiter's key
  Queries,       \* normalized texts
  Meaningful,    \* the texts of 3 to 200 characters
  DailyBudget,   \* GEOAPIFY_DAILY_BUDGET
  DayLength,     \* of a UTC day, in ticks
  MinimumDelay,  \* minimumDelay, in ticks
  Second,        \* a second, in ticks; a multiple of the delay
  ResultTTL, EmptyTTL,
  MaxTime        \* bound: the clock stops here when nothing waits for it

ASSUME UserAssumption == \A c \in Calls : User(c) \in Keys
ASSUME MeaningfulAssumption == Meaningful \subseteq Queries
ASSUME SearchAssumption ==
  /\ DailyBudget \in Nat \ {0} /\ DayLength \in Nat \ {0} /\ MinimumDelay \in Nat \ {0}
  /\ Second \in Nat \ {0}
  /\ ResultTTL \in Nat \ {0} /\ EmptyTTL \in Nat \ {0} /\ MaxTime \in Nat

VARIABLES
  call,        \* per call: what it asks for, how far it is and what it got
  cache,       \* place_search_cache
  usage,       \* the newest row of provider_daily_usage
  slot,        \* the call that holds the client's mutex, or Free
  lastRequest, \* lastRequest of the client
  sentAt       \* history: per call, when its request went to the provider

searchVars == <<now, limiterVars, call, cache, usage, slot, lastRequest, sentAt>>

Free == 0
ASSUME CallsAssumption == Calls \subseteq Nat \ {Free}

NoRow == [results |-> "none", expiresAt |-> 0]
NoTimer == 0
NotSent == 0
Unasked == [at |-> "unasked", query |-> "none", day |-> 0, ready |-> NoTimer, results |-> "none"]
Answered(c) == call[c].at = "answered"

SearchInit ==
  /\ LimiterInit
  /\ call = [c \in Calls |-> Unasked]
  /\ cache = [q \in Queries |-> NoRow]
  /\ usage = [day |-> 0, count |-> 0]
  /\ slot = Free
  /\ lastRequest = -MinimumDelay
  /\ sentAt = [c \in Calls |-> NotSent]

Moves(c, from, to) == call[c].at = from /\ call' = [call EXCEPT ![c].at = to]
Answers(c, from, results) ==
  /\ call[c].at = from
  /\ call' = [call EXCEPT ![c].at = "answered", ![c].results = results, ![c].ready = NoTimer]

Ask(c, q) ==
  /\ call[c] = Unasked
  /\ call' = [call EXCEPT ![c].at = "asked", ![c].query = q]
  /\ UNCHANGED <<now, limiterVars, cache, usage, slot, lastRequest, sentAt>>

\* A caller that is offline has its error at once; the server hears nothing.
AskOffline(c, q) ==
  /\ call[c] = Unasked
  /\ call' = [call EXCEPT ![c].at = "answered", ![c].query = q, ![c].results = "error"]
  /\ UNCHANGED <<now, limiterVars, cache, usage, slot, lastRequest, sentAt>>

\* The limiter's middleware, and the checks of Search before it reads.
Middleware(c) ==
  /\ call[c].at = "asked"
  /\ Allow(User(c))
  /\ IF Admits(User(c)) /\ call[c].query \in Meaningful
     THEN Moves(c, "asked", "reading")
     ELSE Answers(c, "asked", "error")
  /\ UNCHANGED <<now, cache, usage, slot, lastRequest, sentAt>>

Cached(q) == cache[q].expiresAt > now

GetPlaceSearchCache(c) ==
  /\ call[c].at = "reading"
  /\ IF Cached(call[c].query)
     THEN Answers(c, "reading", cache[call[c].query].results)
     ELSE Moves(c, "reading", "reserving")
  /\ UNCHANGED <<now, limiterVars, cache, usage, slot, lastRequest, sentAt>>

Today == now \div DayLength
RowOfToday == IF usage.day = Today THEN usage ELSE [day |-> Today, count |-> 0]

\* Mutant of MayReserve: the upsert has no WHERE clause.
MayReserveAny == TRUE

\* The first request of a day inserts the row whatever the limit, which is positive.
MayReserve == RowOfToday.count = 0 \/ RowOfToday.count < DailyBudget

\* One statement: no row comes back once the limit is reached.
ReserveProviderDailyUsage(c) ==
  /\ IF MayReserve
     THEN /\ usage' = [RowOfToday EXCEPT !.count = @ + 1]
          /\ call[c].at = "reserving"
          /\ call' = [call EXCEPT ![c].at = "locking", ![c].day = Today]
     ELSE Answers(c, "reserving", "error") /\ UNCHANGED usage
  /\ UNCHANGED <<now, limiterVars, cache, slot, lastRequest, sentAt>>

\* Mutant of WaitForSlot: no mutex is taken.
WaitUnlocked(c) ==
  /\ call[c].at = "locking"
  /\ call' = [call EXCEPT ![c].at = "waiting", ![c].ready = lastRequest + MinimumDelay]
  /\ UNCHANGED <<now, limiterVars, cache, usage, slot, lastRequest, sentAt>>

\* waitForSlot takes the mutex and sets its timer; whoever waits holds the mutex.
WaitForSlot(c) ==
  /\ slot = Free
  /\ call[c].at = "locking"
  /\ slot' = c
  /\ call' = [call EXCEPT ![c].at = "waiting", ![c].ready = lastRequest + MinimumDelay]
  /\ UNCHANGED <<now, limiterVars, cache, usage, lastRequest, sentAt>>

\* The timer fires, or there was nothing to wait for: the slot is this call's,
\* and the mutex is unlocked.
TakeSlot(c) ==
  /\ now >= call[c].ready
  /\ call[c].at = "waiting"
  /\ call' = [call EXCEPT ![c].at = "leaving", ![c].ready = NoTimer]
  /\ lastRequest' = now
  /\ slot' = Free
  /\ UNCHANGED <<now, limiterVars, cache, usage, sentAt>>

\* The request goes out, however long after its slot.
Send(c) ==
  /\ Moves(c, "leaving", "calling")
  /\ sentAt' = [sentAt EXCEPT ![c] = now]
  /\ UNCHANGED <<now, limiterVars, cache, usage, slot, lastRequest>>

\* Mutant of WaitCancelled: the return leaves the mutex locked.
WaitCancelledLocked(c) ==
  /\ Answers(c, "waiting", "error")
  /\ UNCHANGED <<now, limiterVars, cache, usage, slot, lastRequest, sentAt>>

\* The caller is gone before the timer fires.
WaitCancelled(c) ==
  /\ Answers(c, "waiting", "error")
  /\ slot' = Free
  /\ UNCHANGED <<now, limiterVars, cache, usage, lastRequest, sentAt>>

\* The provider answers, or the call fails, maybe before it was sent.
Suggest(c) ==
  /\ \/ /\ call[c].at = "calling"
        /\ \E found \in {"places", "nothing"} :
             call' = [call EXCEPT ![c].at = "storing", ![c].results = found]
     \/ \E at \in {"leaving", "calling"} : Answers(c, at, "error")
  /\ UNCHANGED <<now, limiterVars, cache, usage, slot, lastRequest, sentAt>>

UpsertPlaceSearchCache(c) ==
  /\ call[c].at = "storing"
  /\ cache' = [cache EXCEPT ![call[c].query] =
       [results |-> call[c].results,
        expiresAt |-> now + IF call[c].results = "nothing" THEN EmptyTTL ELSE ResultTTL]]
  /\ Answers(c, "storing", call[c].results)
  /\ UNCHANGED <<now, limiterVars, usage, slot, lastRequest, sentAt>>

\* A statement fails: the call is answered with an error, and what it reserved
\* or fetched is lost.
Fails(c) ==
  /\ \E at \in {"reading", "reserving", "storing"} : Answers(c, at, "error")
  /\ UNCHANGED <<now, limiterVars, cache, usage, slot, lastRequest, sentAt>>

Tick ==
  /\ now < MaxTime \/ \E c \in Calls : call[c].at = "waiting" /\ now < call[c].ready
  /\ now' = now + 1
  /\ UNCHANGED <<limiterVars, call, cache, usage, slot, lastRequest, sentAt>>

Serve(c) ==
  \/ Middleware(c) \/ GetPlaceSearchCache(c) \/ ReserveProviderDailyUsage(c)
  \/ WaitForSlot(c) \/ TakeSlot(c) \/ WaitCancelled(c) \/ Send(c) \/ Suggest(c)
  \/ UpsertPlaceSearchCache(c) \/ Fails(c)

SearchNext ==
  \/ \E c \in Calls : Serve(c) \/ \E q \in Queries : Ask(c, q) \/ AskOffline(c, q)
  \/ Tick

SearchSpec == SearchInit /\ [][SearchNext]_searchVars
-----------------------------------------------------------------------------

Sent == {c \in Calls : sentAt[c] # NotSent}

\* However calls interleave, fail and retry, the provider gets no more requests
\* on the budget of a day than the budget has.
WithinDailyBudget ==
  \A d \in {call[c].day : c \in Sent} :
    Cardinality({c \in Sent : call[c].day = d}) <= DailyBudget

\* No two calls get a slot within the minimum delay, with several calls waiting
\* and some of them cancelled while they wait.
SlotsApart ==
  [][\A c \in Calls : call[c].at = "waiting" /\ call'[c].at = "leaving"
       => now - lastRequest >= MinimumDelay]_searchVars

\* What the implementation plan asks of the client, four upstream calls a
\* second: in no second leave more requests than it has slots.
RateHolds ==
  \A t \in {sentAt[c] : c \in Sent} :
    Cardinality({c \in Sent : t <= sentAt[c] /\ sentAt[c] < t + Second}) * MinimumDelay <= Second
=============================================================================
