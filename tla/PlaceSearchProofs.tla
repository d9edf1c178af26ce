-------------------------- MODULE PlaceSearchProofs --------------------------
(***************************************************************************)
(* Theorems about the limiter and the place search, from the box to the    *)
(* provider, for any number of keys, calls, users, budgets and delays.     *)
(*                                                                         *)
(* The limiter never lets more than twice its limit through in a window:   *)
(* the invariant relates a bucket to the history of its key, what was      *)
(* admitted before the bucket's window and what before the window that     *)
(* came before it (Remembers).                                             *)
(*                                                                         *)
(* The box adds nothing to what the server allows (BoxImplementsServer),   *)
(* and the server uses the limiter as it is (ServerImplementsLimiter); so  *)
(* what is shown of the limiter holds of both.  The slot of the client     *)
(* needs that whoever waits holds it (SlotInv), the budget that the        *)
(* requests on a day's budget are no more than its row counts (BudgetInv). *)
(***************************************************************************)
EXTENDS SearchBox, FiniteSetTheorems, TLAPS

Bucket == [startedAt : Nat, lastSeen : Nat, requests : Nat]

LimiterTypeOK ==
  /\ now \in Nat \ {0}
  /\ buckets \in [Keys -> Bucket]
  /\ lastSweep \in Nat
  /\ admitted \in [Keys -> Seq(Nat)]

\* A bucket in use began in the past and counts what its window admitted.
InUse(b, t) ==
  /\ 1 <= b.startedAt /\ b.startedAt <= b.lastSeen /\ b.lastSeen <= t
  /\ 1 <= b.requests /\ b.requests <= MaxRequests

\* What the admitted requests of a key tell about its bucket b at time t.
Remembers(b, h, t) ==
  \A i \in 1..Len(h) :
    /\ b = NoBucket => h[i] + Window <= t
    /\ b # NoBucket =>
         /\ h[i] <= b.lastSeen
         /\ i <= Len(h) - b.requests => h[i] <= b.startedAt
         /\ i <= Len(h) - b.requests - MaxRequests => h[i] + Window <= b.startedAt

\* Of 2 * MaxRequests + 1 requests the last comes a window after the first.
Spread(h) ==
  \A i \in 1..(Len(h) - 2 * MaxRequests) : h[i + 2 * MaxRequests] - h[i] >= Window

Fits(b, h, t) == (b = NoBucket \/ InUse(b, t)) /\ Remembers(b, h, t) /\ Spread(h)

LimiterInv == LimiterTypeOK /\ \A k \in Keys : Fits(buckets[k], admitted[k], now)
-----------------------------------------------------------------------------

\* What fits a bucket goes on to fit it while time passes.
LEMMA FitsLater ==
  ASSUME NEW b \in Bucket, NEW h \in Seq(Nat), NEW t \in Nat, NEW u \in Nat, t <= u, Fits(b, h, t)
  PROVE  Fits(b, h, u)
<1>. USE LimiterAssumption DEF Bucket
<1>1. b = NoBucket \/ InUse(b, u)
  BY DEF Fits, InUse
<1>2. Remembers(b, h, u)
  BY DEF Fits, Remembers
<1>. QED BY <1>1, <1>2 DEF Fits

\* A sweep forgets a bucket only when its requests are two windows old.
LEMMA FitsSwept ==
  ASSUME LimiterInv, NEW k \in Keys
  PROVE  Swept(k) \in Bucket /\ Fits(Swept(k), admitted[k], now)
<1>. USE LimiterAssumption
<1>. DEFINE b == buckets[k]
            h == admitted[k]
<1>0. b \in Bucket /\ h \in Seq(Nat) /\ now \in Nat /\ Fits(b, h, now) /\ NoBucket \in Bucket
  BY DEF LimiterInv, LimiterTypeOK, Bucket, NoBucket
<1>1. CASE Swept(k) = b
  BY <1>0, <1>1
<1>2. CASE Swept(k) = NoBucket /\ b # NoBucket /\ now - b.lastSeen >= 2 * Window
  <2>1. Remembers(NoBucket, h, now)
    <3>. SUFFICES ASSUME NEW i \in 1..Len(h) PROVE h[i] + Window <= now
      BY DEF Remembers
    <3>1. h[i] <= b.lastSeen
      BY <1>0, <1>2 DEF Fits, Remembers
    <3>2. h[i] \in Nat /\ b.lastSeen \in Nat
      BY <1>0 DEF Bucket
    <3>. QED BY <3>1, <3>2, <1>0, <1>2
  <2>. QED BY <2>1, <1>0, <1>2 DEF Fits
<1>3. Swept(k) = b \/ (Swept(k) = NoBucket /\ b # NoBucket /\ now - b.lastSeen >= 2 * Window)
  BY DEF Swept
<1>. QED BY <1>1, <1>2, <1>3

\* A request that begins a window: what came before the old window came a
\* window before this one.
LEMMA FitsNewWindow ==
  ASSUME NEW b \in Bucket, NEW h \in Seq(Nat), NEW t \in Nat \ {0}, Fits(b, h, t),
         b = NoBucket \/ t - b.startedAt >= Window
  PROVE  Fits([startedAt |-> t, lastSeen |-> t, requests |-> 1], Append(h, t), t)
<1>. USE LimiterAssumption
<1>. DEFINE c == [startedAt |-> t, lastSeen |-> t, requests |-> 1]
            n == Len(h)
            g == Append(h, t)
<1>1. /\ n \in Nat /\ g \in Seq(Nat) /\ Len(g) = n + 1 /\ g[n + 1] = t
      /\ \A i \in 1..n : g[i] = h[i] /\ h[i] \in Nat
  OBVIOUS
<1>2. c # NoBucket /\ InUse(c, t)
  BY DEF NoBucket, InUse
<1>3. \A i \in 1..n : h[i] <= t
  BY <1>1 DEF Fits, Remembers, InUse, Bucket
<1>4. \A i \in 1..n : i <= n - MaxRequests => h[i] + Window <= t
  <2>. SUFFICES ASSUME NEW i \in 1..n, i <= n - MaxRequests PROVE h[i] + Window <= t
    OBVIOUS
  <2>1. CASE b = NoBucket
    BY <2>1 DEF Fits, Remembers
  <2>2. CASE b # NoBucket
    <3>1. b.requests <= MaxRequests /\ b.requests \in Nat /\ b.startedAt \in Nat
      BY <2>2 DEF Fits, InUse, Bucket
    <3>2. i <= n - b.requests
      BY <3>1, <1>1
    <3>3. h[i] <= b.startedAt
      BY <3>2, <2>2 DEF Fits, Remembers
    <3>. QED BY <3>1, <3>3, <1>1, <2>2
  <2>. QED BY <2>1, <2>2
<1>5. Remembers(c, g, t)
  <2>. HIDE DEF g, c
  <2>. SUFFICES ASSUME NEW i \in 1..Len(g)
                PROVE  /\ g[i] <= t
                       /\ i <= Len(g) - 1 - MaxRequests => g[i] + Window <= t
    BY <1>2 DEF Remembers, c
  <2>1. CASE i = n + 1
    BY <2>1, <1>1
  <2>2. CASE i \in 1..n
    BY <2>2, <1>1, <1>3, <1>4
  <2>. QED BY <2>1, <2>2, <1>1
<1>7. \A i \in 1..n : i + 2 * MaxRequests <= n =>
        g[i + 2 * MaxRequests] - g[i] >= Window
  <2>. SUFFICES ASSUME NEW i \in 1..n, i + 2 * MaxRequests <= n
                PROVE  g[i + 2 * MaxRequests] - g[i] >= Window
    OBVIOUS
  <2>1. i \in 1..(Len(h) - 2 * MaxRequests) /\ i + 2 * MaxRequests \in 1..n
    BY <1>1
  <2>2. h[i + 2 * MaxRequests] - h[i] >= Window
    BY <2>1 DEF Fits, Spread
  <2>. QED BY <2>1, <2>2, <1>1
<1>6. Spread(g)
  <2>. HIDE DEF g, c
  <2>. SUFFICES ASSUME NEW i \in 1..(Len(g) - 2 * MaxRequests)
                PROVE  g[i + 2 * MaxRequests] - g[i] >= Window
    BY DEF Spread
  <2>0. i \in Nat /\ n \in Nat /\ 1 <= i /\ i + 2 * MaxRequests <= n + 1 /\ i <= n
    BY <1>1
  <2>1. CASE i + 2 * MaxRequests = n + 1
    <3>1. i \in 1..n /\ i <= n - MaxRequests
      BY <2>1, <1>1
    <3>2. g[i + 2 * MaxRequests] = t
      BY <2>1, <1>1
    <3>3. g[i] = h[i] /\ h[i] \in Nat /\ h[i] + Window <= t
      BY <3>1, <1>1, <1>4
    <3>. QED BY <3>2, <3>3
  <2>2. CASE i + 2 * MaxRequests <= n
    BY <2>0, <2>2, <1>1, <1>7
  <2>. HIDE DEF n
  <2>. QED BY <2>0, <2>1, <2>2
<1>. QED BY <1>2, <1>5, <1>6 DEF Fits

\* A request within a window that is not full.
LEMMA FitsOneMore ==
  ASSUME NEW b \in Bucket, NEW h \in Seq(Nat), NEW t \in Nat \ {0}, Fits(b, h, t),
         b # NoBucket, b.requests < MaxRequests
  PROVE  Fits([startedAt |-> b.startedAt, lastSeen |-> t, requests |-> b.requests + 1],
              Append(h, t), t)
<1>. USE LimiterAssumption
<1>. DEFINE c == [startedAt |-> b.startedAt, lastSeen |-> t, requests |-> b.requests + 1]
            n == Len(h)
            g == Append(h, t)
<1>1. /\ n \in Nat /\ g \in Seq(Nat) /\ Len(g) = n + 1 /\ g[n + 1] = t
      /\ \A i \in 1..n : g[i] = h[i] /\ h[i] \in Nat
  OBVIOUS
<1>2. /\ c.startedAt = b.startedAt /\ c.lastSeen = t /\ c.requests = b.requests + 1
      /\ b.startedAt \in Nat /\ b.requests \in Nat /\ b.lastSeen \in Nat
  BY DEF Bucket
<1>3. InUse(b, t)
  BY DEF Fits
<1>4. InUse(c, t) /\ c # NoBucket
  BY <1>2, <1>3 DEF InUse, NoBucket
<1>5. \A i \in 1..n : /\ h[i] <= t
                      /\ i <= n - b.requests => h[i] <= b.startedAt
                      /\ i <= n - b.requests - MaxRequests => h[i] + Window <= b.startedAt
  BY <1>1, <1>2, <1>3 DEF Fits, Remembers, InUse
<1>. HIDE DEF g, c
<1>6. Remembers(c, g, t)
  <2>. SUFFICES ASSUME NEW i \in 1..Len(g)
                PROVE  /\ g[i] <= t
                       /\ i <= n - b.requests => g[i] <= b.startedAt
                       /\ i <= n - b.requests - MaxRequests => g[i] + Window <= b.startedAt
    BY <1>1, <1>2, <1>4 DEF Remembers
  <2>1. CASE i = n + 1
    BY <2>1, <1>1, <1>2, <1>3 DEF InUse
  <2>2. CASE i \in 1..n
    BY <2>2, <1>1, <1>5
  <2>. QED BY <2>1, <2>2, <1>1
<1>8. \A i \in 1..n : i + 2 * MaxRequests <= n =>
        g[i + 2 * MaxRequests] - g[i] >= Window
  <2>. SUFFICES ASSUME NEW i \in 1..n, i + 2 * MaxRequests <= n
                PROVE  g[i + 2 * MaxRequests] - g[i] >= Window
    OBVIOUS
  <2>1. i \in 1..(Len(h) - 2 * MaxRequests) /\ i + 2 * MaxRequests \in 1..n
    BY <1>1
  <2>2. h[i + 2 * MaxRequests] - h[i] >= Window
    BY <2>1 DEF Fits, Spread
  <2>. QED BY <2>1, <2>2, <1>1
<1>7. Spread(g)
  <2>. SUFFICES ASSUME NEW i \in 1..(Len(g) - 2 * MaxRequests)
                PROVE  g[i + 2 * MaxRequests] - g[i] >= Window
    BY DEF Spread
  <2>0. i \in Nat /\ n \in Nat /\ 1 <= i /\ i + 2 * MaxRequests <= n + 1 /\ i <= n
    BY <1>1
  <2>1. CASE i + 2 * MaxRequests = n + 1
    <3>1. i \in 1..n /\ i <= n - b.requests - MaxRequests
      <4>. DEFINE r == b.requests
      <4>1. r \in Nat /\ r + 1 <= MaxRequests
        BY <1>2
      <4>. HIDE DEF n, r
      <4>2. i \in 1..n /\ i <= n - r - MaxRequests
        BY <4>1, <2>0, <2>1
      <4>. QED BY <4>2 DEF r
    <3>2. g[i + 2 * MaxRequests] = t
      BY <2>1, <1>1
    <3>3. g[i] = h[i] /\ h[i] \in Nat /\ h[i] + Window <= b.startedAt
      BY <3>1, <1>1, <1>5
    <3>4. b.startedAt <= t
      BY <1>2, <1>3 DEF InUse
    <3>. QED BY <3>2, <3>3, <3>4, <1>2
  <2>2. CASE i + 2 * MaxRequests <= n
    BY <2>0, <2>2, <1>1, <1>8
  <2>. HIDE DEF n
  <2>. QED BY <2>0, <2>1, <2>2
<1>. QED BY <1>4, <1>6, <1>7 DEF Fits, c, g

\* A request that is refused is remembered as seen and nothing else.
LEMMA FitsRefused ==
  ASSUME NEW b \in Bucket, NEW h \in Seq(Nat), NEW t \in Nat \ {0}, Fits(b, h, t), b # NoBucket
  PROVE  Fits([b EXCEPT !.lastSeen = t], h, t)
<1>. DEFINE c == [b EXCEPT !.lastSeen = t]
<1>1. /\ c.startedAt = b.startedAt /\ c.lastSeen = t /\ c.requests = b.requests
      /\ b.startedAt \in Nat /\ b.requests \in Nat /\ b.lastSeen \in Nat
  BY DEF Bucket
<1>2. InUse(c, t) /\ c # NoBucket
  BY <1>1 DEF Fits, InUse, NoBucket
<1>3. Remembers(c, h, t)
  BY <1>1, <1>2 DEF Fits, Remembers, InUse
<1>. QED BY <1>2, <1>3 DEF Fits
-----------------------------------------------------------------------------

LEMMA LimiterInitInv == LimiterInit => LimiterInv
<1>. SUFFICES ASSUME LimiterInit PROVE LimiterInv
  OBVIOUS
<1>1. LimiterTypeOK
  BY DEF LimiterInit, LimiterTypeOK, Bucket, NoBucket
<1>2. ASSUME NEW k \in Keys PROVE Fits(buckets[k], admitted[k], now)
  <2>1. buckets[k] = NoBucket /\ admitted[k] = << >> /\ Len(admitted[k]) = 0
    BY DEF LimiterInit
  <2>. QED BY <2>1, LimiterAssumption DEF Fits, Remembers, Spread
<1>. QED BY <1>1, <1>2 DEF LimiterInv

LEMMA AllowInv ==
  ASSUME LimiterInv, NEW k \in Keys, Allow(k), now' = now
  PROVE  LimiterInv'
<1>. DEFINE b == Swept(k)
            h == admitted[k]
<1>1. \A i \in Keys : Swept(i) \in Bucket /\ Fits(Swept(i), admitted[i], now)
  BY FitsSwept
<1>2. now \in Nat \ {0} /\ h \in Seq(Nat) /\ lastSweep \in Nat
  BY DEF LimiterInv, LimiterTypeOK
<1>3. Counted(k) \in Bucket /\ Fits(Counted(k), IF Admits(k) THEN Append(h, now) ELSE h, now)
  <2>1. CASE BeginsWindow(k)
    <3>1. Admits(k) /\ Counted(k) = [startedAt |-> now, lastSeen |-> now, requests |-> 1]
      BY <2>1 DEF Admits, Counted
    <3>2. b = NoBucket \/ now - b.startedAt >= Window
      BY <2>1 DEF BeginsWindow
    <3>3. Fits([startedAt |-> now, lastSeen |-> now, requests |-> 1], Append(h, now), now)
      BY <3>2, <1>1, <1>2, FitsNewWindow
    <3>. QED BY <3>1, <3>3, <1>2 DEF Bucket
  <2>2. CASE ~BeginsWindow(k) /\ b.requests < MaxRequests
    <3>. DEFINE c == [startedAt |-> b.startedAt, lastSeen |-> now, requests |-> b.requests + 1]
    <3>1. Admits(k) /\ Counted(k) = c
      BY <2>2, <1>1 DEF Admits, Counted, Bucket
    <3>2. b # NoBucket
      BY <2>2 DEF BeginsWindow
    <3>3. Fits(c, Append(h, now), now)
      BY <3>2, <2>2, <1>1, <1>2, FitsOneMore
    <3>4. c \in Bucket
      BY <1>1, <1>2 DEF Bucket
    <3>. QED BY <3>1, <3>3, <3>4
  <2>3. CASE ~BeginsWindow(k) /\ ~(b.requests < MaxRequests)
    <3>0. ~Admits(k)
      BY <2>3 DEF Admits
    <3>1. Counted(k) = [b EXCEPT !.lastSeen = now]
      BY <3>0, <2>3, <1>1 DEF Counted, Bucket
    <3>2. b # NoBucket
      BY <2>3 DEF BeginsWindow
    <3>3. Fits([b EXCEPT !.lastSeen = now], h, now)
      BY <3>2, <1>1, <1>2, FitsRefused
    <3>4. [b EXCEPT !.lastSeen = now] \in Bucket
      BY <1>1, <1>2 DEF Bucket
    <3>. QED BY <3>0, <3>1, <3>3, <3>4
  <2>. QED BY <2>1, <2>2, <2>3
<1>4. buckets' = [i \in Keys |-> IF i = k THEN Counted(k) ELSE Swept(i)]
  BY DEF Allow
<1>5. /\ admitted' \in [Keys -> Seq(Nat)]
      /\ admitted'[k] = IF Admits(k) THEN Append(h, now) ELSE h
      /\ \A i \in Keys : i # k => admitted'[i] = admitted[i]
  <2>1. admitted \in [Keys -> Seq(Nat)] /\ Append(h, now) \in Seq(Nat)
    BY <1>2 DEF LimiterInv, LimiterTypeOK
  <2>. QED BY <2>1 DEF Allow
<1>6. LimiterTypeOK'
  BY <1>1, <1>2, <1>3, <1>4, <1>5 DEF LimiterTypeOK, Allow
<1>7. ASSUME NEW i \in Keys PROVE Fits(buckets'[i], admitted'[i], now')
  <2>. HIDE DEF b, h
  <2>1. CASE i = k
    <3>1. buckets'[i] = Counted(k) /\ admitted'[i] = (IF Admits(k) THEN Append(h, now) ELSE h)
      BY <2>1, <1>4, <1>5
    <3>. QED BY <3>1, <1>3
  <2>2. CASE i # k
    <3>1. buckets'[i] = Swept(i) /\ admitted'[i] = admitted[i]
      BY <2>2, <1>4, <1>5
    <3>. QED BY <3>1, <1>1
  <2>. QED BY <2>1, <2>2
<1>. QED BY <1>6, <1>7 DEF LimiterInv

LEMMA LimiterStepInv == LimiterInv /\ [LimiterNext]_<<now, limiterVars>> => LimiterInv'
<1>. SUFFICES ASSUME LimiterInv, [LimiterNext]_<<now, limiterVars>> PROVE LimiterInv'
  OBVIOUS
<1>1. CASE UNCHANGED now /\ \E k \in Keys : Allow(k)
  BY <1>1, AllowInv
<1>2. CASE now' = now + 1 /\ UNCHANGED limiterVars
  <2>1. now \in Nat \ {0} /\ now' \in Nat \ {0} /\ now <= now'
    BY <1>2 DEF LimiterInv, LimiterTypeOK
  <2>2. LimiterTypeOK'
    BY <1>2, <2>1 DEF LimiterInv, LimiterTypeOK, limiterVars
  <2>3. ASSUME NEW k \in Keys PROVE Fits(buckets[k], admitted[k], now')
    BY <2>1, FitsLater DEF LimiterInv, LimiterTypeOK
  <2>. QED BY <2>2, <2>3, <1>2 DEF LimiterInv, limiterVars
<1>3. CASE UNCHANGED <<now, limiterVars>>
  BY <1>3 DEF LimiterInv, LimiterTypeOK, limiterVars
<1>. QED BY <1>1, <1>2, <1>3 DEF LimiterNext

\* The limiter of middleware allow: of 2 * max + 1 admitted requests of a key
\* the last comes a window after the first, whatever sweeps forget.
THEOREM TwiceTheLimit == LimiterSpec => []AtMostTwiceTheLimit
<1>1. LimiterInv => AtMostTwiceTheLimit
  BY DEF LimiterInv, Fits, Spread, AtMostTwiceTheLimit
<1>. QED BY <1>1, LimiterInitInv, LimiterStepInv, PTL DEF LimiterSpec
-----------------------------------------------------------------------------

Ats == {"unasked", "asked", "reading", "reserving", "locking", "waiting", "leaving", "calling",
        "storing", "answered"}

Results == {"none", "places", "nothing", "error"}

Call == [at : Ats \ {"unasked"}, query : Queries, day : Nat, ready : Int, results : Results]

CacheRow == [results : Results, expiresAt : Nat]

ServerTypeOK ==
  /\ now \in Nat
  /\ call \in [Calls -> Call \cup {Unasked}]
  /\ cache \in [Queries -> CacheRow]
  /\ usage \in [day : Nat, count : Nat]
  /\ slot \in Calls \cup {Free}
  /\ lastRequest \in Int
  /\ sentAt \in [Calls -> Nat]

\* Whoever waits holds the client's mutex and counts from the last request.
SlotInv ==
  \A c \in Calls :
    call[c].at = "waiting" => slot = c /\ call[c].ready = lastRequest + MinimumDelay

\* A request that left is past its slot.
SentIsPastSlot == \A c \in Sent : call[c].at \in {"calling", "storing", "answered"}

\* The calls that hold a unit of the budget of day d and may use it or did.
OnBudget(d) ==
  {c \in Calls : call[c].day = d /\ (call[c].at \in {"locking", "waiting", "leaving"} \/ c \in Sent)}

BudgetInv ==
  /\ usage.day <= Today
  /\ usage.count <= DailyBudget
  /\ \A d \in Nat : IsFiniteSet(OnBudget(d)) /\ Cardinality(OnBudget(d)) <= DailyBudget
  /\ Cardinality(OnBudget(usage.day)) <= usage.count
  /\ \A d \in Nat : d > usage.day => OnBudget(d) = {}

ServerInv == ServerTypeOK /\ SlotInv /\ SentIsPastSlot /\ BudgetInv
-----------------------------------------------------------------------------

\* The server's clock moves one tick at a time, and the limiter's middleware
\* is the only step that touches its buckets.
LEMMA ServerStepIsLimiterStep == [SearchNext]_searchVars => [LimiterNext]_<<now, limiterVars>>
<1>. SUFFICES ASSUME SearchNext PROVE [LimiterNext]_<<now, limiterVars>>
  BY DEF searchVars
<1>1. CASE \E c \in Calls : Middleware(c)
  BY <1>1, UserAssumption DEF Middleware, LimiterNext
<1>2. CASE Tick
  BY <1>2 DEF Tick, LimiterNext
<1>3. ASSUME NEW c \in Calls, Serve(c), ~Middleware(c) PROVE UNCHANGED <<now, limiterVars>>
  BY <1>3 DEF Serve, GetPlaceSearchCache, ReserveProviderDailyUsage, WaitForSlot, TakeSlot,
              WaitCancelled, Send, Suggest, UpsertPlaceSearchCache, Fails
<1>4. ASSUME NEW c \in Calls, NEW q \in Queries, Ask(c, q) \/ AskOffline(c, q)
      PROVE  UNCHANGED <<now, limiterVars>>
  BY <1>4 DEF Ask, AskOffline
<1>. QED BY <1>1, <1>2, <1>3, <1>4 DEF SearchNext

\* Place search implements the limiter it stands behind.
THEOREM ServerImplementsLimiter == SearchSpec => LimiterSpec
<1>1. SearchInit => LimiterInit
  BY DEF SearchInit
<1>. QED BY <1>1, ServerStepIsLimiterStep, PTL DEF SearchSpec, LimiterSpec

\* The box makes calls and looks at their answers: it is one of the callers
\* the server allows for.
LEMMA BoxStepIsServerStep ==
  ASSUME text \in Queries, [Next]_vars
  PROVE  [SearchNext]_searchVars
<1>1. CASE Start
  <2>. DEFINE c == NextCall
  <2>1. c \in Calls
    BY <1>1, BoxAssumption DEF Start
  <2>2. Ask(c, text) \/ AskOffline(c, text)
    BY <1>1 DEF Start
  <2>. HIDE DEF c
  <2>. QED BY <2>1, <2>2 DEF SearchNext
<1>2. CASE UNCHANGED searchVars
  BY <1>2
<1>3. CASE (\E c \in Calls : Serve(c)) \/ (\E c \in Calls \ BoxCalls, q \in Queries : Ask(c, q)) \/ Tick
  BY <1>3 DEF SearchNext
<1>. QED BY <1>1, <1>2, <1>3 DEF Next, vars, Type, TimerFires, Enter, Dismiss, Deliver

\* The text of the box is a query.
LEMMA TextIsQuery == Spec => [](text \in Queries)
<1>1. Init => text \in Queries
  BY DEF Init
<1>2. text \in Queries /\ [Next]_vars => (text \in Queries)'
  BY DEF Next, vars, boxVars, Type, TimerFires, Enter, Start, Dismiss, Deliver
<1>. QED BY <1>1, <1>2, PTL DEF Spec

\* The web application's box in front of the server is a use of the server.
THEOREM BoxImplementsServer == Spec => SearchSpec
<1>1. Init => SearchInit
  BY DEF Init
<1>2. text \in Queries /\ [Next]_vars => [SearchNext]_searchVars
  BY BoxStepIsServerStep
<1>. QED BY <1>1, <1>2, TextIsQuery, PTL DEF Spec, SearchSpec

\* middleware, allow: with searches, retries and callers that leave, of
\* 2 * max + 1 admitted requests of a user the last comes a window after the first.
THEOREM SearchIsLimited == Spec => []AtMostTwiceTheLimit
  BY BoxImplementsServer, ServerImplementsLimiter, TwiceTheLimit, PTL
-----------------------------------------------------------------------------

\* What the quotient of a division is, and that it grows with the dividend.
LEMMA DivisionBounds ==
  ASSUME NEW n \in Nat, NEW d \in Nat \ {0}
  PROVE  n \div d \in Nat /\ d * (n \div d) <= n /\ n < d * (n \div d) + d
OBVIOUS

LEMMA NextMultiple ==
  ASSUME NEW p \in Nat, NEW q \in Nat, NEW d \in Nat \ {0}, p < q
  PROVE  d * p + d <= d * q
<1>1. PICK k \in Nat : q = p + 1 + k
  BY q - p - 1 \in Nat
<1>2. d * q = d * p + d + d * k
  BY <1>1
<1>3. d * k \in Nat
  OBVIOUS
<1>. QED BY <1>2, <1>3

LEMMA DivisionGrows ==
  ASSUME NEW n \in Nat, NEW d \in Nat \ {0}
  PROVE  n \div d <= (n + 1) \div d
<1>. DEFINE p == (n + 1) \div d
            q == n \div d
<1>1. p \in Nat /\ n + 1 < d * p + d
  BY DivisionBounds
<1>2. q \in Nat /\ d * q <= n
  BY DivisionBounds
<1>. HIDE DEF p, q
<1>3. ASSUME p < q PROVE FALSE
  <2>1. d * p + d <= d * q
    BY <1>1, <1>2, <1>3, NextMultiple
  <2>2. d * p \in Nat /\ d * q \in Nat
    BY <1>1, <1>2
  <2>. QED BY <1>1, <1>2, <2>1, <2>2
<1>4. q <= p
  BY <1>1, <1>2, <1>3
<1>. QED BY <1>4 DEF p, q

LEMMA ServerInit == SearchInit => ServerInv
<1>. SUFFICES ASSUME SearchInit PROVE ServerInv
  OBVIOUS
<1>. USE SearchAssumption
<1>1. ServerTypeOK
  <2>1. NoRow \in CacheRow
    BY DEF CacheRow, NoRow, Results
  <2>2. -MinimumDelay \in Int /\ usage \in [day : Nat, count : Nat]
    BY DEF SearchInit
  <2>. QED BY <2>1, <2>2 DEF SearchInit, LimiterInit, NotSent, ServerTypeOK
<1>2. SlotInv /\ SentIsPastSlot
  BY DEF SearchInit, SlotInv, SentIsPastSlot, Sent, Unasked
<1>3. BudgetInv
  <2>1. \A d \in Nat : OnBudget(d) = {}
    BY DEF SearchInit, OnBudget, Sent, Unasked
  <2>2. Cardinality({}) = 0 /\ IsFiniteSet({})
    BY FS_EmptySet
  <2>3. Today \in Nat
    BY <1>1, DivisionBounds DEF Today, ServerTypeOK
  <2>. QED BY <2>1, <2>2, <2>3 DEF SearchInit, BudgetInv
<1>. QED BY <1>1, <1>2, <1>3 DEF ServerInv

\* A call that got an answer or moved on is of the right type.
LEMMA CallTyped ==
  ASSUME ServerTypeOK, NEW c \in Calls, NEW at \in Ats \ {"unasked"},
         \/ \E results \in Results : Answers(c, at, results)
         \/ \E to \in Ats \ {"unasked"} : Moves(c, at, to)
  PROVE  call' \in [Calls -> Call \cup {Unasked}]
<1>0. call[c].at = at
  BY DEF Answers, Moves
<1>1. call[c] \in Call
  BY <1>0 DEF ServerTypeOK, Unasked
<1>2. ASSUME NEW results \in Results
      PROVE  [call[c] EXCEPT !.at = "answered", !.results = results, !.ready = NoTimer] \in Call
  <2>1. "answered" \in Ats \ {"unasked"} /\ NoTimer \in Int
    BY DEF Ats, NoTimer
  <2>. QED BY <1>1, <2>1 DEF Call
<1>3. ASSUME NEW to \in Ats \ {"unasked"} PROVE [call[c] EXCEPT !.at = to] \in Call
  BY <1>1 DEF Call
<1>. QED BY <1>2, <1>3 DEF ServerTypeOK, Answers, Moves

LEMMA ServerTypeStep ==
  ASSUME ServerTypeOK, SearchNext
  PROVE  ServerTypeOK'
<1>. USE SearchAssumption
<1>1. \A c \in Calls : call[c] # Unasked => call[c] \in Call
  BY DEF ServerTypeOK
<1>2. CASE Tick
  BY <1>2 DEF Tick, ServerTypeOK, limiterVars
<1>3. ASSUME NEW c \in Calls, NEW q \in Queries, Ask(c, q) \/ AskOffline(c, q)
      PROVE  ServerTypeOK'
  <2>1. {"asked", "answered"} \subseteq Ats \ {"unasked"} /\ {"none", "error"} \subseteq Results
        /\ NoTimer \in Int
    BY DEF Ats, Results, NoTimer
  <2>2. /\ [Unasked EXCEPT !.at = "asked", !.query = q] \in Call
        /\ [Unasked EXCEPT !.at = "answered", !.query = q, !.results = "error"] \in Call
    BY <2>1 DEF Unasked, Call
  <2>3. CASE Ask(c, q)
    <3>1. call' = [call EXCEPT ![c] = [Unasked EXCEPT !.at = "asked", !.query = q]]
      BY <2>3 DEF Ask
    <3>. QED BY <2>2, <2>3, <3>1 DEF Ask, ServerTypeOK
  <2>4. CASE AskOffline(c, q)
    <3>1. call' = [call EXCEPT ![c] =
                     [Unasked EXCEPT !.at = "answered", !.query = q, !.results = "error"]]
      BY <2>4 DEF AskOffline
    <3>. QED BY <2>2, <2>4, <3>1 DEF AskOffline, ServerTypeOK
  <2>. QED BY <1>3, <2>3, <2>4
<1>4. ASSUME NEW c \in Calls, Middleware(c) PROVE ServerTypeOK'
  <2>1. call' \in [Calls -> Call \cup {Unasked}]
    BY <1>4, CallTyped DEF Middleware, Ats, Results
  <2>. QED BY <1>4, <2>1 DEF Middleware, ServerTypeOK
<1>5. ASSUME NEW c \in Calls, GetPlaceSearchCache(c) PROVE ServerTypeOK'
  <2>1. call[c].at = "reading" /\ call[c] # Unasked
    BY <1>5 DEF GetPlaceSearchCache, Unasked
  <2>2. cache[call[c].query].results \in Results
    BY <2>1, <1>1 DEF ServerTypeOK, Call, CacheRow
  <2>3. call' \in [Calls -> Call \cup {Unasked}]
    BY <1>5, <2>2, CallTyped DEF GetPlaceSearchCache, Ats
  <2>. QED BY <1>5, <2>3 DEF GetPlaceSearchCache, ServerTypeOK
<1>6. ASSUME NEW c \in Calls, ReserveProviderDailyUsage(c) PROVE ServerTypeOK'
  <2>1. call[c] \in Call
    BY <1>6, <1>1 DEF ReserveProviderDailyUsage, Answers, Unasked
  <2>2. Today \in Nat
    BY DivisionBounds DEF ServerTypeOK, Today
  <2>3. CASE MayReserve
    <3>1. [call[c] EXCEPT !.at = "locking", !.day = Today] \in Call
      BY <2>1, <2>2 DEF Call, Ats
    <3>2. [RowOfToday EXCEPT !.count = @ + 1] \in [day : Nat, count : Nat]
      BY <2>2 DEF RowOfToday, ServerTypeOK
    <3>. QED BY <1>6, <2>3, <3>1, <3>2 DEF ReserveProviderDailyUsage, ServerTypeOK
  <2>4. CASE ~MayReserve
    <3>1. call' \in [Calls -> Call \cup {Unasked}]
      BY <1>6, <2>4, CallTyped DEF ReserveProviderDailyUsage, Ats, Results
    <3>. QED BY <1>6, <2>4, <3>1 DEF ReserveProviderDailyUsage, ServerTypeOK
  <2>. QED BY <2>3, <2>4
<1>7. ASSUME NEW c \in Calls, WaitForSlot(c) \/ TakeSlot(c) PROVE ServerTypeOK'
  <2>1. call[c] \in Call
    BY <1>7, <1>1 DEF WaitForSlot, TakeSlot, Unasked
  <2>2. {"waiting", "leaving"} \subseteq Ats \ {"unasked"} /\ lastRequest + MinimumDelay \in Int
        /\ NoTimer \in Int
    BY DEF Ats, ServerTypeOK, NoTimer
  <2>3. /\ [call[c] EXCEPT !.at = "waiting", !.ready = lastRequest + MinimumDelay] \in Call
        /\ [call[c] EXCEPT !.at = "leaving", !.ready = NoTimer] \in Call
    BY <2>1, <2>2 DEF Call
  <2>4. CASE WaitForSlot(c)
    <3>1. call' \in [Calls -> Call \cup {Unasked}]
      BY <2>3, <2>4 DEF WaitForSlot, ServerTypeOK
    <3>. QED BY <2>4, <3>1 DEF WaitForSlot, ServerTypeOK
  <2>5. CASE TakeSlot(c)
    <3>1. call' \in [Calls -> Call \cup {Unasked}]
      BY <2>3, <2>5 DEF TakeSlot, ServerTypeOK
    <3>. QED BY <2>5, <3>1 DEF TakeSlot, ServerTypeOK
  <2>. QED BY <1>7, <2>4, <2>5
<1>11. ASSUME NEW c \in Calls, Send(c) PROVE ServerTypeOK'
  <2>1. call' \in [Calls -> Call \cup {Unasked}]
    BY <1>11, CallTyped DEF Send, Ats
  <2>. QED BY <1>11, <2>1 DEF Send, ServerTypeOK
<1>8. ASSUME NEW c \in Calls, WaitCancelled(c) \/ Fails(c) PROVE ServerTypeOK'
  <2>1. call' \in [Calls -> Call \cup {Unasked}]
    BY <1>8, CallTyped DEF WaitCancelled, Fails, Ats, Results
  <2>. QED BY <1>8, <2>1 DEF WaitCancelled, Fails, ServerTypeOK
<1>9. ASSUME NEW c \in Calls, Suggest(c) PROVE ServerTypeOK'
  <2>1. call[c] \in Call
    BY <1>9, <1>1 DEF Suggest, Answers, Unasked
  <2>2. \A found \in {"places", "nothing"} :
          [call[c] EXCEPT !.at = "storing", !.results = found] \in Call
    BY <2>1 DEF Call, Ats, Results
  <2>3. CASE \E at \in {"leaving", "calling"} : Answers(c, at, "error")
    <3>1. call' \in [Calls -> Call \cup {Unasked}]
      BY <2>3, CallTyped DEF Ats, Results
    <3>. QED BY <1>9, <3>1 DEF Suggest, ServerTypeOK
  <2>. QED BY <1>9, <2>2, <2>3 DEF Suggest, ServerTypeOK
<1>10. ASSUME NEW c \in Calls, UpsertPlaceSearchCache(c) PROVE ServerTypeOK'
  <2>1. call[c].at = "storing" /\ call[c] \in Call /\ call[c].results \in Results
    BY <1>10, <1>1 DEF UpsertPlaceSearchCache, Unasked, Call
  <2>2. call' \in [Calls -> Call \cup {Unasked}]
    BY <1>10, <2>1, CallTyped DEF UpsertPlaceSearchCache, Ats
  <2>3. cache' \in [Queries -> CacheRow]
    <3>1. [results |-> call[c].results,
           expiresAt |-> now + IF call[c].results = "nothing" THEN EmptyTTL ELSE ResultTTL] \in CacheRow
      BY <2>1 DEF CacheRow, ServerTypeOK
    <3>. QED BY <1>10, <3>1 DEF UpsertPlaceSearchCache, ServerTypeOK
  <2>. QED BY <1>10, <2>2, <2>3 DEF UpsertPlaceSearchCache, ServerTypeOK
<1>. QED
  BY <1>2, <1>3, <1>4, <1>5, <1>6, <1>7, <1>8, <1>9, <1>10, <1>11 DEF SearchNext, Serve
-----------------------------------------------------------------------------

\* What an answer, and a step to another place, change.
LEMMA AnswersEffect ==
  ASSUME ServerTypeOK, NEW c \in Calls, NEW at \in Ats \ {"unasked"}, NEW results,
         Answers(c, at, results)
  PROVE  /\ call[c].at = at /\ call'[c].at = "answered" /\ call'[c].day = call[c].day
         /\ \A e \in Calls : e # c => call'[e] = call[e]
<1>1. call[c].at = at /\ call[c] \in Call
  BY DEF Answers, ServerTypeOK, Unasked
<1>2. /\ call'[c] = [call[c] EXCEPT !.at = "answered", !.results = results, !.ready = NoTimer]
      /\ \A e \in Calls : e # c => call'[e] = call[e]
  BY DEF Answers, ServerTypeOK
<1>. QED BY <1>1, <1>2 DEF Call

LEMMA MovesEffect ==
  ASSUME ServerTypeOK, NEW c \in Calls, NEW from \in Ats \ {"unasked"}, NEW to, Moves(c, from, to)
  PROVE  /\ call[c].at = from /\ call'[c].at = to /\ call'[c].day = call[c].day
         /\ \A e \in Calls : e # c => call'[e] = call[e]
<1>1. call[c].at = from /\ call[c] \in Call
  BY DEF Moves, ServerTypeOK, Unasked
<1>2. /\ call'[c] = [call[c] EXCEPT !.at = to]
      /\ \A e \in Calls : e # c => call'[e] = call[e]
  BY DEF Moves, ServerTypeOK
<1>. QED BY <1>1, <1>2 DEF Call

\* A call that starts, at the server or not, touches itself alone.
LEMMA NewlyAsked ==
  ASSUME ServerTypeOK, NEW c \in Calls, NEW q \in Queries, Ask(c, q) \/ AskOffline(c, q)
  PROVE  /\ call[c].at = "unasked" /\ call'[c].at \in {"asked", "answered"} /\ call'[c].day = call[c].day
         /\ \A e \in Calls : e # c => call'[e] = call[e]
         /\ UNCHANGED <<now, usage, slot, lastRequest, sentAt>>
<1>1. CASE Ask(c, q)
  BY <1>1 DEF Ask, ServerTypeOK, Unasked
<1>2. CASE AskOffline(c, q)
  BY <1>2 DEF AskOffline, ServerTypeOK, Unasked
<1>. QED BY <1>1, <1>2

\* So does a step of a call that neither reserves nor has to do with the slot or
\* with sending.
LEMMA QuietStep ==
  ASSUME ServerTypeOK, NEW c \in Calls, Serve(c), ~WaitForSlot(c), ~TakeSlot(c), ~WaitCancelled(c), ~Send(c)
  PROVE  /\ UNCHANGED <<now, slot, lastRequest, sentAt>>
         /\ call[c].at \notin {"unasked", "answered"}
         /\ \A e \in Calls : e # c => call'[e] = call[e]
         /\ \/ /\ usage' = usage /\ call'[c].day = call[c].day
               /\ \/ call'[c].at = "answered"
                  \/ call[c].at = "asked" /\ call'[c].at = "reading"
                  \/ call[c].at = "reading" /\ call'[c].at = "reserving"
                  \/ call[c].at = "calling" /\ call'[c].at = "storing"
            \/ ReserveProviderDailyUsage(c) /\ MayReserve /\ call'[c].at = "locking"
<1>1. CASE Middleware(c)
  BY <1>1, AnswersEffect, MovesEffect DEF Middleware, Ats
<1>2. CASE GetPlaceSearchCache(c)
  BY <1>2, AnswersEffect, MovesEffect DEF GetPlaceSearchCache, Ats
<1>3. CASE ReserveProviderDailyUsage(c)
  <2>1. CASE MayReserve
    BY <1>3, <2>1 DEF ReserveProviderDailyUsage, ServerTypeOK, Unasked, Call
  <2>2. CASE ~MayReserve
    BY <1>3, <2>2, AnswersEffect DEF ReserveProviderDailyUsage, Ats
  <2>. QED BY <2>1, <2>2
<1>4. CASE Suggest(c)
  <2>1. CASE \E at \in {"leaving", "calling"} : Answers(c, at, "error")
    BY <1>4, <2>1, AnswersEffect DEF Suggest, Ats
  <2>2. CASE ~\E at \in {"leaving", "calling"} : Answers(c, at, "error")
    <3>1. PICK found \in {"places", "nothing"} :
            call' = [call EXCEPT ![c].at = "storing", ![c].results = found]
      BY <1>4, <2>2 DEF Suggest
    <3>2. call[c].at = "calling" /\ call[c] \in Call
      BY <1>4, <2>2 DEF Suggest, ServerTypeOK, Unasked
    <3>3. /\ call'[c] = [call[c] EXCEPT !.at = "storing", !.results = found]
          /\ \A e \in Calls : e # c => call'[e] = call[e]
      BY <3>1 DEF ServerTypeOK
    <3>4. call'[c].at = "storing" /\ call'[c].day = call[c].day
      BY <3>2, <3>3 DEF Call
    <3>. QED BY <1>4, <3>2, <3>3, <3>4 DEF Suggest
  <2>. QED BY <2>1, <2>2
<1>5. CASE UpsertPlaceSearchCache(c) \/ Fails(c)
  BY <1>5, AnswersEffect DEF UpsertPlaceSearchCache, Fails, Ats
<1>. QED BY <1>1, <1>2, <1>3, <1>4, <1>5 DEF Serve

\* Whoever waits holds the slot: it is handed on only when it is free, and
\* lastRequest moves only with the call that held it.
LEMMA SlotStep ==
  ASSUME ServerTypeOK, SlotInv, SearchNext
  PROVE  SlotInv'
<1>. SUFFICES ASSUME NEW e \in Calls, call'[e].at = "waiting"
              PROVE  slot' = e /\ call'[e].ready = lastRequest' + MinimumDelay
  BY DEF SlotInv
<1>1. \A c \in Calls : c # Free
  BY CallsAssumption
<1>2. ASSUME NEW c \in Calls, WaitForSlot(c)
      PROVE  slot' = e /\ call'[e].ready = lastRequest' + MinimumDelay
  BY <1>1, <1>2 DEF WaitForSlot, SlotInv, ServerTypeOK
<1>3. ASSUME NEW c \in Calls, TakeSlot(c) \/ WaitCancelled(c)
      PROVE  slot' = e /\ call'[e].ready = lastRequest' + MinimumDelay
  <2>1. call[c].at = "waiting" /\ slot = c
    BY <1>3 DEF TakeSlot, WaitCancelled, Answers, SlotInv
  <2>2. call'[c].at \in {"leaving", "answered"} /\ \A i \in Calls : i # c => call'[i] = call[i]
    <3>1. CASE TakeSlot(c)
      <4>1. call[c] \in Call
        BY <2>1 DEF ServerTypeOK, Unasked
      <4>2. /\ call'[c] = [call[c] EXCEPT !.at = "leaving", !.ready = NoTimer]
            /\ \A i \in Calls : i # c => call'[i] = call[i]
        BY <3>1 DEF TakeSlot, ServerTypeOK
      <4>. QED BY <4>1, <4>2 DEF Call
    <3>2. CASE WaitCancelled(c)
      BY <3>2, AnswersEffect DEF WaitCancelled, Ats
    <3>. QED BY <1>3, <3>1, <3>2
  <2>3. e # c /\ call[e].at = "waiting"
    BY <2>2
  <2>. QED BY <2>1, <2>3 DEF SlotInv
<1>4. ASSUME call'[e] = call[e] \/ call'[e].at # "waiting", UNCHANGED <<slot, lastRequest>>
      PROVE  slot' = e /\ call'[e].ready = lastRequest' + MinimumDelay
  BY <1>4 DEF SlotInv
<1>5. CASE Tick
  BY <1>4, <1>5 DEF Tick
<1>6. ASSUME NEW c \in Calls, NEW q \in Queries, Ask(c, q) \/ AskOffline(c, q)
      PROVE  slot' = e /\ call'[e].ready = lastRequest' + MinimumDelay
  BY <1>4, <1>6, NewlyAsked
<1>7. ASSUME NEW c \in Calls, Serve(c), ~WaitForSlot(c), ~TakeSlot(c), ~WaitCancelled(c), ~Send(c)
      PROVE  slot' = e /\ call'[e].ready = lastRequest' + MinimumDelay
  BY <1>4, <1>7, QuietStep
<1>8. ASSUME NEW c \in Calls, Send(c)
      PROVE  slot' = e /\ call'[e].ready = lastRequest' + MinimumDelay
  <2>1. call'[c].at = "calling" /\ \A i \in Calls : i # c => call'[i] = call[i]
    BY <1>8, MovesEffect DEF Send, Ats
  <2>. QED BY <1>4, <1>8, <2>1 DEF Send
<1>. QED BY <1>2, <1>3, <1>5, <1>6, <1>7, <1>8 DEF SearchNext, Serve

\* What can happen to the units of a day in a step that reserves none.
LEMMA BudgetStays ==
  ASSUME ServerTypeOK, ServerTypeOK', BudgetInv, usage' = usage, Today <= Today',
         \A d \in Nat : OnBudget(d)' \subseteq OnBudget(d)
  PROVE  BudgetInv'
<1>1. Today \in Nat /\ Today' \in Nat
  BY DivisionBounds, SearchAssumption DEF ServerTypeOK, Today
<1>2. ASSUME NEW d \in Nat
      PROVE  IsFiniteSet(OnBudget(d)') /\ Cardinality(OnBudget(d)') <= Cardinality(OnBudget(d))
             /\ Cardinality(OnBudget(d)) \in Nat /\ Cardinality(OnBudget(d)') \in Nat
  BY FS_Subset, FS_CardinalityType DEF BudgetInv
<1>3. usage.day \in Nat /\ usage.count \in Nat
  BY DEF ServerTypeOK
<1>. QED BY <1>1, <1>2, <1>3, SearchAssumption DEF BudgetInv

LEMMA BudgetStep ==
  ASSUME ServerInv, ServerTypeOK', SearchNext
  PROVE  BudgetInv' /\ SentIsPastSlot'
<1>. USE SearchAssumption
<1>0. ServerTypeOK /\ BudgetInv /\ SentIsPastSlot /\ Today \in Nat /\ now \in Nat
  BY DivisionBounds DEF ServerInv, ServerTypeOK, Today
<1>1. CASE Tick
  <2>1. Today <= Today'
    BY <1>0, <1>1, DivisionGrows DEF Tick, Today
  <2>2. \A d \in Nat : OnBudget(d)' = OnBudget(d)
    BY <1>1 DEF Tick, OnBudget, Sent
  <2>3. SentIsPastSlot'
    BY <1>0, <1>1 DEF Tick, SentIsPastSlot, Sent
  <2>. QED BY <1>0, <1>1, <2>1, <2>2, <2>3, BudgetStays DEF Tick
<1>2. ASSUME NEW c \in Calls, ReserveProviderDailyUsage(c), MayReserve
      PROVE  BudgetInv' /\ SentIsPastSlot'
  <2>1. /\ call[c].at = "reserving" /\ c \notin Sent
        /\ call' = [call EXCEPT ![c].at = "locking", ![c].day = Today]
        /\ usage' = [RowOfToday EXCEPT !.count = @ + 1]
        /\ now' = now /\ Sent' = Sent
    BY <1>0, <1>2 DEF ReserveProviderDailyUsage, SentIsPastSlot, Sent
  <2>2. SentIsPastSlot'
    <3>1. /\ Sent' \subseteq Calls /\ c \notin Sent'
          /\ \A d \in Calls : d # c => call'[d] = call[d]
      BY <1>0, <2>1 DEF ServerTypeOK, Sent
    <3>. QED BY <1>0, <2>1, <3>1 DEF SentIsPastSlot
  <2>3. Today' = Today
    BY <2>1 DEF Today
  <2>4. \A d \in Nat : d # Today => OnBudget(d)' \subseteq OnBudget(d)
    BY <1>0, <2>1 DEF OnBudget, ServerTypeOK
  <2>5. OnBudget(Today)' \subseteq OnBudget(Today) \cup {c}
    BY <1>0, <2>1, <2>3 DEF OnBudget, ServerTypeOK
  <2>6. usage'.day = Today /\ usage'.count = RowOfToday.count + 1 /\ usage'.count \in Nat
        /\ usage'.count <= DailyBudget
    <3>1. RowOfToday \in [day : Nat, count : Nat] /\ RowOfToday.day = Today
      BY <1>0 DEF RowOfToday, ServerTypeOK
    <3>. QED BY <2>1, <3>1, <1>2 DEF MayReserve
  <2>7. IsFiniteSet(OnBudget(Today)) /\ Cardinality(OnBudget(Today)) <= RowOfToday.count
    <3>1. CASE usage.day = Today
      BY <1>0, <3>1 DEF BudgetInv, RowOfToday
    <3>2. CASE usage.day # Today
      <4>1. Today > usage.day
        BY <1>0, <3>2 DEF BudgetInv, ServerTypeOK
      <4>. QED BY <1>0, <3>2, <4>1, FS_EmptySet DEF BudgetInv, RowOfToday
    <3>. QED BY <3>1, <3>2
  <2>8. /\ IsFiniteSet(OnBudget(Today)') /\ Cardinality(OnBudget(Today)') \in Nat
        /\ Cardinality(OnBudget(Today)') <= usage'.count
    <3>1. IsFiniteSet(OnBudget(Today) \cup {c})
          /\ Cardinality(OnBudget(Today) \cup {c}) <= Cardinality(OnBudget(Today)) + 1
      BY <2>7, FS_AddElement, FS_CardinalityType
    <3>2. /\ IsFiniteSet(OnBudget(Today)')
          /\ Cardinality(OnBudget(Today)') <= Cardinality(OnBudget(Today) \cup {c})
      BY <2>5, <3>1, FS_Subset
    <3>3. Cardinality(OnBudget(Today)) \in Nat /\ Cardinality(OnBudget(Today)') \in Nat
          /\ Cardinality(OnBudget(Today) \cup {c}) \in Nat /\ RowOfToday.count \in Nat
      BY <1>0, <2>7, <3>1, <3>2, FS_CardinalityType DEF RowOfToday, ServerTypeOK
    <3>. QED BY <2>6, <2>7, <3>1, <3>2, <3>3
  <2>9. ASSUME NEW d \in Nat, d # Today
        PROVE  IsFiniteSet(OnBudget(d)') /\ Cardinality(OnBudget(d)') <= DailyBudget
    <3>1. IsFiniteSet(OnBudget(d)) /\ Cardinality(OnBudget(d)) <= DailyBudget
      BY <1>0 DEF BudgetInv
    <3>2. IsFiniteSet(OnBudget(d)') /\ Cardinality(OnBudget(d)') <= Cardinality(OnBudget(d))
      BY <2>4, <2>9, <3>1, FS_Subset
    <3>. QED BY <3>1, <3>2, FS_CardinalityType
  <2>10. ASSUME NEW d \in Nat, d > usage'.day PROVE OnBudget(d)' = {}
    <3>1. d # Today /\ d > usage.day
      BY <1>0, <2>6, <2>10 DEF BudgetInv, ServerTypeOK
    <3>. QED BY <1>0, <2>4, <3>1 DEF BudgetInv
  <2>11. ASSUME NEW d \in Nat
         PROVE  IsFiniteSet(OnBudget(d)') /\ Cardinality(OnBudget(d)') <= DailyBudget
    <3>1. CASE d = Today
      BY <2>6, <2>8, <2>3, <3>1, <1>0
    <3>. QED BY <2>9, <3>1
  <2>. QED BY <1>0, <2>2, <2>3, <2>6, <2>8, <2>10, <2>11 DEF BudgetInv
<1>3. ASSUME NEW c \in Calls, Send(c) PROVE BudgetInv' /\ SentIsPastSlot'
  <2>1. /\ call[c].at = "leaving" /\ usage' = usage /\ now' = now /\ Sent' \subseteq Sent \cup {c}
        /\ call'[c].at = "calling" /\ call'[c].day = call[c].day
        /\ \A e \in Calls : e # c => call'[e] = call[e]
    BY <1>0, <1>3, MovesEffect DEF Send, Ats, Sent, ServerTypeOK
  <2>2. SentIsPastSlot'
    BY <1>0, <2>1 DEF SentIsPastSlot, Sent
  <2>3. \A d \in Nat : OnBudget(d)' \subseteq OnBudget(d)
    BY <1>0, <2>1 DEF OnBudget
  <2>. QED BY <1>0, <2>1, <2>2, <2>3, BudgetStays DEF Today
<1>4. ASSUME usage' = usage, now' = now, sentAt' = sentAt,
             \A e \in Calls :
               \/ call'[e] = call[e]
               \/ call[e].at \in {"locking", "waiting"} /\ call'[e].day = call[e].day /\ e \notin Sent
               \/ call'[e].day = call[e].day /\ call'[e].at \notin {"locking", "waiting", "leaving"}
                  /\ (e \in Sent => call'[e].at \in {"calling", "storing", "answered"})
      PROVE  BudgetInv' /\ SentIsPastSlot'
  <2>0. Sent' = Sent
    BY <1>4 DEF Sent
  <2>1. SentIsPastSlot'
    BY <1>0, <1>4, <2>0 DEF SentIsPastSlot, Sent
  <2>2. \A d \in Nat : OnBudget(d)' \subseteq OnBudget(d)
    BY <1>0, <1>4, <2>0 DEF OnBudget
  <2>. QED BY <1>0, <1>4, <2>1, <2>2, BudgetStays DEF Today
<1>5. ASSUME NEW c \in Calls, NEW q \in Queries, Ask(c, q) \/ AskOffline(c, q)
      PROVE  BudgetInv' /\ SentIsPastSlot'
  BY <1>0, <1>4, <1>5, NewlyAsked DEF SentIsPastSlot
<1>6. ASSUME NEW c \in Calls, WaitForSlot(c) \/ TakeSlot(c) PROVE BudgetInv' /\ SentIsPastSlot'
  <2>1. call[c].at \in {"locking", "waiting"} /\ c \notin Sent
    BY <1>0, <1>6 DEF WaitForSlot, TakeSlot, SentIsPastSlot
  <2>2. \A e \in Calls : /\ call'[e].day = call[e].day
                         /\ e # c => call'[e] = call[e]
    BY <1>0, <1>6, <2>1 DEF WaitForSlot, TakeSlot, ServerTypeOK, Unasked, Call
  <2>. QED BY <1>0, <1>4, <1>6, <2>1, <2>2 DEF WaitForSlot, TakeSlot
<1>7. ASSUME NEW c \in Calls, WaitCancelled(c) PROVE BudgetInv' /\ SentIsPastSlot'
  BY <1>0, <1>4, <1>7 DEF WaitCancelled, Answers, ServerTypeOK
<1>8. ASSUME NEW c \in Calls, Serve(c), ~WaitForSlot(c), ~TakeSlot(c), ~WaitCancelled(c), ~Send(c)
      PROVE  BudgetInv' /\ SentIsPastSlot'
  <2>1. CASE ReserveProviderDailyUsage(c) /\ MayReserve
    BY <2>1, <1>2
  <2>2. CASE ~(ReserveProviderDailyUsage(c) /\ MayReserve)
    BY <2>2, <1>0, <1>4, <1>8, QuietStep DEF SentIsPastSlot
  <2>. QED BY <2>1, <2>2
<1>. QED BY <1>1, <1>2, <1>3, <1>5, <1>6, <1>7, <1>8 DEF SearchNext

\* The invariant of the server.
LEMMA ServerStep == ServerInv /\ [SearchNext]_searchVars => ServerInv'
<1>. SUFFICES ASSUME ServerInv, [SearchNext]_searchVars PROVE ServerInv'
  OBVIOUS
<1>1. CASE SearchNext
  BY <1>1, ServerTypeStep, SlotStep, BudgetStep DEF ServerInv
<1>2. CASE UNCHANGED searchVars
  BY <1>2 DEF ServerInv, ServerTypeOK, SlotInv, SentIsPastSlot, BudgetInv, OnBudget, Sent, Today, searchVars
<1>. QED BY <1>1, <1>2

LEMMA ServerCorrect == SearchSpec => []ServerInv
  BY ServerInit, ServerStep, PTL DEF SearchSpec

\* Service.Search: the provider gets no more requests on a day's budget than
\* the budget has, however calls interleave and fail.
THEOREM BudgetHolds == Spec => []WithinDailyBudget
<1>1. ServerInv => WithinDailyBudget
  <2>. SUFFICES ASSUME ServerInv, NEW e \in Sent
                PROVE  Cardinality({c \in Sent : call[c].day = call[e].day}) <= DailyBudget
    BY DEF WithinDailyBudget
  <2>. DEFINE d == call[e].day
              S == {c \in Sent : call[c].day = d}
  <2>1. d \in Nat /\ Sent \subseteq Calls
    BY DEF ServerInv, ServerTypeOK, Call, Unasked, Sent
  <2>2. S \subseteq OnBudget(d)
    BY <2>1 DEF OnBudget
  <2>3. IsFiniteSet(OnBudget(d)) /\ Cardinality(OnBudget(d)) <= DailyBudget
    BY <2>1 DEF ServerInv, BudgetInv
  <2>. HIDE DEF S, d
  <2>4. Cardinality(S) <= Cardinality(OnBudget(d)) /\ Cardinality(S) \in Nat
        /\ Cardinality(OnBudget(d)) \in Nat
    BY <2>2, <2>3, FS_Subset, FS_CardinalityType
  <2>5. Cardinality(S) <= DailyBudget
    BY <2>3, <2>4, SearchAssumption
  <2>. QED BY <2>5 DEF S, d
<1>. QED BY <1>1, BoxImplementsServer, ServerCorrect, PTL

\* A call that was waiting and is leaving took the slot it held the mutex for.
LEMMA LeavingTookSlot ==
  ASSUME ServerTypeOK, SearchNext, NEW e \in Calls, call[e].at = "waiting", call'[e].at = "leaving"
  PROVE  TakeSlot(e)
<1>1. ~Tick
  BY DEF Tick
<1>2. ASSUME NEW c \in Calls, NEW q \in Queries, Ask(c, q) \/ AskOffline(c, q) PROVE FALSE
  BY <1>2, NewlyAsked
<1>3. PICK c \in Calls : Serve(c)
  BY <1>1, <1>2 DEF SearchNext
<1>4. CASE WaitForSlot(c) \/ TakeSlot(c)
  <2>1. c = e
    BY <1>4 DEF WaitForSlot, TakeSlot, ServerTypeOK
  <2>. QED BY <1>4, <2>1 DEF WaitForSlot
<1>5. CASE WaitCancelled(c)
  BY <1>5, AnswersEffect DEF WaitCancelled, Ats
<1>6. CASE Send(c)
  BY <1>6, MovesEffect DEF Send, Ats
<1>7. CASE ~WaitForSlot(c) /\ ~TakeSlot(c) /\ ~WaitCancelled(c) /\ ~Send(c)
  BY <1>3, <1>7, QuietStep DEF ReserveProviderDailyUsage, Answers
<1>. QED BY <1>4, <1>5, <1>6, <1>7

\* waitForSlot: no two calls get their slots within the minimum delay, however
\* many wait and leave while they wait.  (When their requests leave is another
\* matter, see RateHolds.)
THEOREM SlotsAreApart == Spec => SlotsApart
<1>1. ServerInv /\ [SearchNext]_searchVars =>
        [\A c \in Calls : call[c].at = "waiting" /\ call'[c].at = "leaving"
           => now - lastRequest >= MinimumDelay]_searchVars
  <2>. SUFFICES ASSUME ServerInv, SearchNext, NEW c \in Calls,
                       call[c].at = "waiting", call'[c].at = "leaving"
                PROVE  now - lastRequest >= MinimumDelay
    OBVIOUS
  <2>0. ServerTypeOK /\ SlotInv
    BY DEF ServerInv
  <2>1. TakeSlot(c)
    BY <2>0, LeavingTookSlot
  <2>2. now >= lastRequest + MinimumDelay
    BY <2>0, <2>1 DEF TakeSlot, SlotInv
  <2>. QED BY <2>0, <2>2, SearchAssumption DEF ServerTypeOK
<1>. QED BY <1>1, BoxImplementsServer, ServerCorrect, PTL DEF SearchSpec, SlotsApart
-----------------------------------------------------------------------------

\* Searches start in the order of their numbers.
StartedInOrder == \E n \in 0 .. Cardinality(BoxCalls) : Started = 1 .. n

\* The search whose callbacks count is the latest that started.
CurrentIsLatest == current # None => current \in Started /\ \A c \in Started : c <= current

\* What settled was answered, and what is shown has settled.
ShownHasSettled ==
  /\ \A c \in delivered : call[c].at = "answered"
  /\ shown # None => shown \in delivered

BoxInv ==
  /\ ServerTypeOK
  /\ SearchTypeOK
  /\ StartedInOrder
  /\ CurrentIsLatest
  /\ ShownHasSettled
  /\ SpinnerUntilAnswered

\* A step of a call leaves every other call, and an answered one, as it is.
LEMMA ServeEffect ==
  ASSUME ServerTypeOK, NEW c \in Calls, Serve(c)
  PROVE  /\ call[c].at \notin {"unasked", "answered"} /\ call'[c].at # "unasked"
         /\ \A e \in Calls : e # c => call'[e] = call[e]
<1>1. CASE WaitForSlot(c) \/ TakeSlot(c)
  <2>1. call[c].at \in {"locking", "waiting"} /\ call[c] \in Call
    BY <1>1 DEF WaitForSlot, TakeSlot, ServerTypeOK, Unasked
  <2>2. \E at \in {"waiting", "leaving"} : \E ready :
          /\ call'[c] = [call[c] EXCEPT !.at = at, !.ready = ready]
          /\ \A e \in Calls : e # c => call'[e] = call[e]
    BY <1>1 DEF WaitForSlot, TakeSlot, ServerTypeOK
  <2>. QED BY <2>1, <2>2 DEF Call
<1>2. CASE WaitCancelled(c)
  BY <1>2, AnswersEffect DEF WaitCancelled, Ats
<1>3. CASE Send(c)
  BY <1>3, MovesEffect DEF Send, Ats
<1>4. CASE ~WaitForSlot(c) /\ ~TakeSlot(c) /\ ~WaitCancelled(c) /\ ~Send(c)
  BY <1>4, QuietStep
<1>. QED BY <1>1, <1>2, <1>3, <1>4

\* A search has started when its call is no longer unasked.
LEMMA StartedAt ==
  ASSUME ServerTypeOK
  PROVE  Started = {c \in BoxCalls : call[c].at # "unasked"}
<1>. \A c \in Calls : call[c] = Unasked <=> call[c].at = "unasked"
  BY DEF ServerTypeOK, Call, Unasked
<1>. QED BY BoxAssumption DEF Started

LEMMA StartedNext ==
  ASSUME ServerTypeOK'
  PROVE  Started' = {c \in BoxCalls : call'[c].at # "unasked"}
<1>. \A c \in Calls : call'[c] = Unasked <=> call'[c].at = "unasked"
  BY DEF ServerTypeOK, Call, Unasked
<1>. QED BY BoxAssumption DEF Started

\* A step of the box that neither starts nor settles a search, nor drops one.
LEMMA BoxStays ==
  ASSUME BoxInv, ServerTypeOK', Started' = Started,
         \A c \in BoxCalls : call[c].at = "answered" => call'[c] = call[c],
         UNCHANGED <<delivered, searching, shown>>, timer' \in BOOLEAN,
         current' = current \/ current' = None
  PROVE  BoxInv'
<1>. USE DEF BoxInv
<1>1. SearchTypeOK'
  BY DEF SearchTypeOK
<1>2. StartedInOrder'
  BY DEF StartedInOrder
<1>3. CurrentIsLatest'
  BY DEF CurrentIsLatest
<1>4. ShownHasSettled' /\ (shown # None => call'[shown] = call[shown])
  BY DEF ShownHasSettled, SearchTypeOK
<1>5. SpinnerUntilAnswered'
  BY <1>4 DEF SpinnerUntilAnswered
<1>. QED BY <1>1, <1>2, <1>3, <1>4, <1>5

\* The box hides its results: nothing is on display and no search counts.
LEMMA BoxResets ==
  ASSUME BoxInv, ServerTypeOK', call' = call, current' = None, delivered' = delivered,
         shown' \in {shown, None}, searching' \in BOOLEAN, timer' \in BOOLEAN
  PROVE  BoxInv'
<1>. USE DEF BoxInv
<1>1. Started' = Started
  BY DEF Started
<1>2. StartedInOrder' /\ CurrentIsLatest' /\ SpinnerUntilAnswered'
  BY <1>1 DEF StartedInOrder, CurrentIsLatest, SpinnerUntilAnswered
<1>3. SearchTypeOK' /\ ShownHasSettled'
  BY DEF SearchTypeOK, ShownHasSettled
<1>. QED BY <1>2, <1>3

\* start: the new search is the latest, and no earlier error stays on display.
LEMMA BoxStarts ==
  ASSUME BoxInv, ServerTypeOK', Start, text \in Queries, timer' \in BOOLEAN
  PROVE  BoxInv'
<1>. USE DEF BoxInv
<1>. DEFINE c == NextCall
<1>1. PICK n \in 0 .. Cardinality(BoxCalls) : Started = 1 .. n
  BY DEF StartedInOrder
<1>2. n \in Nat /\ c = n + 1 /\ c \in BoxCalls /\ c \in Calls /\ n + 1 \in 1 .. Cardinality(BoxCalls)
      /\ Cardinality(BoxCalls) \in Nat
  <2>1. Cardinality(BoxCalls) \in Nat
    BY BoxAssumption, FS_CardinalityType
  <2>2. n \in Nat /\ Cardinality(1 .. n) = n
    BY <1>1, <2>1, FS_Interval
  <2>. QED BY <1>1, <2>1, <2>2, BoxAssumption DEF Start, NextCall
<1>3. /\ call[c].at = "unasked" /\ call'[c].at \in {"asked", "answered"}
      /\ \A e \in Calls : e # c => call'[e] = call[e]
  BY <1>2, NewlyAsked DEF Start
<1>. HIDE DEF c
<1>4. Started' = 1 .. (n + 1)
  <2>1. Started' = {e \in BoxCalls : call'[e].at # "unasked"}
    BY StartedNext
  <2>2. Started' = Started \cup {c}
    BY <1>2, <1>3, <2>1, StartedAt, BoxAssumption
  <2>. QED BY <1>1, <1>2, <2>2
<1>5. StartedInOrder'
  BY <1>2, <1>4 DEF StartedInOrder
<1>6. current' = c /\ searching' = TRUE /\ delivered' = delivered
      /\ shown' = IF shown = None \/ call[shown].results = "error" THEN None ELSE shown
  BY DEF Start, WithoutError, c
<1>7. CurrentIsLatest'
  BY <1>2, <1>4, <1>6 DEF CurrentIsLatest
<1>8. \A e \in delivered : call'[e] = call[e]
  BY <1>3, BoxAssumption DEF ShownHasSettled, SearchTypeOK
<1>9. SearchTypeOK' /\ ShownHasSettled'
  BY <1>2, <1>6, <1>8 DEF SearchTypeOK, ShownHasSettled
<1>10. SpinnerUntilAnswered'
  <2>1. shown' # None => shown' = shown /\ call'[shown] = call[shown] /\ call[shown].results # "error"
    BY <1>6, <1>8 DEF ShownHasSettled
  <2>. QED BY <1>6, <2>1 DEF SpinnerUntilAnswered
<1>. QED BY <1>5, <1>7, <1>9, <1>10

\* onSuccess and onError of a search, the latest or a superseded one.
LEMMA BoxSettles ==
  ASSUME BoxInv, ServerTypeOK', NEW c \in BoxCalls, Deliver(c)
  PROVE  BoxInv'
<1>. USE DEF BoxInv
<1>1. /\ call' = call /\ current' = current /\ timer' = timer /\ delivered' = delivered \cup {c}
      /\ call[c].at = "answered" /\ Settle(c)
  BY DEF Deliver, Answered, searchVars
<1>2. StartedInOrder' /\ CurrentIsLatest'
  BY <1>1 DEF StartedInOrder, CurrentIsLatest, Started
<1>3. SearchTypeOK' /\ ShownHasSettled'
  BY <1>1 DEF SearchTypeOK, ShownHasSettled, Settle
<1>4. SpinnerUntilAnswered'
  BY <1>1 DEF SpinnerUntilAnswered, Settle
<1>. QED BY <1>2, <1>3, <1>4

LEMMA BoxInit == Init => BoxInv
<1>. SUFFICES ASSUME Init PROVE BoxInv
  OBVIOUS
<1>1. ServerTypeOK
  BY ServerInit DEF Init, ServerInv
<1>2. Started = 1 .. 0
  BY BoxAssumption DEF Init, SearchInit, Started
<1>3. StartedInOrder
  BY <1>2, BoxAssumption, FS_CardinalityType DEF StartedInOrder
<1>. QED BY <1>1, <1>3 DEF Init, BoxInv, SearchTypeOK, CurrentIsLatest, ShownHasSettled,
                          SpinnerUntilAnswered

LEMMA BoxStep ==
  ASSUME BoxInv, text \in Queries, [Next]_vars
  PROVE  BoxInv'
<1>. USE DEF BoxInv
<1>1. ServerTypeOK'
  <2>1. [SearchNext]_searchVars
    BY BoxStepIsServerStep
  <2>2. CASE UNCHANGED searchVars
    BY <2>2 DEF ServerTypeOK, searchVars
  <2>. QED BY <2>1, <2>2, ServerTypeStep
<1>2. ASSUME NEW q \in Queries, Type(q) PROVE BoxInv'
  <2>1. /\ call' = call /\ current' = None /\ delivered' = delivered
        /\ shown' \in {shown, None} /\ searching' \in BOOLEAN
    BY <1>2 DEF Type, WithoutError, searchVars
  <2>2. timer' \in BOOLEAN
    <3>1. timer' = (q \in Meaningful)
      BY <1>2 DEF Type
    <3>2. CASE q \in Meaningful
      BY <3>1, <3>2
    <3>3. CASE q \notin Meaningful
      BY <3>1, <3>3
    <3>. QED BY <3>2, <3>3
  <2>. QED BY <1>1, <2>1, <2>2, BoxResets
<1>3. CASE TimerFires \/ Enter
  BY <1>1, <1>3, BoxStarts DEF TimerFires, Enter
<1>4. CASE Dismiss
  BY <1>1, <1>4, BoxResets DEF Dismiss, searchVars
<1>5. ASSUME NEW c \in BoxCalls, Deliver(c) PROVE BoxInv'
  BY <1>1, <1>5, BoxSettles
<1>6. ASSUME UNCHANGED boxVars, NEW c \in Calls,
             Serve(c) \/ (c \notin BoxCalls /\ \E q \in Queries : Ask(c, q))
      PROVE  BoxInv'
  <2>1. \A e \in BoxCalls : /\ call'[e].at = "unasked" <=> call[e].at = "unasked"
                            /\ call[e].at = "answered" => call'[e] = call[e]
    BY <1>6, ServeEffect, NewlyAsked, BoxAssumption
  <2>2. Started' = Started
    <3>1. Started' = {e \in BoxCalls : call'[e].at # "unasked"}
      BY <1>1, StartedNext
    <3>. QED BY <2>1, <3>1, StartedAt
  <2>. QED BY <1>1, <1>6, <2>1, <2>2, BoxStays DEF boxVars, SearchTypeOK
<1>7. CASE (UNCHANGED boxVars /\ Tick) \/ UNCHANGED vars
  <2>1. call' = call /\ UNCHANGED boxVars
    BY <1>7 DEF Tick, vars, searchVars
  <2>. QED BY <1>1, <2>1, BoxStays DEF boxVars, SearchTypeOK, Started
<1>. QED BY <1>2, <1>3, <1>4, <1>5, <1>6, <1>7 DEF Next

LEMMA BoxCorrect == Spec => []BoxInv
<1>1. Init => BoxInv
  BY BoxInit
<1>2. BoxInv /\ text \in Queries /\ [Next]_vars => BoxInv'
  BY BoxStep
<1>. QED BY <1>1, <1>2, TextIsQuery, PTL DEF Spec

\* start, generation: while the latest search is under way the spinner turns
\* and no error is on display, however late superseded answers come.
THEOREM SpinnerTurns == Spec => []SpinnerUntilAnswered
<1>1. BoxInv => SpinnerUntilAnswered
  BY DEF BoxInv
<1>. QED BY <1>1, BoxCorrect, PTL

\* What is shown is never replaced by the answer of an earlier search.
THEOREM NewestWins == Spec => NewestSearchWins
<1>1. BoxInv /\ [Next]_vars => [shown # None /\ shown' # None => shown' >= shown]_vars
  <2>. SUFFICES ASSUME BoxInv, Next, shown # None, shown' # None PROVE shown' >= shown
    OBVIOUS
  <2>1. shown \in BoxCalls /\ shown \in delivered /\ shown \in Nat
    BY BoxAssumption, CallsAssumption DEF BoxInv, SearchTypeOK, ShownHasSettled
  <2>2. CASE shown' = shown
    BY <2>1, <2>2
  <2>3. ASSUME NEW c \in BoxCalls, Deliver(c), c = current PROVE shown' >= shown
    <3>1. shown \in Started
      BY <2>1, StartedAt DEF BoxInv, ShownHasSettled
    <3>2. shown' = c /\ c # None
      BY <2>3, BoxAssumption, CallsAssumption DEF Deliver, Settle, None, Free
    <3>3. shown <= c /\ c \in Nat
      BY <2>3, <3>1, <3>2, BoxAssumption, CallsAssumption DEF BoxInv, CurrentIsLatest
    <3>. QED BY <2>1, <3>2, <3>3
  <2>4. shown' = shown \/ \E c \in BoxCalls : Deliver(c) /\ c = current
    BY DEF Next, Type, TimerFires, Enter, Start, WithoutError, Dismiss, Deliver, Settle, boxVars
  <2>. QED BY <2>2, <2>3, <2>4
<1>. QED BY <1>1, BoxCorrect, PTL DEF Spec, NewestSearchWins
=============================================================================
