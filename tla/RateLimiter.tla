---------------------------- MODULE RateLimiter ----------------------------
(***************************************************************************)
(* The fixed-window limiter of httpapi/ratelimit.go.  A bucket holds the   *)
(* requests of one key since its window began; the first request after the *)
(* window's end begins a new one, and buckets nobody used for two windows  *)
(* are swept away, at most once a window, by whichever request comes.      *)
(***************************************************************************)
EXTENDS Integers, Sequences

CONSTANTS
  Keys,         \* scope and user, or client address
  MaxRequests,  \* max: requests a window admits
  Window        \* window, in ticks of the clock

ASSUME LimiterAssumption == MaxRequests \in Nat \ {0} /\ Window \in Nat \ {0}

VARIABLES
  now,       \* the clock; it starts at 1
  buckets,   \* per key: its bucket, or NoBucket
  lastSweep, \* when buckets were swept last; 0 is never
  admitted   \* history: per key, when its requests were let through

limiterVars == <<buckets, lastSweep, admitted>>

NoBucket == [startedAt |-> 0, lastSeen |-> 0, requests |-> 0]

LimiterInit ==
  /\ now = 1
  /\ buckets = [k \in Keys |-> NoBucket]
  /\ lastSweep = 0
  /\ admitted = [k \in Keys |-> << >>]

SweepDue == lastSweep = 0 \/ now - lastSweep >= Window

Swept(k) ==
  IF SweepDue /\ now - buckets[k].lastSeen >= 2 * Window THEN NoBucket ELSE buckets[k]

\* Mutant of BeginsWindow: the comparison is the wrong way round.
BeginsWindowEarly(k) == Swept(k) = NoBucket \/ now - Swept(k).startedAt < Window

BeginsWindow(k) == Swept(k) = NoBucket \/ now - Swept(k).startedAt >= Window

Admits(k) == BeginsWindow(k) \/ Swept(k).requests < MaxRequests

Counted(k) ==
  IF BeginsWindow(k) THEN [startedAt |-> now, lastSeen |-> now, requests |-> 1]
  ELSE [Swept(k) EXCEPT !.lastSeen = now, !.requests = IF Admits(k) THEN @ + 1 ELSE @]

\* allow: a whole request under the limiter's mutex.
Allow(k) ==
  /\ buckets' = [i \in Keys |-> IF i = k THEN Counted(k) ELSE Swept(i)]
  /\ lastSweep' = IF SweepDue THEN now ELSE lastSweep
  /\ admitted' = IF Admits(k) THEN [admitted EXCEPT ![k] = Append(@, now)] ELSE admitted

LimiterNext ==
  \/ UNCHANGED now /\ \E k \in Keys : Allow(k)
  \/ now' = now + 1 /\ UNCHANGED limiterVars

LimiterSpec == LimiterInit /\ [][LimiterNext]_<<now, limiterVars>>
-----------------------------------------------------------------------------

\* A window is fixed to the request that began it, so a burst around its edge
\* may get twice the limit through; never more: of 2 * MaxRequests + 1
\* requests in a row the last comes a window after the first, sweeps or not.
AtMostTwiceTheLimit ==
  \A k \in Keys : \A i \in 1..(Len(admitted[k]) - 2 * MaxRequests) :
    admitted[k][i + 2 * MaxRequests] - admitted[k][i] >= Window
=============================================================================
