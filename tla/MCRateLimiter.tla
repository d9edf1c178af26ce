--------------------------- MODULE MCRateLimiter ---------------------------
(***************************************************************************)
(* An instance of RateLimiter for TLC, with a clock that stops.            *)
(***************************************************************************)
EXTENDS RateLimiter

CONSTANT MaxTime  \* bound: the clock stops here

Next == LimiterNext /\ now' <= MaxTime

Spec == LimiterInit /\ [][Next]_<<now, limiterVars>>
=============================================================================
