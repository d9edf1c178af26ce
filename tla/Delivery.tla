------------------------------ MODULE Delivery ------------------------------
(***************************************************************************)
(* What offline capture promises whatever is lost between a device and its *)
(* server: an item is captured once, reaches the server after it was       *)
(* captured, perhaps several times, and counts as synced after it reached  *)
(* the server, for good.  The request for an item that is kept waits until *)
(* the item is synced.                                                     *)
(***************************************************************************)
CONSTANTS
  Items,
  Kept    \* those whose request waits until they are synced

VARIABLES
  made,     \* items captured
  waiting,  \* kept items with a request
  stored,   \* items the server has
  synced    \* items the device knows the server has

vars == <<made, waiting, stored, synced>>

Init == made = {} /\ waiting = {} /\ stored = {} /\ synced = {}

Capture(i) ==
  /\ i \notin made
  /\ made' = made \cup {i}
  /\ waiting' = waiting \cup (Kept \cap {i})
  /\ UNCHANGED <<stored, synced>>

Store(S) ==
  /\ stored' = stored \cup S
  /\ UNCHANGED <<made, waiting, synced>>

Acknowledge(S) ==
  /\ synced' = synced \cup S
  /\ UNCHANGED <<made, waiting, stored>>

Settle(i) ==
  /\ waiting' = waiting \ {i}
  /\ UNCHANGED <<made, stored, synced>>

Next ==
  \/ \E i \in Items : Capture(i)
  \/ \E S \in SUBSET made : Store(S)
  \/ \E S \in SUBSET stored : Acknowledge(S)
  \/ \E i \in synced : Settle(i)

Spec == Init /\ [][Next]_vars
=============================================================================
