----------------------------- MODULE JourneyLog -----------------------------
(***************************************************************************)
(* What a journey promises those who pin to it: a log of entries, each     *)
(* written once, one after the other and only while the log is open.       *)
(* Nothing is ever taken out of it or moved, and what was closed stays so. *)
(***************************************************************************)
EXTENDS Sequences, Functions

CONSTANTS
  Logs,
  Entries

VARIABLES
  open,  \* logs that can be written
  log    \* per log: its entries, in the order they were written

vars == <<open, log>>

Init == open = Logs /\ log = [j \in Logs |-> <<>>]

Write(j, e) ==
  /\ j \in open
  /\ e \notin Range(log[j])
  /\ log' = [log EXCEPT ![j] = Append(@, e)]
  /\ UNCHANGED open

Close(j) ==
  /\ open' = open \ {j}
  /\ UNCHANGED log

Next ==
  \/ \E j \in Logs, e \in Entries : Write(j, e)
  \/ \E j \in open : Close(j)

Spec == Init /\ [][Next]_vars
=============================================================================
