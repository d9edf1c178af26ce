---------------------------- MODULE AtLeastOnce ----------------------------
(***************************************************************************)
(* What the job queue promises whoever enqueues: a submitted job is tried, *)
(* possibly several times at once and possibly again after it was already  *)
(* done; it leaves the queue only after a try succeeded, and it is given   *)
(* up only after MaxAttempts tries.                                        *)
(***************************************************************************)
EXTENDS Naturals

CONSTANTS Jobs, MaxAttempts

VARIABLES
  phase,      \* "new", "queued", "done" or "givenUp"
  tries,      \* tries begun
  delivered   \* tries that succeeded

vars == <<phase, tries, delivered>>

Init ==
  /\ phase = [j \in Jobs |-> "new"]
  /\ tries = [j \in Jobs |-> 0]
  /\ delivered = [j \in Jobs |-> 0]

Submit(j) ==
  /\ phase[j] = "new"
  /\ phase' = [phase EXCEPT ![j] = "queued"]
  /\ UNCHANGED <<tries, delivered>>

\* A worker leases a set of queued jobs.
Try(S) ==
  /\ \A j \in S : phase[j] = "queued"
  /\ tries' = [j \in Jobs |-> IF j \in S THEN tries[j] + 1 ELSE tries[j]]
  /\ UNCHANGED <<phase, delivered>>

\* A try succeeds, maybe long after another try settled the job.
Deliver(j) ==
  /\ delivered[j] < tries[j]
  /\ delivered' = [delivered EXCEPT ![j] = @ + 1]
  /\ UNCHANGED <<phase, tries>>

Settle(j) ==
  /\ phase[j] = "queued"
  /\ delivered[j] > 0
  /\ phase' = [phase EXCEPT ![j] = "done"]
  /\ UNCHANGED <<tries, delivered>>

GiveUp(j) ==
  /\ phase[j] = "queued"
  /\ tries[j] >= MaxAttempts
  /\ phase' = [phase EXCEPT ![j] = "givenUp"]
  /\ UNCHANGED <<tries, delivered>>

Next ==
  \/ \E j \in Jobs : Submit(j) \/ Deliver(j) \/ Settle(j) \/ GiveUp(j)
  \/ \E S \in SUBSET Jobs : Try(S)

Spec == Init /\ [][Next]_vars
=============================================================================
