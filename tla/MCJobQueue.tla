----------------------------- MODULE MCJobQueue -----------------------------
(***************************************************************************)
(* Instance of the job queue for TLC.                                      *)
(***************************************************************************)
EXTENDS JobQueue

CONSTANTS w1, w2, k1, k2
=============================================================================
