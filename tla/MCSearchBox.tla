---------------------------- MODULE MCSearchBox ----------------------------
(***************************************************************************)
(* An instance of SearchBox for TLC: two searches of the box and a call of *)
(* another page of the same user, who is one key of the limiter.           *)
(***************************************************************************)
EXTENDS SearchBox

MCUser(c) == "rider"
=============================================================================
