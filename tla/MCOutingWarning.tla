-------------------------- MODULE MCOutingWarning --------------------------
(***************************************************************************)
(* An instance of OutingWarning for TLC: only the phone subscribes twice.  *)
(***************************************************************************)
EXTENDS OutingWarning

MCMaxSubscriptions(d) == IF d = "phone" THEN 2 ELSE 1
=============================================================================
