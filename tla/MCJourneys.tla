----------------------------- MODULE MCJourneys -----------------------------
(***************************************************************************)
(* Instances of Journeys for TLC: one owner who asked for an outing and,   *)
(* with two journeys, for a trip as well.                                  *)
(***************************************************************************)
EXTENDS Journeys

CONSTANTS outing1, trip1, alice

MCOwner(j) == alice
MCAskedKind(j) == IF j = outing1 THEN "outing" ELSE "trip"
=============================================================================
