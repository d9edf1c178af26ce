------------------------------ MODULE MCSharing ------------------------------
(***************************************************************************)
(* Instances of Sharing for TLC: two pins of one journey, a place saved on *)
(* its own, one share with a photo, and item lists that are empty,         *)
(* reordered, repeated, or give a stop the photo of another one.           *)
(***************************************************************************)
EXTENDS Sharing

CONSTANTS c1, c2, p1, p2, p3, j1, h1, ph1

MCJourneyOf(r) == j1
MCSharedJourney(h) == j1
MCStopOf(p) == p1
MCSelections ==
  {<<>>, <<[request |-> p2, photos |-> {}], [request |-> p1, photos |-> {ph1}]>>,
   <<[request |-> p1, photos |-> {}], [request |-> p1, photos |-> {}]>>,
   <<[request |-> p2, photos |-> {ph1}]>>}
=============================================================================
