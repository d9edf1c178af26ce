------------------------- MODULE MCRouteProcessing -------------------------
(***************************************************************************)
(* Instances of RouteProcessing for TLC, with the pass of Cleaner over     *)
(* eight samples in three batches that overlap, on a straight line.  The   *)
(* one that ends with s8 may have been sent first without s6 and s7, which *)
(* another page of the journey records meanwhile, older than s8.           *)
(* OneTryBatches leaves that first try out.  There is a gap after s2, s4   *)
(* is noise, s5 an impossible jump and the following one is plausible from *)
(* there, s7 has the time of s6; Ingest flags s8.                          *)
(***************************************************************************)
EXTENDS RouteProcessing

OneTryBatches == {{"s1", "s2", "s3"}, {"s3", "s4", "s5", "s6", "s7", "s8"}}
MCBatches == OneTryBatches \cup {{"s3", "s4", "s5", "s8"}}
MCLastOf(b) == IF "s8" \in b THEN "s8" ELSE "s3"

Seconds == [s1 |-> 0, s2 |-> 60, s3 |-> 600, s4 |-> 610, s5 |-> 640, s6 |-> 760, s7 |-> 760, s8 |-> 762]
Metres == [s1 |-> 0, s2 |-> 900, s3 |-> 2000, s4 |-> 2004, s5 |-> 9000, s6 |-> 12000, s7 |-> 12010,
           s8 |-> 12100]

Ids == [s1 |-> 1, s2 |-> 2, s3 |-> 3, s4 |-> 4, s5 |-> 5, s6 |-> 6, s7 |-> 7, s8 |-> 8]

MCTrack(S) == SelectSeq(<<"s1", "s2", "s3", "s4", "s5", "s6", "s7", "s8">>, LAMBDA s : s \in S)
MCCapturedAt(s) == Seconds[s]
MCId(s) == Ids[s]
MCAccuracyM(s) == 10
MCDistanceM(a, b) == IF Metres[a] < Metres[b] THEN Metres[b] - Metres[a] ELSE Metres[a] - Metres[b]
=============================================================================
