------------------------------- MODULE Cleaner -------------------------------
(***************************************************************************)
(* The algorithm of tracking.Clean: one pass over the accepted samples of  *)
(* a journey that rejects outliers and cuts the track into segments.  The  *)
(* great-circle distance is a parameter; times are in seconds, distances   *)
(* in metres.                                                              *)
(***************************************************************************)
EXTENDS Integers, SequencesExt

CONSTANTS
  Samples,         \* GPS samples a client may send
  Track(_),        \* the list of a set of samples by captured_at and id
  CapturedAt(_),   \* when a sample was captured
  Id(_),           \* its id in the database
  DistanceM(_, _), \* the distance of two samples
  AccuracyM(_)     \* the accuracy the device gave a sample

ASSUME CapturedAtAssumption == \A s \in Samples : CapturedAt(s) \in Int

\* ORDER BY captured_at, id.
Precedes(s, t) ==
  \/ CapturedAt(s) < CapturedAt(t)
  \/ CapturedAt(s) = CapturedAt(t) /\ Id(s) < Id(t)

ASSUME IdAssumption == \A s \in Samples : Id(s) \in Int
ASSUME TrackAssumption ==
  \A S \in SUBSET Samples :
    /\ Track(S) \in Seq(S) /\ ToSet(Track(S)) = S
    /\ \A i, j \in DOMAIN Track(S) : i < j => Precedes(Track(S)[i], Track(S)[j])

segmentGap == 300
maxDerivedSpeedMPS == 70

Delta(previous, s) == CapturedAt(s) - CapturedAt(previous)

\* max(5, (a + b) / 4), in quarters of a metre.
WithinJitter(previous, s) ==
  LET quarters == AccuracyM(previous) + AccuracyM(s)
  IN 4 * DistanceM(previous, s) < (IF quarters > 20 THEN quarters ELSE 20)

\* non_monotonic_time, impossible_jump or stationary_jitter.
Outlier(previous, s) ==
  \/ Delta(previous, s) <= 0
  \/ DistanceM(previous, s) > maxDerivedSpeedMPS * Delta(previous, s)
  \/ Delta(previous, s) <= 30 /\ WithinJitter(previous, s)

\* The state of the pass: the finished segments, the current one, and the
\* samples it rejected.
Passes == [segments : SUBSET SUBSET Samples, current : Seq(Samples), rejected : SUBSET Samples]
Empty == [segments |-> {}, current |-> <<>>, rejected |-> {}]

\* A segment has at least two points.
Flush(pass) ==
  [pass EXCEPT !.current = <<>>,
     !.segments = IF Len(pass.current) >= 2 THEN @ \cup {ToSet(pass.current)} ELSE @]

Extend(pass, s) == [pass EXCEPT !.current = Append(@, s)]
Reject(pass, s) == [pass EXCEPT !.rejected = @ \cup {s}]

\* Mutant of Scan: a gap does not end the segment.
ScanAcrossGaps ==
  [pass \in Passes |-> [s \in Samples |->
     IF pass.current # <<>> /\ Delta(Last(pass.current), s) <= segmentGap
                           /\ Outlier(Last(pass.current), s)
     THEN Reject(pass, s) ELSE Extend(pass, s)]]

\* One sample: it begins a segment, begins another after a gap, is rejected
\* or continues the segment.  A rejected sample is not the next one's previous.
Scan ==
  [pass \in Passes |-> [s \in Samples |->
     CASE pass.current = <<>> -> Extend(pass, s)
       [] pass.current # <<>> /\ Delta(Last(pass.current), s) > segmentGap ->
            Extend(Flush(pass), s)
       [] pass.current # <<>> /\ Delta(Last(pass.current), s) <= segmentGap ->
            IF Outlier(Last(pass.current), s) THEN Reject(pass, s) ELSE Extend(pass, s)]]

\* The state after the first n samples of a track.
Scanned(track) ==
  LET scanned[n \in 0 .. Len(track)] ==
        IF n = 0 THEN Empty ELSE Scan[scanned[n - 1]][track[n]]
  IN scanned

Clean(S) == Flush(Scanned(Track(S))[Len(Track(S))])

-----------------------------------------------------------------------------
\* No line is drawn across a gap, to an impossible place or within the noise.
Traversable(points) ==
  LET track == Track(points)
  IN /\ Len(track) >= 2
     /\ \A i \in 1 .. Len(track) - 1 :
          /\ Delta(track[i], track[i + 1]) <= segmentGap
          /\ ~Outlier(track[i], track[i + 1])
=============================================================================
