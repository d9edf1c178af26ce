----------------------------- MODULE RouteProofs -----------------------------
(***************************************************************************)
(* Theorems about Cleaner and RouteProcessing, for any samples, batches,   *)
(* workers and distances.                                                  *)
(*                                                                         *)
(* The cleaner is proved about by induction over the samples of a track:   *)
(* its segments are linked listings (Sound), and a pass over what it kept  *)
(* goes through the same segments (Follows).                               *)
(*                                                                         *)
(* Two arguments carry the route: a sample whose batch was not absorbed    *)
(* has a row that no handler is at without having read it (Tended); and    *)
(* while no two workers have met, what the one at work read is what is     *)
(* stored, or a row other than its own is there to read it again, or what  *)
(* it lacks was absorbed (Current).                                        *)
(***************************************************************************)
EXTENDS RouteProcessing, Induction, SequenceTheorems

\* Samples in the order of the query.
Listed(t) ==
  /\ t \in Seq(Samples)
  /\ \A i, j \in 1 .. Len(t) : i < j => Precedes(t[i], t[j])

\* A line may be drawn along q.
Linked(q) ==
  \A i \in 1 .. Len(q) - 1 : Delta(q[i], q[i + 1]) <= segmentGap /\ ~Outlier(q[i], q[i + 1])

Taken(t, n) == {t[i] : i \in 1 .. n}

\* The sample is an outlier next to the last one kept.
Skips(pass, s) ==
  /\ pass.current # <<>>
  /\ Delta(Last(pass.current), s) <= segmentGap
  /\ Outlier(Last(pass.current), s)

\* What a pass has made of the first n samples.
Sound(t, n, pass) ==
  /\ pass \in Passes
  /\ Listed(pass.current) /\ Linked(pass.current)
  /\ ToSet(pass.current) \subseteq Taken(t, n)
  /\ pass.rejected \subseteq Taken(t, n)
  /\ \A g \in pass.segments :
       /\ g \subseteq Taken(t, n)
       /\ \E q : Listed(q) /\ Linked(q) /\ Len(q) >= 2 /\ g = ToSet(q)

LEMMA PrecedesIsStrict ==
  ASSUME NEW s \in Samples, NEW u \in Samples, Precedes(s, u)
  PROVE  ~Precedes(u, s)
<1>1. /\ CapturedAt(s) \in Int /\ CapturedAt(u) \in Int
      /\ Id(s) \in Int /\ Id(u) \in Int
  BY CapturedAtAssumption, IdAssumption
<1>. QED BY <1>1 DEF Precedes

\* The state after n samples, from the state after one less.
LEMMA ScannedIs ==
  ASSUME NEW t, Len(t) \in Nat
  PROVE  /\ Scanned(t)[0] = Empty
         /\ \A n \in 1 .. Len(t) : Scanned(t)[n] = Scan[Scanned(t)[n - 1]][t[n]]
<1>1. Scanned(t) = CHOOSE f : f = [n \in 0 .. Len(t) |-> IF n = 0 THEN Empty ELSE Scan[f[n - 1]][t[n]]]
  BY DEF Scanned
<1>2. Computes(Scanned(t), Len(t), Empty, Scan, t)
  BY <1>1, RecursionComputes
<1>. QED BY <1>2 DEF Computes

\* Two listings of one set are the same.
LEMMA ListingIsUnique ==
  ASSUME NEW q, NEW r, Listed(q), Listed(r), ToSet(q) = ToSet(r)
  PROVE  q = r
<1>. USE DEF Listed, ToSet
<1>1. ASSUME NEW x, NEW y, Listed(x), Listed(y), ToSet(x) = ToSet(y)
      PROVE  \A i \in 1 .. Len(x) : i \in 1 .. Len(y) /\ x[i] = y[i]
  <2>0. /\ x \in Seq(Samples) /\ y \in Seq(Samples)
        /\ Len(x) \in Nat /\ Len(y) \in Nat
        /\ DOMAIN x = 1 .. Len(x) /\ DOMAIN y = 1 .. Len(y)
    BY <1>1
  <2>. DEFINE Bad == {i \in 1 .. Len(x) : ~(i \in 1 .. Len(y) /\ x[i] = y[i])}
  <2>. SUFFICES ASSUME Bad # {} PROVE FALSE
    OBVIOUS
  <2>1. Bad \subseteq Nat
    BY <2>0
  <2>. HIDE DEF Bad
  <2>2. PICK i \in Bad : \A k \in Bad : i <= k
    BY <2>1, LeastNumber
  <2>. USE DEF Bad
  <2>3. \A k \in 1 .. i - 1 : k \in 1 .. Len(x) /\ k \in 1 .. Len(y) /\ x[k] = y[k]
    BY <2>0, <2>2
  <2>4. PICK j \in 1 .. Len(y) : x[i] = y[j]
    BY <1>1, <2>0, <2>2
  <2>5. \A k, l \in 1 .. Len(x) : x[k] = x[l] => k = l
    BY <1>1, <2>0, PrecedesIsStrict
  <2>6. j >= i
    BY <2>0, <2>2, <2>3, <2>4, <2>5
  <2>7. i \in 1 .. Len(y) /\ j > i
    BY <2>0, <2>2, <2>4, <2>6
  <2>8. PICK k \in 1 .. Len(x) : y[i] = x[k]
    BY <1>1, <2>0, <2>7
  <2>9. \A m, l \in 1 .. Len(y) : y[m] = y[l] => m = l
    BY <1>1, <2>0, PrecedesIsStrict
  <2>10. k > i
    <3>1. k # i
      BY <2>2, <2>7, <2>8
    <3>2. k \notin 1 .. i - 1
      BY <2>3, <2>7, <2>8, <2>9, <2>0
    <3>. QED BY <3>1, <3>2, <2>0, <2>2, <2>8
  <2>11. Precedes(x[i], x[k]) /\ Precedes(y[i], y[j])
    BY <1>1, <2>2, <2>7, <2>8, <2>10, <2>4
  <2>12. x[i] \in Samples /\ x[k] \in Samples
    BY <2>0, <2>2, <2>8
  <2>. QED BY <2>4, <2>8, <2>11, <2>12, PrecedesIsStrict
<1>2. /\ q \in Seq(Samples) /\ r \in Seq(Samples)
      /\ Len(q) \in Nat /\ Len(r) \in Nat
  OBVIOUS
<1>3. \A i \in 1 .. Len(q) : i \in 1 .. Len(r) /\ q[i] = r[i]
  BY <1>1
<1>4. \A i \in 1 .. Len(r) : i \in 1 .. Len(q)
  BY <1>1
<1>5. Len(q) = Len(r)
  BY <1>2, <1>3, <1>4
<1>. QED BY <1>2, <1>3, <1>5, SeqEqual

\* The two ways a sample goes.
LEMMA ScanCases ==
  ASSUME NEW pass \in Passes, NEW s \in Samples
  PROVE  /\ Skips(pass, s) => Scan[pass][s] = Reject(pass, s)
         /\ ~Skips(pass, s) =>
              Scan[pass][s] = IF pass.current # <<>> /\ Delta(Last(pass.current), s) > segmentGap
                              THEN Extend(Flush(pass), s) ELSE Extend(pass, s)
<1>1. /\ pass.current \in Seq(Samples)
      /\ pass.current # <<>> => Last(pass.current) \in Samples
  <2>1. pass.current \in Seq(Samples)
    BY DEF Passes
  <2>2. ASSUME pass.current # <<>> PROVE Len(pass.current) \in 1 .. Len(pass.current)
    BY <2>1, <2>2, EmptySeq
  <2>. QED BY <2>1, <2>2, ElementOfSeq DEF Last
<1>2. pass.current # <<>> => Delta(Last(pass.current), s) \in Int
  BY <1>1, CapturedAtAssumption DEF Delta
<1>3. Scan[pass][s] =
       CASE pass.current = <<>> -> Extend(pass, s)
         [] pass.current # <<>> /\ Delta(Last(pass.current), s) > segmentGap ->
              Extend(Flush(pass), s)
         [] pass.current # <<>> /\ Delta(Last(pass.current), s) <= segmentGap ->
              IF Outlier(Last(pass.current), s) THEN Reject(pass, s) ELSE Extend(pass, s)
  BY DEF Scan
<1>4. CASE pass.current = <<>>
  BY <1>3, <1>4 DEF Skips
<1>5. CASE pass.current # <<>> /\ Delta(Last(pass.current), s) > segmentGap
  <2>1. ~(Delta(Last(pass.current), s) <= segmentGap)
    BY <1>2, <1>5 DEF segmentGap
  <2>. QED BY <1>3, <1>5, <2>1 DEF Skips
<1>6. CASE pass.current # <<>> /\ Delta(Last(pass.current), s) <= segmentGap
  <2>1. ~(Delta(Last(pass.current), s) > segmentGap)
    BY <1>2, <1>6 DEF segmentGap
  <2>. QED BY <1>3, <1>6, <2>1 DEF Skips
<1>7. pass.current # <<>> =>
        Delta(Last(pass.current), s) > segmentGap \/ Delta(Last(pass.current), s) <= segmentGap
  BY <1>2 DEF segmentGap
<1>. QED BY <1>4, <1>5, <1>6, <1>7

\* What ending a segment changes.
LEMMA FlushParts ==
  ASSUME NEW pass \in Passes
  PROVE  /\ Flush(pass) \in Passes
         /\ Flush(pass).segments = pass.segments \cup
              (IF Len(pass.current) >= 2 THEN {ToSet(pass.current)} ELSE {})
         /\ Flush(pass).rejected = pass.rejected
         /\ Flush(pass).current = <<>>
<1>1. /\ pass.current \in Seq(Samples) /\ <<>> \in Seq(Samples)
      /\ pass.segments \subseteq SUBSET Samples /\ pass.rejected \subseteq Samples
  BY EmptySeq DEF Passes
<1>2. ToSet(pass.current) \in SUBSET Samples
  BY <1>1, ElementOfSeq DEF ToSet
<1>3. Flush(pass) \in Passes
  BY <1>1, <1>2 DEF Flush, Passes
<1>4. /\ Flush(pass).segments = pass.segments \cup
           (IF Len(pass.current) >= 2 THEN {ToSet(pass.current)} ELSE {})
      /\ Flush(pass).rejected = pass.rejected
      /\ Flush(pass).current = <<>>
  BY DEF Flush, Passes
<1>. QED BY <1>3, <1>4

\* What continuing a segment changes.
LEMMA ExtendParts ==
  ASSUME NEW pass \in Passes, NEW s \in Samples
  PROVE  /\ Extend(pass, s) \in Passes
         /\ Extend(pass, s).segments = pass.segments
         /\ Extend(pass, s).rejected = pass.rejected
         /\ Extend(pass, s).current = Append(pass.current, s)
<1>1. /\ Append(pass.current, s) \in Seq(Samples)
      /\ pass.segments \subseteq SUBSET Samples /\ pass.rejected \subseteq Samples
  BY DEF Passes
<1>2. Extend(pass, s) \in Passes
  BY <1>1 DEF Extend, Passes
<1>. QED BY <1>2 DEF Extend, Passes

\* What rejecting a sample changes.
LEMMA RejectParts ==
  ASSUME NEW pass \in Passes, NEW s \in Samples
  PROVE  /\ Reject(pass, s) \in Passes
         /\ Reject(pass, s).segments = pass.segments
         /\ Reject(pass, s).rejected = pass.rejected \cup {s}
         /\ Reject(pass, s).current = pass.current
<1>1. Reject(pass, s) \in Passes
  BY DEF Reject, Passes
<1>. QED BY <1>1 DEF Reject, Passes

\* The current segment grows by a sample that is linked to its last.
LEMMA ChainGrows ==
  ASSUME NEW q, Listed(q), Linked(q), NEW s \in Samples,
         \A i \in 1 .. Len(q) : Precedes(q[i], s),
         q # <<>> => Delta(Last(q), s) <= segmentGap /\ ~Outlier(Last(q), s)
  PROVE  Listed(Append(q, s)) /\ Linked(Append(q, s))
<1>1. /\ q \in Seq(Samples) /\ Len(q) \in Nat
      /\ Append(q, s) \in Seq(Samples)
      /\ Len(Append(q, s)) = Len(q) + 1
      /\ \A i \in 1 .. Len(q) : Append(q, s)[i] = q[i]
      /\ Append(q, s)[Len(q) + 1] = s
  BY AppendProperties DEF Listed
<1>2. Listed(Append(q, s))
  BY <1>1 DEF Listed
<1>3. ASSUME NEW i \in 1 .. Len(q)
      PROVE  /\ Delta(Append(q, s)[i], Append(q, s)[i + 1]) <= segmentGap
             /\ ~Outlier(Append(q, s)[i], Append(q, s)[i + 1])
  <2>1. CASE i = Len(q)
    <3>1. q # <<>>
      BY <1>1, <2>1, EmptySeq
    <3>2. Append(q, s)[i] = Last(q) /\ Append(q, s)[i + 1] = s
      BY <1>1, <2>1 DEF Last
    <3>. QED BY <3>1, <3>2
  <2>2. CASE i # Len(q)
    <3>1. i \in 1 .. Len(q) - 1 /\ i + 1 \in 1 .. Len(q)
      BY <1>1, <2>2
    <3>2. Append(q, s)[i] = q[i] /\ Append(q, s)[i + 1] = q[i + 1]
      BY <1>1, <3>1
    <3>. QED BY <3>1, <3>2 DEF Linked
  <2>. QED BY <2>1, <2>2
<1>4. Linked(Append(q, s))
  BY <1>1, <1>3 DEF Linked
<1>. QED BY <1>2, <1>4

LEMMA RangeOfAppend ==
  ASSUME NEW q \in Seq(Samples), NEW s \in Samples
  PROVE  ToSet(Append(q, s)) = ToSet(q) \cup {s}
BY AppendProperties DEF ToSet

\* A single sample is a segment that has begun.
LEMMA ChainBegins ==
  ASSUME NEW s \in Samples
  PROVE  /\ Listed(<<>>) /\ Linked(<<>>) /\ ToSet(<<>>) = {}
         /\ Listed(Append(<<>>, s)) /\ Linked(Append(<<>>, s))
<1>1. Listed(<<>>) /\ Linked(<<>>) /\ ToSet(<<>>) = {}
  BY EmptySeq DEF Listed, Linked, ToSet
<1>2. \A i \in 1 .. Len(<<>>) : Precedes((<<>>)[i], s)
  OBVIOUS
<1>. QED BY <1>1, <1>2, ChainGrows

\* One more sample.
LEMMA ScanIsSound ==
  ASSUME NEW t, Listed(t), NEW n \in 1 .. Len(t), NEW pass, Sound(t, n - 1, pass)
  PROVE  Sound(t, n, Scan[pass][t[n]])
<1>. DEFINE s == t[n]
            after == Scan[pass][s]
<1>1. /\ t \in Seq(Samples) /\ Len(t) \in Nat /\ s \in Samples
      /\ pass \in Passes /\ pass.current \in Seq(Samples) /\ pass.segments \subseteq SUBSET Samples
      /\ Len(pass.current) \in Nat
  BY DEF Listed, Sound, Passes
<1>2. Taken(t, n) = Taken(t, n - 1) \cup {s}
  BY <1>1 DEF Taken
<1>3. \A x \in Taken(t, n - 1) : Precedes(x, s)
  BY <1>1 DEF Taken, Listed
<1>4. \A i \in 1 .. Len(pass.current) : Precedes(pass.current[i], s)
  BY <1>1, <1>3 DEF Sound, ToSet
<1>5. ToSet(Append(pass.current, s)) = ToSet(pass.current) \cup {s}
  BY <1>1, RangeOfAppend
<1>6. CASE Skips(pass, s)
  <2>1. after = Reject(pass, s)
    BY <1>1, <1>6, ScanCases
  <2>. HIDE DEF after
  <2>2. /\ after \in Passes /\ after.current = pass.current
        /\ after.rejected = pass.rejected \cup {s} /\ after.segments = pass.segments
    <3>1. /\ Reject(pass, s) \in Passes
          /\ Reject(pass, s).segments = pass.segments
          /\ Reject(pass, s).rejected = pass.rejected \cup {s}
          /\ Reject(pass, s).current = pass.current
      BY <1>1, RejectParts
    <3>. QED BY <2>1, <3>1
  <2>3. Sound(t, n, after)
    BY <1>2, <2>2 DEF Sound
  <2>. QED BY <2>3 DEF after
<1>7. CASE ~Skips(pass, s) /\ pass.current # <<>> /\ Delta(Last(pass.current), s) > segmentGap
  <2>1. after = Extend(Flush(pass), s)
    BY <1>1, <1>7, ScanCases
  <2>2. /\ Flush(pass) \in Passes /\ Flush(pass).current = <<>>
        /\ Flush(pass).rejected = pass.rejected
        /\ Flush(pass).segments = pass.segments \cup
             (IF Len(pass.current) >= 2 THEN {ToSet(pass.current)} ELSE {})
    BY <1>1, FlushParts
  <2>3. /\ after \in Passes /\ after.current = Append(<<>>, s)
        /\ after.rejected = pass.rejected /\ after.segments = Flush(pass).segments
    BY <1>1, <2>1, <2>2, ExtendParts, Zenon
  <2>4. Listed(after.current) /\ Linked(after.current) /\ ToSet(after.current) = {s}
    <3>1. Listed(Append(<<>>, s)) /\ Linked(Append(<<>>, s)) /\ ToSet(<<>>) = {}
      BY <1>1, ChainBegins
    <3>2. ToSet(Append(<<>>, s)) = ToSet(<<>>) \cup {s}
      BY <1>1, RangeOfAppend, EmptySeq
    <3>. QED BY <2>3, <3>1, <3>2
  <2>5. ASSUME NEW g \in after.segments
        PROVE  g \subseteq Taken(t, n) /\ \E q : Listed(q) /\ Linked(q) /\ Len(q) >= 2 /\ g = ToSet(q)
    <3>1. CASE g \in pass.segments
      BY <1>2, <3>1 DEF Sound
    <3>2. CASE g = ToSet(pass.current) /\ Len(pass.current) >= 2
      BY <1>2, <3>2 DEF Sound
    <3>. QED BY <2>2, <2>3, <3>1, <3>2
  <2>. QED BY <1>2, <2>3, <2>4, <2>5 DEF Sound
<1>8. CASE ~Skips(pass, s) /\ ~(pass.current # <<>> /\ Delta(Last(pass.current), s) > segmentGap)
  <2>0. /\ Extend(pass, s) \in Passes
        /\ Extend(pass, s).segments = pass.segments
        /\ Extend(pass, s).rejected = pass.rejected
        /\ Extend(pass, s).current = Append(pass.current, s)
    BY <1>1, ExtendParts, Zenon
  <2>1. after = Extend(pass, s)
    BY <1>1, <1>8, ScanCases
  <2>2. /\ after \in Passes /\ after.current = Append(pass.current, s)
        /\ after.rejected = pass.rejected /\ after.segments = pass.segments
    BY <2>0, <2>1
  <2>3. pass.current # <<>> => Delta(Last(pass.current), s) <= segmentGap /\ ~Outlier(Last(pass.current), s)
    <3>1. ASSUME pass.current # <<>> PROVE Delta(Last(pass.current), s) \in Int
      <4>1. Last(pass.current) \in Samples
        BY <1>1, <3>1, EmptySeq, ElementOfSeq DEF Last
      <4>. QED BY <1>1, <4>1, CapturedAtAssumption DEF Delta
    <3>. QED BY <1>8, <3>1 DEF Skips, segmentGap
  <2>4. Listed(after.current) /\ Linked(after.current)
    BY <1>1, <1>4, <2>2, <2>3, ChainGrows DEF Sound
  <2>5. ToSet(after.current) \subseteq Taken(t, n)
    BY <1>2, <1>5, <2>2 DEF Sound
  <2>. QED BY <1>2, <2>2, <2>4, <2>5 DEF Sound
<1>. QED BY <1>6, <1>7, <1>8

LEMMA ScannedIsSound ==
  ASSUME NEW t, Listed(t)
  PROVE  \A n \in 0 .. Len(t) : Sound(t, n, Scanned(t)[n])
<1>. DEFINE T == {n \in 0 .. Len(t) : Sound(t, n, Scanned(t)[n])}
<1>0. Len(t) \in Nat
  BY DEF Listed
<1>1. 0 \in T
  <2>1. Scanned(t)[0] = Empty
    BY <1>0, ScannedIs
  <2>2. Empty \in Passes
    BY EmptySeq DEF Empty, Passes
  <2>3. Sound(t, 0, Empty)
    <3>1. Listed(<<>>) /\ Linked(<<>>) /\ ToSet(<<>>) = {}
      BY EmptySeq DEF Listed, Linked, ToSet
    <3>. QED BY <2>2, <3>1 DEF Sound, Empty
  <2>. QED BY <1>0, <2>1, <2>3
<1>2. ASSUME NEW n \in Nat, n < Len(t), n \in T PROVE n + 1 \in T
  <2>1. n + 1 \in 1 .. Len(t) /\ (n + 1) - 1 = n
    BY <1>0, <1>2
  <2>2. Scanned(t)[n + 1] = Scan[Scanned(t)[n]][t[n + 1]]
    BY <1>0, <2>1, ScannedIs
  <2>3. Sound(t, n + 1, Scanned(t)[n + 1])
    BY <1>2, <2>1, <2>2, ScanIsSound
  <2>. QED BY <2>1, <2>3
<1>. HIDE DEF T
<1>3. 0 .. Len(t) \subseteq T
  BY <1>0, <1>1, <1>2, IntervalInduction
<1>. QED BY <1>3 DEF T

LEMMA TrackIsListed ==
  ASSUME NEW S \in SUBSET Samples
  PROVE  Listed(Track(S)) /\ ToSet(Track(S)) = S
<1>1. /\ Track(S) \in Seq(S) /\ ToSet(Track(S)) = S
      /\ \A i, j \in DOMAIN Track(S) : i < j => Precedes(Track(S)[i], Track(S)[j])
  BY TrackAssumption
<1>2. Track(S) \in Seq(Samples)
  BY <1>1, SeqMonotonic
<1>3. DOMAIN Track(S) = 1 .. Len(Track(S))
  BY <1>1
<1>. QED BY <1>1, <1>2, <1>3 DEF Listed

LEMMA ChainIsTraversable ==
  ASSUME NEW q, Listed(q), Linked(q), Len(q) >= 2
  PROVE  Traversable(ToSet(q))
<1>1. ToSet(q) \in SUBSET Samples
  BY ElementOfSeq DEF Listed, ToSet
<1>2. Track(ToSet(q)) = q
  BY <1>1, TrackIsListed, ListingIsUnique
<1>. QED BY <1>2 DEF Traversable, Linked

\* What a finished pass over a set of samples is.
LEMMA CleanIsSound ==
  ASSUME NEW S \in SUBSET Samples
  PROVE  Sound(Track(S), Len(Track(S)), Clean(S))
<1>. DEFINE t == Track(S)
            pass == Scanned(t)[Len(t)]
<1>1. Listed(t) /\ Len(t) \in Nat
  BY TrackIsListed DEF Listed
<1>2. Sound(t, Len(t), pass)
  BY <1>1, ScannedIsSound
<1>3. Clean(S) = Flush(pass)
  BY DEF Clean
<1>. HIDE DEF pass
<1>4. pass \in Passes
  BY <1>2 DEF Sound
<1>5. /\ Flush(pass) \in Passes
      /\ Flush(pass).segments = pass.segments \cup
           (IF Len(pass.current) >= 2 THEN {ToSet(pass.current)} ELSE {})
      /\ Flush(pass).rejected = pass.rejected
      /\ Flush(pass).current = <<>>
  BY <1>4, FlushParts
<1>6. Listed(<<>>) /\ Linked(<<>>) /\ ToSet(<<>>) = {}
  BY EmptySeq DEF Listed, Linked, ToSet
<1>7. ASSUME NEW g \in Flush(pass).segments
      PROVE  g \subseteq Taken(t, Len(t)) /\ \E q : Listed(q) /\ Linked(q) /\ Len(q) >= 2 /\ g = ToSet(q)
  <2>1. CASE g \in pass.segments
    BY <1>2, <2>1 DEF Sound
  <2>2. CASE g = ToSet(pass.current) /\ Len(pass.current) >= 2
    BY <1>2, <2>2 DEF Sound
  <2>. QED BY <1>5, <2>1, <2>2
<1>. HIDE DEF t
<1>8. Sound(t, Len(t), Flush(pass))
  BY <1>2, <1>5, <1>6, <1>7 DEF Sound
<1>. QED BY <1>3, <1>8 DEF t

LEMMA TakenIsAll ==
  ASSUME NEW t, Listed(t)
  PROVE  Taken(t, Len(t)) = ToSet(t)
BY DEF Taken, ToSet, Listed

\* The cleaner draws no line across a gap, to an impossible place or within the
\* noise, whatever it is given.
THEOREM CleanedIsTraversable ==
  ASSUME NEW S \in SUBSET Samples, NEW g \in Clean(S).segments
  PROVE  Traversable(g)
BY CleanIsSound, ChainIsTraversable DEF Sound

\* A sample that is skipped changes nothing but the rejected ones.
LEMMA ScanRejects ==
  ASSUME NEW pass \in Passes, NEW s \in Samples
  PROVE  /\ Scan[pass][s].rejected = pass.rejected \cup (IF Skips(pass, s) THEN {s} ELSE {})
         /\ Skips(pass, s) => /\ Scan[pass][s].segments = pass.segments
                              /\ Scan[pass][s].current = pass.current
<1>1. CASE Skips(pass, s)
  BY <1>1, ScanCases, RejectParts
<1>2. CASE ~Skips(pass, s)
  <2>1. Scan[pass][s] = Extend(Flush(pass), s) \/ Scan[pass][s] = Extend(pass, s)
    BY <1>2, ScanCases
  <2>2. /\ Extend(pass, s).rejected = pass.rejected
        /\ Extend(Flush(pass), s).rejected = pass.rejected
    BY ExtendParts, FlushParts
  <2>. QED BY <1>2, <2>1, <2>2
<1>. QED BY <1>1, <1>2

\* Two passes with the same segments go on with the same segments.
LEMMA ScanAgrees ==
  ASSUME NEW one \in Passes, NEW other \in Passes, NEW s \in Samples,
         one.segments = other.segments, one.current = other.current, ~Skips(one, s)
  PROVE  /\ Scan[one][s].segments = Scan[other][s].segments
         /\ Scan[one][s].current = Scan[other][s].current
<1>1. ~Skips(other, s)
  BY DEF Skips
<1>2. CASE one.current # <<>> /\ Delta(Last(one.current), s) > segmentGap
  <2>1. Scan[one][s] = Extend(Flush(one), s) /\ Scan[other][s] = Extend(Flush(other), s)
    BY <1>1, <1>2, ScanCases
  <2>2. /\ Flush(one) \in Passes /\ Flush(other) \in Passes
        /\ Flush(one).segments = Flush(other).segments
        /\ Flush(one).current = <<>> /\ Flush(other).current = <<>>
    BY FlushParts
  <2>3. /\ Extend(Flush(one), s).segments = Flush(one).segments
        /\ Extend(Flush(one), s).current = Append(<<>>, s)
        /\ Extend(Flush(other), s).segments = Flush(other).segments
        /\ Extend(Flush(other), s).current = Append(<<>>, s)
    BY <2>2, ExtendParts, Zenon
  <2>. QED BY <2>1, <2>2, <2>3
<1>3. CASE ~(one.current # <<>> /\ Delta(Last(one.current), s) > segmentGap)
  <2>1. Scan[one][s] = Extend(one, s) /\ Scan[other][s] = Extend(other, s)
    BY <1>1, <1>3, ScanCases
  <2>2. /\ Extend(one, s).segments = one.segments
        /\ Extend(one, s).current = Append(one.current, s)
        /\ Extend(other, s).segments = other.segments
        /\ Extend(other, s).current = Append(other.current, s)
    BY ExtendParts, Zenon
  <2>. QED BY <2>1, <2>2
<1>. QED BY <1>2, <1>3

\* A sample is judged once: what comes later does not change it.
LEMMA RejectedStays ==
  ASSUME NEW t, Listed(t), NEW k \in 0 .. Len(t)
  PROVE  \A n \in k .. Len(t) : Scanned(t)[n].rejected \cap Taken(t, k) = Scanned(t)[k].rejected
<1>. DEFINE T == {n \in 0 .. Len(t) :
                   n >= k => Scanned(t)[n].rejected \cap Taken(t, k) = Scanned(t)[k].rejected}
<1>1. t \in Seq(Samples) /\ Len(t) \in Nat
  BY DEF Listed
<1>2. Scanned(t)[k].rejected \subseteq Taken(t, k)
  BY ScannedIsSound DEF Sound
<1>3. 0 \in T
  BY <1>1, <1>2
<1>4. ASSUME NEW n \in Nat, n < Len(t), n \in T PROVE n + 1 \in T
  <2>. DEFINE pass == Scanned(t)[n]
              s == t[n + 1]
  <2>1. n + 1 \in 1 .. Len(t) /\ (n + 1) - 1 = n /\ n \in 0 .. Len(t) /\ n + 1 \in 0 .. Len(t)
    BY <1>1, <1>4
  <2>2. CASE n + 1 <= k
    <3>1. n + 1 >= k => n + 1 = k
      BY <2>1, <2>2
    <3>. QED BY <1>2, <2>1, <3>1
  <2>3. CASE n >= k
    <3>1. s \in Samples
      BY <1>1, <2>1
    <3>2. s \notin Taken(t, k)
      <4>. SUFFICES ASSUME s \in Taken(t, k) PROVE FALSE
        OBVIOUS
      <4>1. PICK i \in 1 .. k : s = t[i]
        BY DEF Taken
      <4>2. Precedes(t[i], t[n + 1])
        BY <1>1, <2>1, <2>3 DEF Listed
      <4>. QED BY <3>1, <4>1, <4>2, PrecedesIsStrict
    <3>3. pass \in Passes
      BY <2>1, ScannedIsSound DEF Sound
    <3>4. Scanned(t)[n + 1] = Scan[pass][s]
      BY <1>1, <2>1, ScannedIs
    <3>. HIDE DEF pass, s
    <3>5. Scanned(t)[n + 1].rejected \cap Taken(t, k) = pass.rejected \cap Taken(t, k)
      BY <3>1, <3>2, <3>3, <3>4, ScanRejects
    <3>6. pass.rejected \cap Taken(t, k) = Scanned(t)[k].rejected
      BY <1>4, <2>3 DEF pass
    <3>. QED BY <2>1, <3>5, <3>6
  <2>. QED BY <1>4, <2>2, <2>3
<1>. HIDE DEF T
<1>5. 0 .. Len(t) \subseteq T
  BY <1>1, <1>3, <1>4, IntervalInduction
<1>. QED BY <1>5 DEF T

\* The pass over a track without some of its rejected samples: where it stands
\* when the pass over all of them has taken n.
Follows(t, u, R, n) ==
  \E m \in 0 .. Len(u) :
    /\ Taken(u, m) = Taken(t, n) \ R
    /\ Scanned(u)[m].segments = Scanned(t)[n].segments
    /\ Scanned(u)[m].current = Scanned(t)[n].current

\* The next sample of a track that keeps the order of another.
LEMMA NextKept ==
  ASSUME NEW t, NEW u, Listed(t), Listed(u), NEW R,
         ToSet(u) = ToSet(t) \ R,
         NEW n \in 0 .. Len(t) - 1, NEW m \in 0 .. Len(u),
         Taken(u, m) = Taken(t, n) \ R, t[n + 1] \notin R
  PROVE  m + 1 \in 1 .. Len(u) /\ u[m + 1] = t[n + 1]
<1>1. /\ t \in Seq(Samples) /\ u \in Seq(Samples) /\ Len(t) \in Nat /\ Len(u) \in Nat
      /\ DOMAIN t = 1 .. Len(t) /\ DOMAIN u = 1 .. Len(u)
  BY DEF Listed
<1>2. n + 1 \in 1 .. Len(t) /\ t[n + 1] \in Samples
  BY <1>1
<1>3. PICK k \in 1 .. Len(u) : u[k] = t[n + 1]
  BY <1>1, <1>2 DEF ToSet
<1>4. k > m
  <2>. SUFFICES ASSUME k \in 1 .. m PROVE FALSE
    BY <1>1, <1>3
  <2>1. t[n + 1] \in Taken(t, n)
    BY <1>3 DEF Taken
  <2>2. PICK i \in 1 .. n : t[i] = t[n + 1]
    BY <2>1 DEF Taken
  <2>3. Precedes(t[i], t[n + 1])
    BY <1>1, <1>2, <2>2 DEF Listed
  <2>. QED BY <1>2, <2>2, <2>3, PrecedesIsStrict
<1>5. m + 1 \in 1 .. Len(u)
  BY <1>1, <1>3, <1>4
<1>6. k = m + 1
  <2>. SUFFICES ASSUME m + 1 < k PROVE FALSE
    BY <1>1, <1>3, <1>4
  <2>1. Precedes(u[m + 1], t[n + 1]) /\ u[m + 1] \in Samples
    BY <1>1, <1>3, <1>5 DEF Listed
  <2>2. PICK l \in 1 .. Len(t) : u[m + 1] = t[l]
    BY <1>1, <1>5 DEF ToSet
  <2>3. l < n + 1
    <3>1. ASSUME l > n + 1 PROVE FALSE
      <4>1. Precedes(t[n + 1], t[l])
        BY <1>1, <1>2, <2>2, <3>1 DEF Listed
      <4>. QED BY <1>2, <2>1, <2>2, <4>1, PrecedesIsStrict
    <3>2. l # n + 1
      BY <1>2, <2>1, <2>2, PrecedesIsStrict
    <3>. QED BY <1>1, <1>2, <2>2, <3>1, <3>2
  <2>4. u[m + 1] \notin R
    BY <1>1, <1>5 DEF ToSet
  <2>5. u[m + 1] \in Taken(u, m)
    BY <1>1, <2>2, <2>3, <2>4 DEF Taken
  <2>6. PICK i \in 1 .. m : u[i] = u[m + 1]
    BY <2>5 DEF Taken
  <2>7. Precedes(u[i], u[m + 1])
    BY <1>1, <1>5, <2>6 DEF Listed
  <2>. QED BY <2>1, <2>6, <2>7, PrecedesIsStrict
<1>. QED BY <1>3, <1>5, <1>6

\* One more sample of the whole track.
LEMMA FollowsOn ==
  ASSUME NEW t, NEW u, Listed(t), Listed(u), NEW R,
         R = Scanned(t)[Len(t)].rejected, ToSet(u) = ToSet(t) \ R,
         NEW n \in 0 .. Len(t) - 1, Follows(t, u, R, n)
  PROVE  Follows(t, u, R, n + 1)
<1>. DEFINE s == t[n + 1]
            pass == Scanned(t)[n]
<1>1. /\ t \in Seq(Samples) /\ u \in Seq(Samples) /\ Len(t) \in Nat /\ Len(u) \in Nat
      /\ n + 1 \in 1 .. Len(t) /\ n \in 0 .. Len(t) /\ n + 1 \in 0 .. Len(t) /\ (n + 1) - 1 = n
      /\ n + 1 \in n + 1 .. Len(t) /\ Len(t) \in n + 1 .. Len(t)
  BY DEF Listed
<1>2. PICK m \in 0 .. Len(u) :
        /\ Taken(u, m) = Taken(t, n) \ R
        /\ Scanned(u)[m].segments = pass.segments
        /\ Scanned(u)[m].current = pass.current
  BY DEF Follows
<1>3. s \in Samples /\ pass \in Passes /\ Scanned(u)[m] \in Passes
  BY <1>1, ScannedIsSound DEF Sound
<1>4. Scanned(t)[n + 1] = Scan[pass][s]
  BY <1>1, ScannedIs
<1>5. Taken(t, n + 1) = Taken(t, n) \cup {s}
  BY <1>1 DEF Taken
<1>6. R \cap Taken(t, n + 1) = Scanned(t)[n + 1].rejected
  BY <1>1, RejectedStays
<1>7. s \notin pass.rejected
  <2>1. pass.rejected \subseteq Taken(t, n)
    BY <1>1, ScannedIsSound DEF Sound
  <2>2. ASSUME s \in Taken(t, n) PROVE FALSE
    <3>1. PICK i \in 1 .. n : t[i] = t[n + 1]
      BY <2>2 DEF Taken
    <3>2. Precedes(t[i], t[n + 1])
      BY <1>1, <3>1 DEF Listed
    <3>. QED BY <1>3, <3>1, <3>2, PrecedesIsStrict
  <2>. QED BY <2>1, <2>2
<1>. HIDE DEF pass
<1>8. s \in R <=> Skips(pass, s)
  <2>1. s \in R <=> s \in Scan[pass][s].rejected
    BY <1>4, <1>5, <1>6
  <2>2. Scan[pass][s].rejected = pass.rejected \cup (IF Skips(pass, s) THEN {s} ELSE {})
    BY <1>3, ScanRejects
  <2>. QED BY <1>7, <2>1, <2>2
<1>9. CASE s \in R
  <2>1. /\ Scanned(t)[n + 1].segments = pass.segments
        /\ Scanned(t)[n + 1].current = pass.current
    BY <1>3, <1>4, <1>8, <1>9, ScanRejects
  <2>2. Taken(u, m) = Taken(t, n + 1) \ R
    BY <1>2, <1>5, <1>9
  <2>. QED BY <1>2, <2>1, <2>2 DEF Follows
<1>10. CASE s \notin R
  <2>1. m + 1 \in 1 .. Len(u) /\ u[m + 1] = s
    BY <1>2, <1>10, NextKept
  <2>2. m + 1 \in 0 .. Len(u) /\ (m + 1) - 1 = m
    BY <1>1, <2>1
  <2>3. Scanned(u)[m + 1] = Scan[Scanned(u)[m]][s]
    BY <1>1, <2>1, <2>2, ScannedIs
  <2>4. /\ Scanned(u)[m + 1].segments = Scanned(t)[n + 1].segments
        /\ Scanned(u)[m + 1].current = Scanned(t)[n + 1].current
    BY <1>2, <1>3, <1>4, <1>8, <1>10, <2>3, ScanAgrees
  <2>5. Taken(u, m + 1) = Taken(u, m) \cup {u[m + 1]}
    BY <1>1, <2>1 DEF Taken
  <2>6. Taken(u, m + 1) = Taken(t, n + 1) \ R
    BY <1>2, <1>5, <1>10, <2>1, <2>5
  <2>. QED BY <2>2, <2>4, <2>6 DEF Follows
<1>. QED BY <1>9, <1>10

\* What was rejected never mattered: without it the track has the same segments.
LEMMA CleanAgain ==
  ASSUME NEW S \in SUBSET Samples
  PROVE  /\ Clean(S).rejected \subseteq S
         /\ Clean(S).segments \subseteq (SUBSET S) \ {{}}
         /\ Clean(S \ Clean(S).rejected).segments = Clean(S).segments
<1>. DEFINE t == Track(S)
            R == Clean(S).rejected
            u == Track(S \ R)
            whole == Scanned(t)[Len(t)]
<1>1. S \ R \in SUBSET Samples
  OBVIOUS
<1>2. /\ Listed(t) /\ ToSet(t) = S /\ Len(t) \in Nat
      /\ Listed(u) /\ ToSet(u) = S \ R /\ Len(u) \in Nat
  BY <1>1, TrackIsListed DEF Listed
<1>3. Taken(t, Len(t)) = S
  BY <1>2, TakenIsAll
<1>4. R \subseteq S
  BY <1>3, CleanIsSound DEF Sound
<1>5. ASSUME NEW g \in Clean(S).segments PROVE g \in (SUBSET S) \ {{}}
  <2>1. g \subseteq S
    BY <1>3, CleanIsSound DEF Sound
  <2>2. PICK q : Listed(q) /\ Len(q) >= 2 /\ g = ToSet(q)
    BY CleanIsSound DEF Sound
  <2>3. q[1] \in g
    BY <2>2 DEF ToSet, Listed
  <2>. QED BY <2>1, <2>3
<1>6. whole \in Passes /\ Clean(S) = Flush(whole)
  BY <1>2, ScannedIsSound DEF Sound, Clean
<1>. HIDE DEF whole
<1>7. R = whole.rejected
  BY <1>6, FlushParts
<1>. DEFINE T == {n \in 0 .. Len(t) : Follows(t, u, R, n)}
<1>. HIDE DEF R, u, t
<1>8. 0 \in T
  <2>1. Scanned(u)[0] = Empty /\ Scanned(t)[0] = Empty
    BY <1>2, ScannedIs
  <2>2. Taken(u, 0) = {} /\ Taken(t, 0) = {}
    BY DEF Taken
  <2>3. Follows(t, u, R, 0)
    BY <1>2, <2>1, <2>2 DEF Follows
  <2>. QED BY <1>2, <2>3
<1>9. ASSUME NEW n \in Nat, n < Len(t), n \in T PROVE n + 1 \in T
  <2>1. n \in 0 .. Len(t) - 1 /\ n + 1 \in 0 .. Len(t)
    BY <1>2, <1>9
  <2>2. Follows(t, u, R, n + 1)
    BY <1>2, <1>7, <1>9, <2>1, FollowsOn DEF whole
  <2>. QED BY <2>1, <2>2
<1>. HIDE DEF T
<1>10. 0 .. Len(t) \subseteq T
  BY <1>2, <1>8, <1>9, IntervalInduction
<1>11. Follows(t, u, R, Len(t))
  BY <1>2, <1>10 DEF T
<1>12. PICK m \in 0 .. Len(u) :
         /\ Taken(u, m) = S \ R
         /\ Scanned(u)[m].segments = whole.segments
         /\ Scanned(u)[m].current = whole.current
  BY <1>3, <1>11 DEF Follows, whole
<1>13. m = Len(u)
  <2>. SUFFICES ASSUME m < Len(u) PROVE FALSE
    BY <1>2, <1>12
  <2>1. m + 1 \in 1 .. Len(u) /\ u \in Seq(Samples)
    BY <1>2, <1>12 DEF Listed
  <2>2. u[m + 1] \in Taken(u, m)
    BY <1>2, <1>12, <2>1 DEF ToSet
  <2>3. PICK i \in 1 .. m : u[i] = u[m + 1]
    BY <2>2 DEF Taken
  <2>4. Precedes(u[i], u[m + 1]) /\ u[m + 1] \in Samples
    BY <1>2, <1>12, <2>1, <2>3 DEF Listed
  <2>. QED BY <2>3, <2>4, PrecedesIsStrict
<1>14. Scanned(u)[Len(u)] \in Passes
  BY <1>2, ScannedIsSound DEF Sound
<1>15. Flush(Scanned(u)[Len(u)]).segments = Flush(whole).segments
  BY <1>6, <1>12, <1>13, <1>14, FlushParts
<1>16. Clean(S \ R) = Flush(Scanned(u)[Len(u)])
  BY DEF Clean, u
<1>. QED BY <1>4, <1>5, <1>6, <1>15, <1>16 DEF R
-----------------------------------------------------------------------------

\* Segments have points, and a sample that is rejected takes none away.
LEMMA SameRoute ==
  ASSUME NEW S \in SUBSET Samples
  PROVE  /\ Rejects(S) \subseteq S
         /\ Segments(S) \subseteq (SUBSET S) \ {{}}
         /\ Segments(S \ Rejects(S)) = Segments(S)
BY CleanAgain DEF Rejects, Segments

Handler == [step : {"idle", "processing", "processed", "matching"}, job : Samples \cup {NoSample},
            read : SUBSET Samples, kept : SUBSET Samples, todo : SUBSET SegmentRows]

\* What a handler read is stored, and processed when it has committed.
ReadIsStored ==
  \A w \in Workers :
    /\ worker[w].read \subseteq samples /\ worker[w].kept \subseteq samples
    /\ worker[w].step = "processed" => worker[w].read \subseteq processed

At(w, s) == worker[w].step \in {"processing", "processed"} /\ worker[w].job = s

\* A row of a batch with s is there, and whoever is at it has read s.
Tended(s) ==
  \E b \in Batches :
    /\ s \in b /\ processJob[LastOf(b)] # "none"
    /\ \A w \in Workers : At(w, LastOf(b)) => s \in worker[w].read

WaitingIsTended == \A s \in samples \ (processed \cup absorbed) : Tended(s)

Base == TypeOK /\ ReadIsStored

\* Every row of the route comes from the last run, with points of its own.
OneRun ==
  /\ \A g \in segments : g.route = routes
  /\ \A g, h \in segments : g.points = h.points => g = h

RouteOf(S) == {g.points : g \in S}

RowOtherThan(w) == \E s \in Samples : processJob[s] # "none" /\ s # worker[w].job

OneAtWork == \A v, w \in Workers : v = w \/ worker[v] = Idle \/ worker[w] = Idle

\* Some sample was absorbed and is not among these.
Lacks(S) == ~(absorbed \subseteq S)

\* Until two workers meet, the route shows what is accepted or a row is left
\* that will see to it, the row about to be deleted not counted, or what it
\* lacks was absorbed.
Current ==
  /\ RouteOf(segments) = Segments(accepted) \/ ~Drained \/ Lacks(processed)
  /\ \A w \in Workers :
       /\ worker[w].step = "processing" =>
            worker[w].kept = accepted \/ RowOtherThan(w) \/ Lacks(processed \cup worker[w].read)
       /\ worker[w].step = "processed" =>
            RouteOf(segments) = Segments(accepted) \/ RowOtherThan(w) \/ Lacks(processed)

\* Until two workers meet, what is not matched is listed by the matcher.
Matched ==
  /\ UnmatchedHasJob
  /\ \A w \in Workers : worker[w].step = "matching" =>
       \A g \in segments : ~g.matched => g \in worker[w].todo

Alone == ~overlapped => OneAtWork /\ Current /\ Matched

IInv == Base /\ WaitingIsTended /\ OneRun /\ RouteIsTraversable /\ Alone
-----------------------------------------------------------------------------

LEMMA InitIInv == Init => IInv
<1>. SUFFICES ASSUME Init PROVE IInv
  OBVIOUS
<1>. USE DEF Init
<1>1. TypeOK
  BY DEF TypeOK, Idle, JobStates
<1>2. ReadIsStored /\ WaitingIsTended /\ OneRun /\ RouteIsTraversable
  BY DEF ReadIsStored, WaitingIsTended, OneRun, RouteIsTraversable, Idle
<1>3. Segments({}) = {}
  <2>1. Segments({}) \subseteq (SUBSET {}) \ {{}}
    BY SameRoute
  <2>. QED BY <2>1
<1>4. OneAtWork /\ Current /\ Matched
  BY <1>3 DEF OneAtWork, Current, Matched, UnmatchedHasJob, RouteOf, Idle
<1>. QED BY <1>1, <1>2, <1>4 DEF IInv, Base, Alone

\* The states of rows and handlers stay what they are.
LEMMA TypeStep == Base /\ [Next]_vars => TypeOK'
<1>. SUFFICES ASSUME Base, [Next]_vars PROVE TypeOK'
  OBVIOUS
<1>0. /\ TypeOK /\ ReadIsStored
      /\ worker \in [Workers -> Handler]
      /\ Idle \in Handler
  BY DEF Base, TypeOK, Handler, Idle
<1>1. ASSUME NEW b \in Batches, Ingest(b) PROVE TypeOK'
  BY <1>0, <1>1, BatchAssumption DEF TypeOK, Ingest, InsertLocationSamples, Enqueued, JobStates
<1>2. CASE EndJourney
  BY <1>0, <1>2 DEF TypeOK, EndJourney
<1>3. ASSUME NEW w \in Workers, NEW s \in Samples, ProcessReads(w, s) PROVE TypeOK'
  <2>1. ListLocationSamplesForProcessing(s) \in Handler
    BY <1>0 DEF ListLocationSamplesForProcessing, TypeOK, Handler, Idle
  <2>2. worker' \in [Workers -> Handler]
    BY <1>0, <1>3, <2>1 DEF ProcessReads
  <2>3. processJob' \in [Samples -> JobStates] /\ overlapped' \in BOOLEAN
    BY <1>0, <1>3 DEF ProcessReads, TypeOK, Takes, JobStates
  <2>. QED BY <1>0, <1>3, <2>2, <2>3 DEF TypeOK, ProcessReads, Handler
<1>4. ASSUME NEW w \in Workers, ProcessCommits(w) PROVE TypeOK'
  <2>1. worker' \in [Workers -> Handler]
    BY <1>0, <1>4 DEF ProcessCommits, Handler
  <2>2. worker[w].kept \in SUBSET Samples /\ worker[w].kept \subseteq samples
        /\ worker[w].read \subseteq samples
    BY <1>0 DEF ReadIsStored, Handler
  <2>3. segments' \subseteq SegmentRows /\ routes' \in Nat
    <3>1. routes \in Nat /\ routes' = routes + 1
      BY <1>0, <1>4 DEF TypeOK, ProcessCommits
    <3>2. segments' = {CreateRouteSegment(p) : p \in Segments(worker[w].kept)}
      BY <1>4 DEF ProcessCommits, DeleteRouteSegments
    <3>3. Segments(worker[w].kept) \subseteq SUBSET Samples
      BY <2>2, SameRoute
    <3>4. \A p \in SUBSET Samples : CreateRouteSegment(p) \in SegmentRows
      BY <3>1 DEF CreateRouteSegment, SegmentRows
    <3>. QED BY <3>1, <3>2, <3>3, <3>4
  <2>4. accepted' \subseteq samples' /\ processed' \subseteq samples' /\ matchJob' \in JobStates
    BY <1>0, <1>4, <2>2 DEF ProcessCommits, TypeOK, UpdateLocationSampleQuality, EnqueueMatch,
                            Enqueued, JobStates
  <2>. QED BY <1>0, <1>4, <2>1, <2>3, <2>4 DEF TypeOK, ProcessCommits, Handler
<1>5. ASSUME NEW w \in Workers, MatchLists(w) PROVE TypeOK'
  <2>1. [Idle EXCEPT !.step = "matching", !.todo = ListRouteSegmentsForMatching] \in Handler
    BY <1>0 DEF ListRouteSegmentsForMatching, TypeOK, Handler, Idle
  <2>2. worker' \in [Workers -> Handler]
    BY <1>0, <1>5, <2>1 DEF MatchLists
  <2>3. matchJob' \in JobStates /\ overlapped' \in BOOLEAN
    BY <1>0, <1>5 DEF MatchLists, TypeOK, Takes, JobStates
  <2>. QED BY <1>0, <1>5, <2>2, <2>3 DEF TypeOK, MatchLists, Handler
<1>6. ASSUME NEW w \in Workers, MatchNext(w) PROVE TypeOK'
  <2>1. worker' \in [Workers -> Handler]
    BY <1>0, <1>6 DEF MatchNext, Handler
  <2>2. segments' \subseteq SegmentRows
    <3>1. PICK g : segments' = UpdateMatchedRouteSegment(g)
      BY <1>6 DEF MatchNext
    <3>2. \A h \in SegmentRows : [h EXCEPT !.matched = TRUE] \in SegmentRows
      BY DEF SegmentRows
    <3>. QED BY <1>0, <3>1, <3>2 DEF UpdateMatchedRouteSegment, TypeOK
  <2>. QED BY <1>0, <1>6, <2>1, <2>2 DEF TypeOK, MatchNext, Handler
<1>7. ASSUME NEW w \in Workers, Complete(w) PROVE TypeOK'
  <2>1. worker' \in [Workers -> Handler]
    BY <1>0, <1>7 DEF Complete
  <2>2. processJob' \in [Samples -> JobStates] /\ matchJob' \in JobStates
    BY <1>0, <1>7 DEF Complete, TypeOK, Completed, JobStates
  <2>. QED BY <1>0, <1>7, <2>1, <2>2 DEF TypeOK, Complete, Handler
<1>8. ASSUME NEW w \in Workers, Fails(w) PROVE TypeOK'
  <2>1. worker' \in [Workers -> Handler] /\ faults' \in Nat
    BY <1>0, <1>8 DEF Fails, TypeOK
  <2>2. processJob' \in [Samples -> JobStates] /\ matchJob' \in JobStates
    BY <1>0, <1>8 DEF Fails, TypeOK, Retried, JobStates
  <2>. QED BY <1>0, <1>8, <2>1, <2>2 DEF TypeOK, Fails, Handler
<1>9. CASE RequeueStale
  BY <1>0, <1>9 DEF RequeueStale, TypeOK, JobStates
<1>10. CASE UNCHANGED vars
  BY <1>0, <1>10 DEF vars, TypeOK
<1>. QED BY <1>1, <1>2, <1>3, <1>4, <1>5, <1>6, <1>7, <1>8, <1>9, <1>10 DEF Next, WorkerStep

\* Samples stay, and so does what is processed.
LEMMA Growth == Base /\ [Next]_vars => samples \subseteq samples' /\ processed \subseteq processed'
  BY DEF Next, WorkerStep, vars, Ingest, EndJourney, ProcessReads, ProcessCommits, MatchLists,
         MatchNext, Complete, Fails, RequeueStale

LEMMA ReadStep == Base /\ [Next]_vars => ReadIsStored'
<1>. SUFFICES ASSUME Base, [Next]_vars, NEW v \in Workers
              PROVE  /\ worker'[v].read \subseteq samples' /\ worker'[v].kept \subseteq samples'
                     /\ worker'[v].step = "processed" => worker'[v].read \subseteq processed'
  BY DEF ReadIsStored
<1>. DEFINE Goal == /\ worker'[v].read \subseteq samples' /\ worker'[v].kept \subseteq samples'
                    /\ worker'[v].step = "processed" => worker'[v].read \subseteq processed'
<1>0. /\ worker[v].read \subseteq samples /\ worker[v].kept \subseteq samples
      /\ worker[v].step = "processed" => worker[v].read \subseteq processed
      /\ accepted \subseteq samples /\ worker \in [Workers -> Handler]
      /\ Idle.read = {} /\ Idle.kept = {} /\ Idle.step = "idle"
      /\ samples \subseteq samples' /\ processed \subseteq processed'
  BY Growth DEF Base, ReadIsStored, TypeOK, Handler, Idle
<1>1. CASE worker'[v] = worker[v]
  BY <1>0, <1>1
<1>2. CASE worker' = worker
  BY <1>1, <1>2
<1>3. ASSUME NEW w \in Workers, NEW s \in Samples, ProcessReads(w, s) PROVE Goal
  BY <1>0, <1>3 DEF ProcessReads, ListLocationSamplesForProcessing, Idle
<1>4. ASSUME NEW w \in Workers, ProcessCommits(w) PROVE Goal
  BY <1>0, <1>4 DEF ProcessCommits, Handler
<1>5. ASSUME NEW w \in Workers, MatchNext(w) PROVE Goal
  BY <1>0, <1>5 DEF MatchNext, Handler
<1>6. ASSUME NEW w \in Workers, MatchLists(w) \/ Complete(w) \/ Fails(w) PROVE Goal
  BY <1>0, <1>6 DEF MatchLists, Complete, Fails, Idle
<1>. QED BY <1>2, <1>3, <1>4, <1>5, <1>6 DEF Next, WorkerStep, vars, Ingest, EndJourney, RequeueStale

\* A batch that finds no handler at its row leaves all its samples tended, and
\* a row is deleted by a handler that has processed what it read.
LEMMA WorkStep == Base /\ WaitingIsTended /\ [Next]_vars => WaitingIsTended'
<1>. SUFFICES ASSUME Base, WaitingIsTended, [Next]_vars PROVE WaitingIsTended'
  OBVIOUS
<1>0. /\ TypeOK /\ ReadIsStored /\ worker \in [Workers -> Handler]
      /\ samples \subseteq samples' /\ processed \subseteq processed'
      /\ \A b \in Batches : LastOf(b) \in Samples
      /\ Idle.step = "idle"
  BY Growth, BatchAssumption DEF Base, TypeOK, Handler, Idle
<1>a. ASSUME samples' = samples, absorbed' = absorbed,
             \A x \in Samples : processJob[x] # "none" => processJob'[x] # "none",
             \A v \in Workers, x \in Samples :
               At(v, x)' => samples \subseteq worker'[v].read
                            \/ (At(v, x) /\ worker'[v].read = worker[v].read)
      PROVE  WaitingIsTended'
  <2>. SUFFICES ASSUME NEW s \in samples, s \notin processed \cup absorbed PROVE Tended(s)'
    BY <1>0, <1>a DEF WaitingIsTended
  <2>1. PICK b \in Batches : /\ s \in b /\ processJob[LastOf(b)] # "none"
                             /\ \A v \in Workers : At(v, LastOf(b)) => s \in worker[v].read
    BY DEF WaitingIsTended, Tended
  <2>2. \A v \in Workers : At(v, LastOf(b))' => s \in worker'[v].read
    BY <1>0, <1>a, <2>1
  <2>. QED BY <1>0, <1>a, <2>1, <2>2 DEF Tended
<1>b. ASSUME samples' = samples, absorbed' = absorbed,
             \A x \in Samples : processJob[x] # "none" => processJob'[x] # "none",
             \A v \in Workers : worker'[v] = worker[v] \/ worker'[v].step \notin {"processing", "processed"}
      PROVE  WaitingIsTended'
  BY <1>a, <1>b DEF At
<1>1. ASSUME NEW b \in Batches, Ingest(b) PROVE WaitingIsTended'
  <2>1. samples' = samples \cup b /\ processed' = processed /\ worker' = worker
    BY <1>1 DEF Ingest, InsertLocationSamples
  <2>2. /\ processJob'[LastOf(b)] # "none"
        /\ \A x \in Samples : processJob[x] # "none" => processJob'[x] # "none"
    BY <1>0, <1>1 DEF Ingest, TypeOK, Enqueued
  <2>3. \A s : Tended(s) => Tended(s)'
    BY <1>0, <2>1, <2>2 DEF Tended, At
  <2>4. CASE AtJob(LastOf(b))
    <3>1. absorbed' = absorbed \cup (b \ samples)
      BY <1>1, <2>4 DEF Ingest, InsertLocationSamples
    <3>. QED BY <2>1, <2>3, <3>1 DEF WaitingIsTended
  <2>5. CASE ~AtJob(LastOf(b))
    <3>1. absorbed' = absorbed \ b
      BY <1>1, <2>5 DEF Ingest
    <3>2. \A v \in Workers : ~At(v, LastOf(b))'
      BY <2>1, <2>5 DEF AtJob, At
    <3>3. \A s \in b : Tended(s)'
      BY <2>2, <3>2 DEF Tended
    <3>. QED BY <2>1, <2>3, <3>1, <3>3 DEF WaitingIsTended
  <2>. QED BY <2>4, <2>5
<1>2. ASSUME NEW w \in Workers, Complete(w) PROVE WaitingIsTended'
  <2>1. /\ samples' = samples /\ processed' = processed /\ absorbed' = absorbed
        /\ worker' = [worker EXCEPT ![w] = Idle]
    BY <1>2 DEF Complete
  <2>2. \A x \in Samples : processJob[x] # "none" /\ processJob'[x] = "none" =>
          worker[w].step = "processed" /\ x = worker[w].job
    BY <1>0, <1>2 DEF Complete, Completed, TypeOK
  <2>. SUFFICES ASSUME NEW s \in samples, s \notin processed \cup absorbed PROVE Tended(s)'
    BY <2>1 DEF WaitingIsTended
  <2>3. PICK b \in Batches : /\ s \in b /\ processJob[LastOf(b)] # "none"
                             /\ \A v \in Workers : At(v, LastOf(b)) => s \in worker[v].read
    BY DEF WaitingIsTended, Tended
  <2>4. processJob'[LastOf(b)] # "none"
    BY <1>0, <2>2, <2>3 DEF At, ReadIsStored
  <2>5. \A v \in Workers : At(v, LastOf(b))' => At(v, LastOf(b)) /\ worker'[v] = worker[v]
    BY <1>0, <2>1 DEF At
  <2>. QED BY <2>3, <2>4, <2>5 DEF Tended
<1>3. ASSUME NEW w \in Workers, Fails(w) PROVE WaitingIsTended'
  <2>1. \A x \in Samples : processJob[x] # "none" => processJob'[x] # "none"
    BY <1>0, <1>3 DEF Fails, Retried, TypeOK
  <2>2. \A v \in Workers : worker'[v] = worker[v] \/ worker'[v].step = "idle"
    BY <1>0, <1>3 DEF Fails
  <2>. QED BY <1>3, <1>b, <2>1, <2>2 DEF Fails
<1>4. ASSUME NEW w \in Workers, NEW s \in Samples, ProcessReads(w, s) PROVE WaitingIsTended'
  <2>1. \A x \in Samples : processJob[x] # "none" => processJob'[x] # "none"
    BY <1>0, <1>4 DEF ProcessReads, TypeOK
  <2>2. worker'[w].read = samples /\ \A v \in Workers : v # w => worker'[v] = worker[v]
    BY <1>0, <1>4 DEF ProcessReads, ListLocationSamplesForProcessing, Idle
  <2>3. \A v \in Workers, x \in Samples :
          At(v, x)' => samples \subseteq worker'[v].read \/ (At(v, x) /\ worker'[v].read = worker[v].read)
    BY <2>2 DEF At
  <2>. QED BY <1>4, <1>a, <2>1, <2>3 DEF ProcessReads
<1>5. ASSUME NEW w \in Workers, ProcessCommits(w) PROVE WaitingIsTended'
  <2>1. /\ worker[w].step = "processing"
        /\ worker'[w].read = worker[w].read /\ worker'[w].job = worker[w].job
        /\ \A v \in Workers : v # w => worker'[v] = worker[v]
    BY <1>0, <1>5 DEF ProcessCommits, Handler
  <2>2. \A v \in Workers, x \in Samples :
          At(v, x)' => samples \subseteq worker'[v].read \/ (At(v, x) /\ worker'[v].read = worker[v].read)
    BY <2>1 DEF At
  <2>. QED BY <1>5, <1>a, <2>2 DEF ProcessCommits
<1>6. ASSUME NEW w \in Workers, MatchLists(w) \/ MatchNext(w) PROVE WaitingIsTended'
  <2>1. \A v \in Workers : worker'[v] = worker[v] \/ worker'[v].step = "matching"
    BY <1>0, <1>6 DEF MatchLists, MatchNext, Idle, Handler
  <2>. QED BY <1>6, <1>b, <2>1 DEF MatchLists, MatchNext
<1>7. CASE RequeueStale
  <2>1. \A x \in Samples : processJob[x] # "none" => processJob'[x] # "none"
    BY <1>0, <1>7 DEF RequeueStale, TypeOK
  <2>. QED BY <1>7, <1>b, <2>1 DEF RequeueStale
<1>8. CASE EndJourney \/ UNCHANGED vars
  BY <1>8, <1>b DEF EndJourney, vars
<1>. QED BY <1>1, <1>2, <1>3, <1>4, <1>5, <1>6, <1>7, <1>8 DEF Next, WorkerStep

\* Every run takes a number of its own and leaves no earlier row; a matcher
\* changes neither number nor points.
LEMMA OneRunStep == Base /\ OneRun /\ [Next]_vars => OneRun'
<1>. SUFFICES ASSUME Base, OneRun, [Next]_vars PROVE OneRun'
  OBVIOUS
<1>1. ASSUME NEW w \in Workers, ProcessCommits(w) PROVE OneRun'
  <2>1. routes' = routes + 1
    BY <1>1 DEF ProcessCommits
  <2>2. \A g \in segments' : \E p : g = [route |-> routes + 1, points |-> p, matched |-> FALSE]
    BY <1>1 DEF ProcessCommits, DeleteRouteSegments, CreateRouteSegment
  <2>3. \A g \in segments' :
          g.route = routes + 1 /\ g = [route |-> routes + 1, points |-> g.points, matched |-> FALSE]
    BY <2>2
  <2>. QED BY <2>1, <2>3 DEF OneRun
<1>2. ASSUME NEW w \in Workers, MatchNext(w) PROVE OneRun'
  <2>1. PICK g : segments' = UpdateMatchedRouteSegment(g)
    BY <1>2 DEF MatchNext
  <2>2. routes' = routes /\ segments \subseteq SegmentRows
    BY <1>2 DEF MatchNext, Base, TypeOK
  <2>3. \A h \in SegmentRows : /\ [h EXCEPT !.matched = TRUE].route = h.route
                               /\ [h EXCEPT !.matched = TRUE].points = h.points
    BY DEF SegmentRows
  <2>4. \A f \in segments' : \E h \in segments :
          /\ f = IF SameSegment(g, h) THEN [h EXCEPT !.matched = TRUE] ELSE h
          /\ f.route = h.route /\ f.points = h.points
    <3>. DEFINE Updated(h) == IF SameSegment(g, h) THEN [h EXCEPT !.matched = TRUE] ELSE h
    <3>1. segments' = {Updated(h) : h \in segments}
      BY <2>1 DEF UpdateMatchedRouteSegment
    <3>2. \A h \in segments : Updated(h).route = h.route /\ Updated(h).points = h.points
      BY <2>2, <2>3
    <3>3. \A f \in segments' : \E h \in segments : f = Updated(h)
      BY <3>1
    <3>. QED BY <3>2, <3>3
  <2>5. \A f \in segments' : f.route = routes'
    BY <2>2, <2>4 DEF OneRun
  <2>6. ASSUME NEW e \in segments', NEW f \in segments', e.points = f.points PROVE e = f
    <3>1. PICK h \in segments : /\ e = IF SameSegment(g, h) THEN [h EXCEPT !.matched = TRUE] ELSE h
                                /\ e.points = h.points
      BY <2>4
    <3>2. PICK k \in segments : /\ f = IF SameSegment(g, k) THEN [k EXCEPT !.matched = TRUE] ELSE k
                                /\ f.points = k.points
      BY <2>4
    <3>3. h = k
      BY <2>6, <3>1, <3>2 DEF OneRun
    <3>. QED BY <3>1, <3>2, <3>3
  <2>. QED BY <2>5, <2>6 DEF OneRun
<1>3. CASE UNCHANGED <<segments, routes>>
  BY <1>3 DEF OneRun
<1>. QED BY <1>1, <1>2, <1>3 DEF Next, WorkerStep, vars, Ingest, EndJourney, ProcessReads,
            MatchLists, Complete, Fails, RequeueStale

-----------------------------------------------------------------------------

\* A worker takes a job: it is the only one at work or it has met another.
LEMMA TakesAlone ==
  ASSUME NEW w \in Workers, Takes(w), ~overlapped', worker \in [Workers -> Handler],
         NEW r \in Handler, worker' = [worker EXCEPT ![w] = r]
  PROVE  ~overlapped /\ OneAtWork' /\ \A v \in Workers \ {w} : worker'[v] = Idle
  BY DEF Takes, OneAtWork

LEMMA OneAtWorkStep == Base /\ Alone /\ [Next]_vars => (~overlapped' => ~overlapped /\ OneAtWork')
<1>. SUFFICES ASSUME Base, Alone, [Next]_vars, ~overlapped' PROVE ~overlapped /\ OneAtWork'
  OBVIOUS
<1>0. worker \in [Workers -> Handler] /\ Idle.step = "idle" /\ Idle \in Handler
  BY DEF Base, TypeOK, Handler, Idle
<1>1. ASSUME NEW w \in Workers, NEW s \in Samples, ProcessReads(w, s)
      PROVE  ~overlapped /\ OneAtWork'
  <2>1. Takes(w) /\ worker' = [worker EXCEPT ![w] = ListLocationSamplesForProcessing(s)]
    BY <1>1 DEF ProcessReads
  <2>2. ListLocationSamplesForProcessing(s) \in Handler
    BY DEF ListLocationSamplesForProcessing, Base, TypeOK, Handler, Idle
  <2>. QED BY <1>0, <2>1, <2>2, TakesAlone
<1>2. ASSUME NEW w \in Workers, MatchLists(w) PROVE ~overlapped /\ OneAtWork'
  <2>. DEFINE r == [Idle EXCEPT !.step = "matching", !.todo = ListRouteSegmentsForMatching]
  <2>1. Takes(w) /\ worker' = [worker EXCEPT ![w] = r]
    BY <1>2 DEF MatchLists
  <2>2. r \in Handler
    BY DEF ListRouteSegmentsForMatching, Base, TypeOK, Handler, Idle
  <2>. QED BY <1>0, <2>1, <2>2, TakesAlone
<1>3. ASSUME overlapped' = overlapped,
             \A v \in Workers : worker[v] = Idle => worker'[v] = Idle
      PROVE  ~overlapped /\ OneAtWork'
  BY <1>3 DEF Alone, OneAtWork
<1>4. ASSUME NEW w \in Workers, ProcessCommits(w) \/ MatchNext(w) \/ Complete(w) \/ Fails(w)
      PROVE  ~overlapped /\ OneAtWork'
  BY <1>0, <1>3, <1>4 DEF ProcessCommits, MatchNext, Complete, Fails
<1>5. CASE overlapped' = overlapped /\ worker' = worker
  BY <1>3, <1>5
<1>. QED BY <1>1, <1>2, <1>4, <1>5 DEF Next, WorkerStep, vars, Ingest, EndJourney, RequeueStale

\* What is not matched is listed, or the row that will list it is there.
LEMMA MatchedStep == Base /\ Alone /\ [Next]_vars /\ ~overlapped' => Matched'
<1>. SUFFICES ASSUME Base, Alone, [Next]_vars, ~overlapped' PROVE Matched'
  OBVIOUS
<1>0. /\ OneAtWork /\ Matched /\ OneAtWork' /\ ~overlapped
      /\ worker \in [Workers -> Handler] /\ Idle.step = "idle" /\ Idle \in Handler
      /\ segments \subseteq SegmentRows /\ matchJob \in JobStates
  BY OneAtWorkStep DEF Base, TypeOK, Handler, Idle, Alone
<1>1. ASSUME segments' = segments, matchJob # "none" => matchJob' # "none",
             \A v \in Workers : worker'[v] = worker[v] \/ worker'[v].step # "matching"
      PROVE  Matched'
  BY <1>0, <1>1 DEF Matched, UnmatchedHasJob
<1>2. ASSUME NEW w \in Workers, NEW s \in Samples, ProcessReads(w, s) PROVE Matched'
  BY <1>0, <1>1, <1>2 DEF ProcessReads, ListLocationSamplesForProcessing, Idle
<1>3. ASSUME NEW w \in Workers, ProcessCommits(w) PROVE Matched'
  <2>1. matchJob' # "none"
    BY <1>3 DEF ProcessCommits, EnqueueMatch, Enqueued
  <2>2. \A v \in Workers : worker'[v].step # "matching"
    BY <1>0, <1>3 DEF ProcessCommits, OneAtWork, Handler
  <2>. QED BY <2>1, <2>2 DEF Matched, UnmatchedHasJob
<1>4. ASSUME NEW w \in Workers, MatchLists(w) PROVE Matched'
  <2>1. /\ matchJob' = "running" /\ segments' = segments /\ worker'[w].todo = segments
        /\ \A v \in Workers : v # w => worker'[v] = worker[v]
    BY <1>0, <1>4 DEF MatchLists, ListRouteSegmentsForMatching, Idle
  <2>. QED BY <1>0, <2>1 DEF Matched, UnmatchedHasJob
<1>5. ASSUME NEW w \in Workers, MatchNext(w) PROVE Matched'
  <2>1. PICK g \in worker[w].todo :
          /\ segments' = UpdateMatchedRouteSegment(g)
          /\ worker' = [worker EXCEPT ![w].todo = @ \ {g}]
    BY <1>5 DEF MatchNext
  <2>2. matchJob' = matchJob /\ worker[w].step = "matching"
    BY <1>5 DEF MatchNext
  <2>3. \A h \in SegmentRows : [h EXCEPT !.matched = TRUE].matched = TRUE
    BY DEF SegmentRows
  <2>4. \A f \in segments' : ~f.matched => f \in segments /\ f # g
    BY <1>0, <2>1, <2>3 DEF UpdateMatchedRouteSegment, SameSegment
  <2>5. /\ worker'[w].todo = worker[w].todo \ {g}
        /\ \A v \in Workers : v # w => worker'[v] = worker[v]
    BY <1>0, <2>1 DEF Handler
  <2>. QED BY <1>0, <2>2, <2>4, <2>5 DEF Matched, UnmatchedHasJob
<1>6. ASSUME NEW w \in Workers, Complete(w) PROVE Matched'
  <2>1. /\ segments' = segments /\ worker' = [worker EXCEPT ![w] = Idle]
    BY <1>6 DEF Complete
  <2>2. CASE worker[w].step = "matching" /\ worker[w].todo = {}
    BY <1>0, <2>1, <2>2 DEF Matched, UnmatchedHasJob
  <2>3. CASE matchJob' = matchJob
    BY <1>0, <1>1, <2>1, <2>3
  <2>. QED BY <1>6, <2>2, <2>3 DEF Complete
<1>7. ASSUME NEW w \in Workers, Fails(w) PROVE Matched'
  <2>1. segments' = segments /\ worker' = [worker EXCEPT ![w] = Idle]
    BY <1>7 DEF Fails
  <2>2. matchJob # "none" => matchJob' # "none"
    BY <1>7 DEF Fails, Retried
  <2>. QED BY <1>0, <1>1, <2>1, <2>2
<1>8. CASE RequeueStale
  BY <1>0, <1>1, <1>8 DEF RequeueStale
<1>9. CASE EndJourney \/ UNCHANGED vars \/ \E b \in Batches : Ingest(b)
  BY <1>0, <1>1, <1>9 DEF EndJourney, Ingest, vars
<1>. QED BY <1>2, <1>3, <1>4, <1>5, <1>6, <1>7, <1>8, <1>9 DEF Next, WorkerStep

\* A matcher changes no points.
LEMMA SamePoints ==
  ASSUME segments \subseteq SegmentRows, NEW g
  PROVE  RouteOf(UpdateMatchedRouteSegment(g)) = RouteOf(segments)
<1>1. \A h \in SegmentRows : [h EXCEPT !.matched = TRUE].points = h.points
  BY DEF SegmentRows
<1>. DEFINE Updated(h) == IF SameSegment(g, h) THEN [h EXCEPT !.matched = TRUE] ELSE h
<1>2. \A h \in segments : Updated(h).points = h.points
  BY <1>1
<1>3. UpdateMatchedRouteSegment(g) = {Updated(h) : h \in segments}
  BY DEF UpdateMatchedRouteSegment
<1>. HIDE DEF Updated
<1>. QED BY <1>2, <1>3 DEF RouteOf

\* Segments are made by the cleaner, and a matcher changes none of their points.
LEMMA TraversableStep == Base /\ RouteIsTraversable /\ [Next]_vars => RouteIsTraversable'
<1>. SUFFICES ASSUME Base, RouteIsTraversable, [Next]_vars PROVE RouteIsTraversable'
  OBVIOUS
<1>1. ASSUME NEW w \in Workers, ProcessCommits(w) PROVE RouteIsTraversable'
  <2>1. worker[w].kept \in SUBSET Samples
    BY DEF Base, TypeOK
  <2>2. \A g \in segments' : \E p \in Segments(worker[w].kept) : g = CreateRouteSegment(p)
    BY <1>1 DEF ProcessCommits, DeleteRouteSegments
  <2>3. \A g \in segments' : g.points \in Segments(worker[w].kept)
    BY <2>2 DEF CreateRouteSegment
  <2>4. \A p \in Segments(worker[w].kept) : Traversable(p)
    BY <2>1, CleanedIsTraversable DEF Segments
  <2>. QED BY <2>3, <2>4 DEF RouteIsTraversable
<1>2. ASSUME NEW w \in Workers, MatchNext(w) PROVE RouteIsTraversable'
  <2>1. RouteOf(segments') = RouteOf(segments)
    BY <1>2, SamePoints DEF MatchNext, Base, TypeOK
  <2>. QED BY <2>1 DEF RouteIsTraversable, RouteOf
<1>3. CASE UNCHANGED segments
  BY <1>3 DEF RouteIsTraversable
<1>. QED BY <1>1, <1>2, <1>3 DEF Next, WorkerStep, vars, Ingest, EndJourney, ProcessReads,
            MatchLists, Complete, Fails, RequeueStale

\* Until two workers meet, nothing but the handler at work changes what is
\* accepted, batches apart, and those leave a row or are absorbed.
LEMMA CurrentStep == Base /\ Alone /\ [Next]_vars /\ ~overlapped' => Current'
<1>. SUFFICES ASSUME Base, Alone, [Next]_vars, ~overlapped' PROVE Current'
  OBVIOUS
<1>0. /\ OneAtWork /\ Current /\ OneAtWork' /\ ~overlapped
      /\ worker \in [Workers -> Handler] /\ Idle.step = "idle" /\ Idle \in Handler
      /\ segments \subseteq SegmentRows /\ processJob \in [Samples -> JobStates]
      /\ accepted \subseteq Samples /\ processed \subseteq samples /\ ReadIsStored
      /\ \A b \in Batches : LastOf(b) \in Samples
  BY OneAtWorkStep, BatchAssumption DEF Base, TypeOK, Handler, Idle, Alone
<1>1. ASSUME RouteOf(segments') = RouteOf(segments), accepted' = accepted,
             processed' = processed, absorbed' = absorbed,
             \A x \in Samples : processJob[x] # "none" => processJob'[x] # "none",
             \A v \in Workers : \/ worker'[v] = worker[v]
                                \/ worker'[v].step \notin {"processing", "processed"}
      PROVE  Current'
  <2>1. Drained' => Drained
    BY <1>1 DEF Drained
  <2>2. \A v \in Workers : worker'[v] = worker[v] /\ RowOtherThan(v) => RowOtherThan(v)'
    BY <1>1 DEF RowOtherThan
  <2>3. (RouteOf(segments) = Segments(accepted)) <=> (RouteOf(segments) = Segments(accepted))'
    BY <1>1
  <2>4. /\ Lacks(processed)' <=> Lacks(processed)
        /\ \A v \in Workers : worker'[v] = worker[v] =>
             (Lacks(processed \cup worker[v].read)' <=> Lacks(processed \cup worker[v].read))
    BY <1>1 DEF Lacks
  <2>. HIDE DEF RouteOf
  <2>. QED BY <1>0, <1>1, <2>1, <2>2, <2>3, <2>4 DEF Current
<1>2. ASSUME NEW b \in Batches, Ingest(b) PROVE Current'
  <2>1. /\ segments' = segments /\ worker' = worker
        /\ \A x \in Samples : processJob[x] # "none" => processJob'[x] # "none"
        /\ processJob'[LastOf(b)] # "none"
    BY <1>0, <1>2 DEF Ingest, Enqueued
  <2>2. CASE ~AtJob(LastOf(b))
    <3>1. \A v \in Workers : worker[v].step \in {"processing", "processed"} => RowOtherThan(v)'
      BY <1>0, <2>1, <2>2 DEF RowOtherThan, AtJob
    <3>2. ~Drained'
      BY <1>0, <2>1 DEF Drained
    <3>. QED BY <2>1, <3>1, <3>2 DEF Current
  <2>3. CASE AtJob(LastOf(b)) /\ b \subseteq samples
    <3>1. accepted' = accepted /\ absorbed' = absorbed /\ processed' = processed
      BY <1>2, <2>3 DEF Ingest, InsertLocationSamples
    <3>. QED BY <1>1, <2>1, <3>1
  <2>4. CASE AtJob(LastOf(b)) /\ ~(b \subseteq samples)
    <3>1. absorbed' = absorbed \cup (b \ samples) /\ processed' = processed
      BY <1>2, <2>4 DEF Ingest, InsertLocationSamples
    <3>2. Lacks(processed)' /\ \A v \in Workers : Lacks(processed \cup worker[v].read)'
      BY <1>0, <2>1, <2>4, <3>1 DEF Lacks, ReadIsStored
    <3>. QED BY <2>1, <3>2 DEF Current
  <2>. QED BY <2>2, <2>3, <2>4
<1>3. ASSUME NEW w \in Workers, NEW s \in Samples, ProcessReads(w, s) PROVE Current'
  <2>1. /\ accepted' = accepted /\ segments' = segments /\ processJob'[s] # "none"
        /\ worker'[w].step = "processing" /\ worker'[w].kept = accepted
    BY <1>0, <1>3 DEF ProcessReads, ListLocationSamplesForProcessing, Idle
  <2>2. \A v \in Workers : v # w => worker'[v].step = "idle"
    BY <1>0, <2>1 DEF OneAtWork
  <2>3. ~Drained'
    BY <2>1 DEF Drained
  <2>. QED BY <2>1, <2>2, <2>3 DEF Current
<1>4. ASSUME NEW w \in Workers, ProcessCommits(w) PROVE Current'
  <2>. DEFINE kept == worker[w].kept
  <2>1. /\ worker[w].step = "processing" /\ processJob' = processJob
        /\ accepted' = accepted \ Rejects(kept)
        /\ segments' = {CreateRouteSegment(p) : p \in Segments(kept)}
    BY <1>4 DEF ProcessCommits, UpdateLocationSampleQuality, DeleteRouteSegments
  <2>2. /\ worker'[w].step = "processed" /\ worker'[w].job = worker[w].job
        /\ \A v \in Workers : v # w => worker'[v].step = "idle"
    BY <1>0, <1>4, <2>1 DEF ProcessCommits, Handler, OneAtWork
  <2>3. RouteOf(segments') = Segments(kept)
    <3>1. \A p : CreateRouteSegment(p).points = p
      BY DEF CreateRouteSegment
    <3>. HIDE DEF kept
    <3>. QED BY <2>1, <3>1 DEF RouteOf
  <2>4. CASE kept = accepted
    <3>1. Segments(accepted \ Rejects(accepted)) = Segments(accepted)
      BY <1>0, SameRoute
    <3>2. RouteOf(segments') = Segments(accepted')
      BY <2>1, <2>3, <2>4, <3>1
    <3>. HIDE DEF kept
    <3>. QED BY <2>2, <3>2 DEF Current
  <2>5. CASE RowOtherThan(w)
    <3>1. RowOtherThan(w)' /\ ~Drained'
      BY <2>1, <2>2, <2>5 DEF RowOtherThan, Drained
    <3>. QED BY <2>2, <3>1 DEF Current
  <2>6. CASE Lacks(processed \cup worker[w].read)
    <3>1. absorbed' = absorbed /\ processed' = processed \cup worker[w].read
      BY <1>4 DEF ProcessCommits
    <3>2. Lacks(processed)'
      BY <2>6, <3>1 DEF Lacks
    <3>. QED BY <2>2, <3>2 DEF Current
  <2>. QED BY <1>0, <2>1, <2>4, <2>5, <2>6 DEF Current
<1>5. ASSUME NEW w \in Workers, MatchLists(w) PROVE Current'
  <2>1. /\ worker'[w].step = "matching" /\ \A v \in Workers : v # w => worker'[v] = worker[v]
    BY <1>0, <1>5 DEF MatchLists, Idle
  <2>2. /\ accepted' = accepted /\ segments' = segments /\ processJob' = processJob
        /\ processed' = processed /\ absorbed' = absorbed
    BY <1>5 DEF MatchLists
  <2>. QED BY <1>1, <2>1, <2>2
<1>6. ASSUME NEW w \in Workers, MatchNext(w) PROVE Current'
  <2>1. RouteOf(segments') = RouteOf(segments)
    BY <1>0, <1>6, SamePoints DEF MatchNext
  <2>2. /\ accepted' = accepted /\ processJob' = processJob
        /\ processed' = processed /\ absorbed' = absorbed
        /\ \A v \in Workers : worker'[v] = worker[v] \/ worker'[v].step = "matching"
    BY <1>0, <1>6 DEF MatchNext, Handler
  <2>. QED BY <1>1, <2>1, <2>2
<1>7. ASSUME NEW w \in Workers, Complete(w) PROVE Current'
  <2>1. /\ accepted' = accepted /\ segments' = segments
        /\ processed' = processed /\ absorbed' = absorbed
        /\ \A v \in Workers : v # w => worker'[v] = worker[v]
        /\ worker'[w].step = "idle"
    BY <1>0, <1>7 DEF Complete
  <2>2. CASE worker[w].step = "processed"
    <3>1. \A v \in Workers : worker'[v].step = "idle"
      BY <1>0, <2>1, <2>2 DEF OneAtWork
    <3>2. \A x \in Samples : x # worker[w].job => processJob'[x] = processJob[x]
      BY <1>0, <1>7 DEF Complete
    <3>3. RowOtherThan(w) => ~Drained'
      BY <3>2 DEF RowOtherThan, Drained
    <3>4. Lacks(processed)' <=> Lacks(processed)
      BY <2>1 DEF Lacks
    <3>. QED BY <1>0, <2>1, <2>2, <3>1, <3>3, <3>4 DEF Current
  <2>3. CASE processJob' = processJob
    BY <1>1, <2>1, <2>3
  <2>. QED BY <1>7, <2>2, <2>3 DEF Complete
<1>8. ASSUME NEW w \in Workers, Fails(w) PROVE Current'
  <2>1. /\ accepted' = accepted /\ segments' = segments
        /\ processed' = processed /\ absorbed' = absorbed
        /\ \A v \in Workers : v # w => worker'[v] = worker[v]
        /\ worker'[w].step = "idle"
    BY <1>0, <1>8 DEF Fails
  <2>2. \A x \in Samples : processJob[x] # "none" => processJob'[x] # "none"
    BY <1>0, <1>8 DEF Fails, Retried
  <2>. QED BY <1>1, <2>1, <2>2
<1>9. CASE RequeueStale
  <2>1. \A x \in Samples : processJob[x] # "none" => processJob'[x] # "none"
    BY <1>0, <1>9 DEF RequeueStale
  <2>. QED BY <1>1, <1>9, <2>1 DEF RequeueStale
<1>10. CASE EndJourney \/ UNCHANGED vars
  BY <1>1, <1>10 DEF EndJourney, vars
<1>. QED BY <1>2, <1>3, <1>4, <1>5, <1>6, <1>7, <1>8, <1>9, <1>10 DEF Next, WorkerStep
-----------------------------------------------------------------------------

LEMMA StepIInv == IInv /\ [Next]_vars => IInv'
  BY TypeStep, ReadStep, WorkStep, OneRunStep, TraversableStep, OneAtWorkStep, MatchedStep, CurrentStep
     DEF IInv, Base, Alone

LEMMA Invariance == Spec => []IInv
  BY InitIInv, StepIInv, PTL DEF Spec

\* Rows, handlers and segments have their types, and what is accepted or
\* processed is stored.
THEOREM TypeCorrect == Spec => []TypeOK
<1>1. IInv => TypeOK
  BY DEF IInv, Base
<1>. QED BY <1>1, Invariance, PTL

\* The jobs of Ingest, for any batches, the second tries that differ from the
\* first included: a stored sample is without a row that will process it only
\* if it came while a handler was at the row of its batch.
THEOREM SamplesHaveWork == Spec => []WorkUnlessAbsorbed
<1>1. IInv => WorkUnlessAbsorbed
  BY DEF IInv, WaitingIsTended, Tended, WorkUnlessAbsorbed, HasRow
<1>. QED BY <1>1, Invariance, PTL

\* The transaction of Process: whatever matchers and other runs do, the rows of
\* the route are those of one run.
THEOREM RouteIsOfOneRun == Spec => []RouteFromOneRun
<1>1. IInv => RouteFromOneRun
  BY DEF IInv, OneRun, RouteFromOneRun
<1>. QED BY <1>1, Invariance, PTL

\* The promise of tracking.Clean, of the route Process stores: in whichever
\* batches the samples come and however often they are cleaned, no line is drawn
\* across a gap, to an impossible place or within the noise.
THEOREM RouteStaysTraversable == Spec => []RouteIsTraversable
<1>1. IInv => RouteIsTraversable
  BY DEF IInv
<1>. QED BY <1>1, Invariance, PTL

\* Process with a single worker, and with several until two of them meet: the
\* route of a drained queue shows all samples, or one that was absorbed waits.
THEOREM RouteIsCurrent == Spec => []CurrentWithoutOverlap
<1>1. IInv => CurrentWithoutOverlap
  BY DEF IInv, Alone, Current, CurrentWithoutOverlap, DrainedRouteIsCurrent, RouteOf, Lacks
<1>. QED BY <1>1, Invariance, PTL

\* The match jobs of Process, until two workers meet.
THEOREM RouteIsMatched == Spec => []MatchedWithoutOverlap
<1>1. IInv => MatchedWithoutOverlap
  BY DEF IInv, Alone, Matched, MatchedWithoutOverlap
<1>. QED BY <1>1, Invariance, PTL
=============================================================================
