------------------------------- MODULE Sharing -------------------------------
(***************************************************************************)
(* Public itineraries: sharing.Service Create, Resolve and Revoke over the *)
(* timeline of Timeline.  Create reads the journey, its stops and its      *)
(* photos in three statements and stores what it read as a snapshot that   *)
(* never changes; pins, deletions and the end of the journey go on between *)
(* them.  Resolve reads the row and then signs the photo URLs one by one.  *)
(*                                                                         *)
(* A share id stands for its token as well; an item's text is left out.    *)
(***************************************************************************)
EXTENDS Timeline, Sequences

CONSTANTS
  Shares,       \* share ids, each made by one call of Create
  SharedJourney(_), \* the journey a share is of
  Photos,       \* photos of the journeys' stops
  StopOf(_),    \* the pin whose stop a photo belongs to
  Selections    \* the item lists clients send: sequences of [request, photos]

ASSUME SharedAssumption == \A h \in Shares : SharedJourney(h) \in Journeys
ASSUME SelectionAssumption ==
  Selections \subseteq Seq([request : Requests, photos : SUBSET Photos])

VARIABLES
  processed,  \* photos with status 'processed' (for good: PhotoUploads)
  creating,   \* per share: how far Create is, and what it read
  shares,     \* the rows of itinerary_shares
  resolving,  \* shares a Resolve has read and not yet signed the photos of
  urls        \* shares whose photos have a signed URL that is still valid

shareVars == <<processed, creating, shares, resolving, urls>>

Item == [position : Nat \ {0}, stop : Stop, photos : SUBSET Photos]
NotCreating == [step |-> "idle", ended |-> FALSE, stops |-> {}, photos |-> {}]
CreateSteps == {"idle", "journey", "stops", "photos", "done"}
NoShare == [state |-> "none", ended |-> FALSE, whole |-> FALSE, items |-> {}]

ShareInit ==
  /\ Init
  /\ processed = {}
  /\ creating = [h \in Shares |-> NotCreating]
  /\ shares = [h \in Shares |-> NoShare]
  /\ resolving = {}
  /\ urls = {}

\* The worker finishes a photo; its stop was there when it was reserved.
PhotoProcessed(p) ==
  /\ p \notin processed
  /\ StopFor(StopOf(p)) # {}
  /\ processed' = processed \cup {p}
  /\ UNCHANGED <<vars, creating, shares, resolving, urls>>

(***************************************************************************)
(* Create.  An expiry that is not in the future is refused before this.    *)
(***************************************************************************)
GetJourney(h) ==
  /\ creating[h].step = "idle"
  /\ creating' = [creating EXCEPT ![h].step = "journey",
                                  ![h].ended = SharedJourney(h) \notin active]
  /\ UNCHANGED <<vars, processed, shares, resolving, urls>>

\* Mutant of ListJourneyStops: a join with the places, without deleted ones.
ListStopsOfLivePlaces(j) == {s \in StopsOf(j) : places[s.request] = "live"}

\* Every stop of the journey, the place of its pin deleted or not.
ListJourneyStops(j) == StopsOf(j)

ReadStops(h) ==
  /\ creating[h].step = "journey"
  /\ creating' = [creating EXCEPT ![h].step = "stops",
                                  ![h].stops = ListJourneyStops(SharedJourney(h))]
  /\ UNCHANGED <<vars, processed, shares, resolving, urls>>

ListPhotosForShare(j) == {p \in processed : JourneyOf(StopOf(p)) = j}

ReadPhotos(h) ==
  /\ creating[h].step = "stops"
  /\ creating' = [creating EXCEPT ![h].step = "photos",
                                  ![h].photos = ListPhotosForShare(SharedJourney(h))]
  /\ UNCHANGED <<vars, processed, shares, resolving, urls>>

\* With no items every stop is an item, in the order of the timeline.
WholeTimeline(S) ==
  {[position |-> Cardinality({t \in S : t.sequence <= s.sequence}),
    stop |-> s, photos |-> {}] : s \in S}

\* The items must be stops that were read, each once, with photos of theirs.
Valid(list, read) ==
  \A i \in DOMAIN list :
    /\ \E s \in read.stops : s.request = list[i].request
    /\ \A k \in DOMAIN list : list[i].request = list[k].request => i = k
    /\ \A p \in list[i].photos : p \in read.photos /\ StopOf(p) = list[i].request

Chosen(list, S) ==
  {[position |-> i, stop |-> CHOOSE s \in S : s.request = list[i].request,
    photos |-> list[i].photos] : i \in DOMAIN list}

\* Mutant of Ended: the journey is read again, after its stops.
EndedByNow(h) == SharedJourney(h) \notin active

\* EndedAt of the snapshot, from the journey as it was read first.
Ended(h) == creating[h].ended

\* The row, or ErrInvalidShare.
CreateItineraryShare(h) ==
  /\ creating[h].step = "photos"
  /\ creating' = [creating EXCEPT ![h] = [NotCreating EXCEPT !.step = "done"]]
  /\ \E list \in Selections :
       LET read == creating[h]
           items == IF list = <<>> THEN WholeTimeline(read.stops) ELSE Chosen(list, read.stops)
       IN shares' = IF Valid(list, read)
                    THEN [shares EXCEPT ![h] = [state |-> "live", ended |-> Ended(h),
                                                whole |-> list = <<>>, items |-> items]]
                    ELSE shares
  /\ UNCHANGED <<vars, processed, resolving, urls>>

\* A statement fails or the client goes away: nothing was written.
CreateFails(h) ==
  /\ creating[h].step \in {"journey", "stops", "photos"}
  /\ creating' = [creating EXCEPT ![h] = NotCreating]
  /\ UNCHANGED <<vars, processed, shares, resolving, urls>>

(***************************************************************************)
(* Revoke, the passing of expires_at, and Resolve.                         *)
(***************************************************************************)
\* A row that has expired is matched as well; a revoked one answers not found.
RevokeItineraryShare(row) ==
  IF row.state \in {"live", "expired"} THEN [row EXCEPT !.state = "revoked"] ELSE row

Revoke(h) ==
  /\ shares[h].state # "none"
  /\ shares' = [shares EXCEPT ![h] = RevokeItineraryShare(@)]
  /\ UNCHANGED <<vars, processed, creating, resolving, urls>>

ExpiryPasses(h) ==
  /\ shares[h].state = "live"
  /\ shares' = [shares EXCEPT ![h].state = "expired"]
  /\ UNCHANGED <<vars, processed, creating, resolving, urls>>

\* Mutant of GetItineraryShareByTokenHash: the row's state is not looked at.
GetAnyShare(h) == shares[h].state # "none"

\* The row of the token, neither revoked nor expired.
GetItineraryShareByTokenHash(h) == shares[h].state = "live"

ResolveReads(h) ==
  /\ GetItineraryShareByTokenHash(h)
  /\ resolving' = resolving \cup {h}
  /\ UNCHANGED <<vars, processed, creating, shares, urls>>

\* PresignGet for the photos of the snapshot; the row is not read again.
ResolveSigns(h) ==
  /\ h \in resolving
  /\ resolving' = resolving \ {h}
  /\ urls' = IF \E item \in shares[h].items : item.photos # {} THEN urls \cup {h} ELSE urls
  /\ UNCHANGED <<vars, processed, creating, shares>>

\* publicPhotoExpiry after they were signed.
UrlsExpire(h) ==
  /\ h \in urls
  /\ urls' = urls \ {h}
  /\ UNCHANGED <<vars, processed, creating, shares, resolving>>

ShareStep(h) ==
  \/ GetJourney(h) \/ ReadStops(h) \/ ReadPhotos(h) \/ CreateItineraryShare(h)
  \/ CreateFails(h) \/ Revoke(h) \/ ExpiryPasses(h)
  \/ ResolveReads(h) \/ ResolveSigns(h) \/ UrlsExpire(h)

ShareNext ==
  \/ Next /\ UNCHANGED shareVars
  \/ \E p \in Photos : PhotoProcessed(p)
  \/ \E h \in Shares : ShareStep(h)

allVars == <<vars, shareVars>>
ShareSpec == ShareInit /\ [][ShareNext]_allVars

\* Transactions end and get their lock as in Timeline; a Resolve ends and a
\* signed URL runs out.
ShareFairSpec ==
  /\ ShareSpec
  /\ Fairness
  /\ \A h \in Shares : WF_allVars(ResolveSigns(h)) /\ WF_allVars(UrlsExpire(h))
-----------------------------------------------------------------------------

ShareTypeOK ==
  /\ processed \subseteq Photos
  /\ creating \in [Shares -> [step : CreateSteps, ended : BOOLEAN,
                              stops : SUBSET Stop, photos : SUBSET Photos]]
  /\ shares \in [Shares -> [state : {"none", "live", "revoked", "expired"},
                            ended : BOOLEAN, whole : BOOLEAN, items : SUBSET Item]]
  /\ resolving \subseteq Shares /\ urls \subseteq Shares

ItemStops(h) == {item.stop : item \in shares[h].items}

\* A snapshot of the whole journey that says when the journey ended holds all
\* of its stops, for good: it was read in three statements, but the journey
\* first, and no stop joins a journey that is over.
EndedSnapshotIsComplete ==
  \A h \in Shares : shares[h].whole /\ shares[h].ended =>
    ItemStops(h) = StopsOf(SharedJourney(h))

\* A snapshot of the whole journey shows its stops 1 .. n at the places their
\* numbers say, whatever pins commit or places are deleted meanwhile.
WholeSnapshotIsTimeline ==
  \A h \in Shares : shares[h].whole =>
    \A item \in shares[h].items : item.position = item.stop.sequence

\* A revoked or expired link stops working for good: in the end no URL of its
\* photos is valid any more, although a Resolve may still have been signing.
RevokedIsGone ==
  \A h \in Shares : shares[h].state \in {"revoked", "expired"} ~> [](h \notin urls)
=============================================================================
