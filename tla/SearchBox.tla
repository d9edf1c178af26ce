----------------------------- MODULE SearchBox -----------------------------
(***************************************************************************)
(* The place search box of the web application: PlaceSearchCoordinator of  *)
(* lib/place-search.ts under the page's state, in front of the server of   *)
(* PlaceSearch.  The coordinator's generation, which only grows, is        *)
(* compared for equality alone: "current" is the search whose generation   *)
(* it still is.                                                            *)
(***************************************************************************)
EXTENDS PlaceSearch

CONSTANTS
  BoxCalls,  \* the calls of the box, numbered in the order it makes them
  MaxEdits   \* bound: changes of the text and presses of Enter

ASSUME BoxAssumption ==
  /\ BoxCalls \subseteq Calls
  /\ IsFiniteSet(BoxCalls) /\ BoxCalls = 1 .. Cardinality(BoxCalls)
  /\ MaxEdits \in Nat

VARIABLES
  text,      \* the normalized text of the box
  timer,     \* whether the debounce is running
  current,   \* the search whose callbacks still count, or 0
  delivered, \* the searches whose promise settled
  searching, \* the page's spinner
  shown,     \* what the page shows: the call whose results or error it is, or 0
  edits

boxVars == <<text, timer, current, delivered, searching, shown, edits>>
vars == <<searchVars, boxVars>>

None == 0

Init ==
  /\ SearchInit
  /\ text \in Queries \ Meaningful
  /\ timer = FALSE
  /\ current = None
  /\ delivered = {}
  /\ searching = FALSE
  /\ shown = None
  /\ edits = 0

Edited == edits < MaxEdits /\ edits' = edits + 1

\* Mutant of WithoutError: an error stays on display.
WithError == shown

\* setSearchError(""), which leaves results on display.
WithoutError == IF shown = None \/ call[shown].results = "error" THEN None ELSE shown

\* onChange takes the spinner and an error away, also when the normalized text
\* stays the same; then schedule cancels, and resets or sets a new timer.
Type(q) ==
  /\ Edited
  /\ text' = q
  /\ current' = None
  /\ timer' = (q \in Meaningful)
  /\ searching' = FALSE
  /\ shown' = IF q \in Meaningful THEN WithoutError ELSE None
  /\ UNCHANGED <<searchVars, delivered>>

Started == {c \in BoxCalls : call[c] # Unasked}
NextCall == Cardinality(Started) + 1

\* start: onLoading, and the executor's request, which fails at once offline.
Start ==
  /\ NextCall \in BoxCalls
  /\ current' = NextCall
  /\ searching' = TRUE
  /\ shown' = WithoutError
  /\ Ask(NextCall, text) \/ AskOffline(NextCall, text)
  /\ UNCHANGED <<text, delivered>>

TimerFires == timer /\ timer' = FALSE /\ Start /\ UNCHANGED edits

\* runNow.
Enter ==
  /\ Edited
  /\ text \in Meaningful
  /\ timer' = FALSE
  /\ Start

\* Escape, or the choice of a suggestion: cancel and no spinner.
Dismiss ==
  /\ timer' = FALSE
  /\ current' = None
  /\ searching' = FALSE
  /\ UNCHANGED <<searchVars, text, delivered, shown, edits>>

\* Mutant of Settle: every answer is shown, whichever search is the latest.
SettleAny(c) ==
  /\ searching' = FALSE
  /\ shown' = c

\* The guards of onSuccess and onError.
Settle(c) ==
  IF c = current
  THEN searching' = FALSE /\ shown' = c
  ELSE UNCHANGED <<searching, shown>>

Deliver(c) ==
  /\ Answered(c)
  /\ c \notin delivered
  /\ delivered' = delivered \cup {c}
  /\ Settle(c)
  /\ UNCHANGED <<searchVars, text, timer, current, edits>>

Next ==
  \/ \E q \in Queries : Type(q)
  \/ TimerFires \/ Enter \/ Dismiss
  \/ \E c \in BoxCalls : Deliver(c)
  \/ /\ UNCHANGED boxVars
     /\ \/ \E c \in Calls : Serve(c)
        \/ \E c \in Calls \ BoxCalls, q \in Queries : Ask(c, q)
        \/ Tick

Spec == Init /\ [][Next]_vars
-----------------------------------------------------------------------------

\* The timer, the calls' steps and their settling happen in the end; users need
\* not type, ask or dismiss.
Fairness ==
  /\ WF_vars(TimerFires) /\ WF_vars(Tick /\ UNCHANGED boxVars)
  /\ \A c \in Calls : WF_vars(Serve(c) /\ UNCHANGED boxVars)
  /\ \A c \in BoxCalls : WF_vars(Deliver(c))

FairSpec == Spec /\ Fairness

SearchTypeOK ==
  /\ timer \in BOOLEAN /\ searching \in BOOLEAN
  /\ current \in BoxCalls \cup {None} /\ shown \in BoxCalls \cup {None}
  /\ delivered \subseteq BoxCalls

\* While the latest search is under way the spinner turns and no error is on
\* display, however late the answers of superseded searches come.
SpinnerUntilAnswered ==
  current # None /\ current \notin delivered =>
    searching /\ (shown # None => call[shown].results # "error")

\* What is shown is never replaced by the answer of an earlier search.
NewestSearchWins == [][shown # None /\ shown' # None => shown' >= shown]_vars

\* The spinner stops once the user pauses.
SpinnerStops == searching ~> ~searching
=============================================================================
