--------------------------- MODULE OutingWarning ---------------------------
(***************************************************************************)
(* The warning of an outing an hour before it expires: the outing.warn     *)
(* handler of notifications/lifecycle.go, which pushes to every            *)
(* subscription of the owner's devices and clears those the provider calls *)
(* gone, and the devices' rows, which the settings page registers and      *)
(* deletes.  Journeys models the journey; here it is over or not.  The job *)
(* queue is the one of Journeys.                                           *)
(***************************************************************************)
EXTENDS Integers

CONSTANTS
  Devices,          \* installations of the owner
  Installed,        \* those that were registered when the outing began
  Senders,          \* workers running outing.warn
  MaxWarnAttempts,  \* attempts of the outing.warn job (8); also a bound: not requeued later
  MaxSubscriptions(_), \* bound: subscriptions a browser makes, one after another
  MaxCreates        \* bound: times the job is enqueued

ASSUME InstalledAssumption == Installed \subseteq Devices
ASSUME WarnBoundsAssumption ==
  MaxWarnAttempts \in Nat \ {0} /\ (\A d \in Devices : MaxSubscriptions(d) \in Nat) /\ MaxCreates \in Nat

VARIABLES
  outing,   \* whether the journey is an active outing
  warnJob,  \* the outing.warn row
  rows,     \* per installation: its row's id and push_subscription
  browser,  \* per installation: its live subscription, and how many it made
  sending,  \* per worker: what is left of its list of subscriptions
  warned    \* history: per installation, the subscription last pushed to

deviceVars == <<rows, browser>>
warnVars == <<outing, warnJob, deviceVars, sending, warned>>

None == 0
NoRow == [id |-> None, subscription |-> None]
NotSending == [job |-> None, list |-> {}, gone |-> {}]

WarnInit ==
  /\ outing = TRUE
  /\ warnJob = [id |-> 1, state |-> "scheduled", attempts |-> 0]
  /\ rows = [d \in Devices |-> IF d \in Installed THEN [id |-> 1, subscription |-> 1] ELSE NoRow]
  /\ browser = [d \in Devices |-> IF d \in Installed THEN [live |-> 1, made |-> 1]
                                  ELSE [live |-> None, made |-> 0]]
  /\ sending = [w \in Senders |-> NotSending]
  /\ warned = [d \in Devices |-> None]

(***************************************************************************)
(* The settings page: subscribe and register; unsubscribe and delete.  A   *)
(* browser that is subscribed keeps its subscription when asked again; the *)
(* page goes on to register, or its request is lost.                       *)
(***************************************************************************)
Subscribe(d) ==
  /\ browser[d].live = None
  /\ browser[d].made < MaxSubscriptions(d)
  /\ browser' = [browser EXCEPT ![d] = [live |-> @.made + 1, made |-> @.made + 1]]
  /\ UNCHANGED <<outing, warnJob, rows, sending, warned>>

\* A new row's id is the number of its first subscription.
UpsertDevice(d) ==
  /\ browser[d].live # None
  /\ rows' = [rows EXCEPT ![d] = [id |-> IF @ = NoRow THEN browser[d].live ELSE @.id,
                                  subscription |-> browser[d].live]]
  /\ UNCHANGED <<outing, warnJob, browser, sending, warned>>

\* The user unsubscribes, or the provider gives the subscription up.
Unsubscribe(d) ==
  /\ browser[d].live # None
  /\ browser' = [browser EXCEPT ![d].live = None]
  /\ UNCHANGED <<outing, warnJob, rows, sending, warned>>

\* The page deletes the row after it unsubscribed, if the request gets through.
DeleteDevice(d) ==
  /\ browser[d].live = None
  /\ rows[d] # NoRow
  /\ rows' = [rows EXCEPT ![d] = NoRow]
  /\ UNCHANGED <<outing, warnJob, browser, sending, warned>>

(***************************************************************************)
(* The outing and its job.  The outing ends, expires or becomes a trip; a  *)
(* repeated create enqueues the job again once its row is gone.            *)
(***************************************************************************)
OutingIsOver ==
  /\ outing
  /\ outing' = FALSE
  /\ UNCHANGED <<warnJob, deviceVars, sending, warned>>

EnqueueWarning ==
  /\ warnJob.state = "none"
  /\ warnJob.id < MaxCreates
  /\ warnJob' = [id |-> warnJob.id + 1, state |-> "scheduled", attempts |-> 0]
  /\ UNCHANGED <<outing, deviceVars, sending, warned>>

WarningIsDue ==
  /\ warnJob.state = "scheduled"
  /\ warnJob' = [warnJob EXCEPT !.state = "due"]
  /\ UNCHANGED <<outing, deviceVars, sending, warned>>

\* A worker that starts takes back a row that has been running too long,
\* whether its handler is still at it or not.
RequeueStaleWarning ==
  /\ warnJob.state = "running"
  /\ warnJob.attempts <= MaxWarnAttempts
  /\ warnJob' = [warnJob EXCEPT !.state = "due"]
  /\ UNCHANGED <<outing, deviceVars, sending, warned>>

Settle(w, state) ==
  warnJob' = IF warnJob.id = sending[w].job /\ warnJob.state = "running"
             THEN [warnJob EXCEPT !.state = state] ELSE warnJob

CompleteJob(w) == Settle(w, "none")
RetryJob(w) == Settle(w, IF warnJob.attempts >= MaxWarnAttempts THEN "dead" ELSE "due")

(***************************************************************************)
(* HandleWarning.  The journey is looked at, then the list is read: what   *)
(* happens to the outing in between could happen after the list as well.   *)
(***************************************************************************)
ListPushSubscriptionsForUser ==
  {[device |-> d, id |-> rows[d].id, subscription |-> rows[d].subscription] :
     d \in {d \in Devices : rows[d].subscription # None}}

WarnReads(w) ==
  /\ sending[w] = NotSending
  /\ warnJob.state = "due"
  /\ warnJob' = [warnJob EXCEPT !.state = "running", !.attempts = @ + 1]
  /\ sending' = [sending EXCEPT ![w] =
       [NotSending EXCEPT !.job = warnJob.id,
                    !.list = IF outing THEN ListPushSubscriptionsForUser ELSE {}]]
  /\ UNCHANGED <<outing, deviceVars, warned>>

Live(s) == browser[s.device].live = s.subscription

\* The provider takes the notification, or answers 404 or 410.
Send(w, s) ==
  /\ sending[w].gone = {}
  /\ s \in sending[w].list
  /\ sending' = [sending EXCEPT ![w].list = @ \ {s}, ![w].gone = IF Live(s) THEN {} ELSE {s}]
  /\ warned' = IF Live(s) THEN [warned EXCEPT ![s.device] = s.subscription] ELSE warned
  /\ UNCHANGED <<outing, warnJob, deviceVars>>

\* Mutant of ClearDevicePushSubscription: nothing is cleared.
ClearNothing(s) == UNCHANGED rows

\* The statement names the row, not the subscription that is gone.
ClearDevicePushSubscription(s) ==
  rows' = IF rows[s.device].id = s.id THEN [rows EXCEPT ![s.device].subscription = None] ELSE rows

\* Mutant of WarnClears: the handler returns instead of going on.
WarnClearsAndReturns(w) ==
  /\ \E s \in sending[w].gone : ClearDevicePushSubscription(s)
  /\ sending' = [sending EXCEPT ![w] = NotSending]
  /\ CompleteJob(w)
  /\ UNCHANGED <<outing, browser, warned>>

WarnClears(w) ==
  /\ \E s \in sending[w].gone : ClearDevicePushSubscription(s)
  /\ sending' = [sending EXCEPT ![w].gone = {}]
  /\ UNCHANGED <<outing, warnJob, browser, warned>>

WarnReturns(w) ==
  /\ sending[w].job # None
  /\ sending[w].list \cup sending[w].gone = {}
  /\ CompleteJob(w)
  /\ sending' = [sending EXCEPT ![w] = NotSending]
  /\ UNCHANGED <<outing, deviceVars, warned>>

\* A push or a statement fails, maybe after it took effect; the loop stops.
WarnFails(w) ==
  /\ sending[w].list \cup sending[w].gone # {}
  /\ RetryJob(w)
  /\ sending' = [sending EXCEPT ![w] = NotSending]
  /\ UNCHANGED <<outing, deviceVars, warned>>

\* The worker stops, or cannot settle the row.
SenderStops(w) ==
  /\ sending[w].job # None
  /\ sending' = [sending EXCEPT ![w] = NotSending]
  /\ UNCHANGED <<outing, warnJob, deviceVars, warned>>

HandleWarning(w) ==
  \/ \E d \in Devices : \E s \in sending[w].list : s.device = d /\ Send(w, s)
  \/ WarnClears(w) \/ WarnReturns(w) \/ WarnFails(w) \/ SenderStops(w)

WarnNext ==
  \/ \E d \in Devices :
       Subscribe(d) \/ UpsertDevice(d) \/ Unsubscribe(d) \/ DeleteDevice(d)
  \/ OutingIsOver \/ EnqueueWarning \/ WarningIsDue \/ RequeueStaleWarning
  \/ \E w \in Senders : WarnReads(w) \/ HandleWarning(w)

WarnSpec == WarnInit /\ [][WarnNext]_warnVars

\* Time passes, and the workers keep taking the due job (that the handlers of
\* their other jobs come to an end is assumed here) and get answers from the
\* database.  A push need not end, in an answer or an error: neither its HTTP
\* client nor the context of Run has a deadline.
WarnFairSpec ==
  /\ WarnSpec
  /\ WF_warnVars(WarningIsDue)
  /\ \A w \in Senders : WF_warnVars(WarnReads(w)) /\ WF_warnVars(WarnClears(w) \/ WarnReturns(w))
-----------------------------------------------------------------------------
Subscriptions == [device : Devices, id : Nat, subscription : Nat]

\* Types of the rows, the job and the workers' lists.
WarnTypeOK ==
  /\ outing \in BOOLEAN
  /\ warnJob \in [id : Nat \ {0}, state : {"none", "scheduled", "due", "running", "dead"},
                  attempts : Nat]
  /\ rows \in [Devices -> [id : Nat, subscription : Nat]]
  /\ browser \in [Devices -> [live : Nat, made : Nat]]
  /\ sending \in [Senders -> [job : Nat, list : SUBSET Subscriptions, gone : SUBSET Subscriptions]]
  /\ warned \in [Devices -> Nat]

\* An installation kept the subscription it had when the outing began.
KeptSubscription(d) == d \in Installed /\ browser[d] = [live |-> 1, made |-> 1]
JobDone == warnJob.state = "none" \/ warnJob.id > 1

\* Once a job of the warning is done, every installation that kept its
\* subscription was pushed to: whichever workers took the job, failed and
\* repeated it, and whatever others on the list were gone, cleared, or
\* registered again meanwhile.
DoneIsWarned ==
  outing /\ JobDone => \A d \in Devices : KeptSubscription(d) => warned[d] = 1

Abandoned == warnJob.state = "running" /\ \A w \in Senders : sending[w].job # warnJob.id
Excused == ~outing \/ warnJob.state = "dead" \/ Abandoned
Registered(d) == browser[d].live # None /\ rows[d].subscription = browser[d].live

\* A push of the worker never ends.
PushHangs(w) == <>[](sending[w].list # {} /\ sending[w].gone = {})

\* What the architecture document promises, that clients of providers enforce
\* explicit timeouts, is that no push keeps the others waiting: a device that
\* stays registered is warned, whatever becomes of the other devices'
\* subscriptions, unless the outing ends first, the attempts are used up, or a
\* worker stopped and none started since.
NoPushStopsTheOthers ==
  \A d \in Devices :
    warnJob.state = "scheduled" /\ Registered(d) ~>
      Excused \/ ~Registered(d) \/ warned[d] = browser[d].live

\* That holds of pushes that fail, of subscriptions that are gone and of those
\* that are replaced meanwhile, and fails only if a push never ends.
EveryDeviceIsWarned == NoPushStopsTheOthers \/ \E w \in Senders : PushHangs(w)

\* A subscription the provider gave up does not outlive the warning, unless a
\* push never ends.
GoneIsCleared ==
  \/ \A d \in Devices :
       warnJob.state = "scheduled" /\ rows[d].subscription # None /\ ~Registered(d) ~>
         Excused \/ rows[d].subscription = None \/ Registered(d)
  \/ \E w \in Senders : PushHangs(w)
=============================================================================
