------------------------- MODULE ProcurementWebhooks -------------------------
(***************************************************************************)
(* ProcurementWebhooksService: purchase order events are posted to the     *)
(* endpoints that subscribed to them.  A post that fails is retried by a   *)
(* cron job, with growing delays, until it has failed MaxAttempts times;   *)
(* a subscription with Threshold such terminal failures within a day is    *)
(* paused, and an admin needs forceResume to resume it.                    *)
(*                                                                         *)
(* Nothing is locked or claimed, every process of the cluster runs the     *)
(* cron job, and save() writes back every column of a copy that differs    *)
(* from what is stored: a delivery or subscription loaded earlier undoes   *)
(* what was saved since.  Times are abstracted to what they decide: a      *)
(* retry is not yet, or is, due; a failure is, or is no longer, recent.    *)
(***************************************************************************)
EXTENDS Integers, Sequences, FiniteSets, SequencesExt

CONSTANTS
  Subscriptions,
  CronJobs,         \* the processes that run the retry job
  Requests,         \* events that are dispatched, replays and admin requests
  MaxAttempts,      \* RETRY_BACKOFF_MINUTES.length + 1
  Threshold,        \* AUTO_PAUSE_TERMINAL_FAILURE_THRESHOLD
  RetryLimit,       \* how many due rows a scan takes: retryFailedDeliveries' limit
  MaxDeliveries,    \* bound: rows of procurement_webhook_deliveries
  Administered,     \* bound: the subscriptions that an admin resumes and pauses
  Mortal,           \* bound: the processes that may die
  MaxCrashes        \* bound: how often

ASSUME WebhooksAssumption ==
  /\ Subscriptions # {}
  /\ MaxAttempts \in Nat \ {0} /\ Threshold \in Nat \ {0} /\ RetryLimit \in Nat \ {0}
  /\ MaxDeliveries \in Nat /\ MaxCrashes \in Nat
  /\ Administered \subseteq Subscriptions
  /\ CronJobs \cap Requests = {} /\ Mortal \subseteq CronJobs \cup Requests

VARIABLES
  subscriptions,    \* the status of every subscription
  deliveries,       \* the rows, in the order of their ids
  ahead,            \* nextRetryAt, of a row that is due: the due rows with an earlier one
  workers,          \* what every process and request is doing
  crashes,
  \* history
  posts,            \* how often each delivery was posted, as long as nothing disturbs it
  acks,             \* how often its endpoint then answered 2xx
  overlapped,       \* it was attempted from an outdated row, or twice at once
  cut,              \* a handler died before it saved what it attempted
  forced,           \* an admin resumed the subscription with forceResume
  reverted,         \* a status was saved that was decided on what had changed since
  unchecked         \* a handler died before it looked whether to pause it

tables == <<subscriptions, deliveries, ahead>>
history == <<posts, acks, overlapped, cut, forced, reverted, unchecked>>
vars == <<tables, workers, crashes, history>>

Workers == CronJobs \cup Requests
Ids == DOMAIN deliveries
Idle == [at |-> "idle", todo |-> <<>>, job |-> "retry", id |-> 0, attempt |-> 0, ok |-> FALSE,
         of |-> CHOOSE s \in Subscriptions : TRUE, copy |-> "ACTIVE", seen |-> "ACTIVE"]

Init ==
  /\ subscriptions = [s \in Subscriptions |-> "ACTIVE"]
  /\ deliveries = <<>> /\ ahead = <<>>
  /\ workers = [r \in Workers |-> Idle]
  /\ crashes = 0
  /\ posts = <<>> /\ acks = <<>> /\ overlapped = <<>> /\ cut = <<>>
  /\ forced = [s \in Subscriptions |-> FALSE]
  /\ reverted = [s \in Subscriptions |-> FALSE]
  /\ unchecked = [s \in Subscriptions |-> FALSE]

At(r, step) == workers[r].at = step
Become(r, work) == workers' = [workers EXCEPT ![r] = work]
Goto(r, step) == workers' = [workers EXCEPT ![r].at = step]

\* A retry skips a delivery whose subscription was not active.
Wanted(d, job) == job = "replay" \/ d.copy = "ACTIVE"

\* A handler goes on, without waiting, with the next delivery it loaded: a
\* retry posts it, a replay copies it.
Proceed(r, todo, job) ==
  \/ /\ \A n \in DOMAIN todo : ~Wanted(todo[n], job)
     /\ Become(r, Idle)
     /\ UNCHANGED overlapped
  \/ \E n \in DOMAIN todo :
       LET d == todo[n]
           Task(step, id, attempt) ==
             [at |-> step, todo |-> SubSeq(todo, n + 1, Len(todo)), job |-> job, id |-> id,
              attempt |-> attempt, ok |-> FALSE, of |-> d.row.of, copy |-> d.copy, seen |-> "ACTIVE"]
       IN  /\ Wanted(d, job)
           /\ \A m \in 1..(n - 1) : ~Wanted(todo[m], job)
           /\ IF job = "replay"
              THEN Become(r, Task("create", 0, 0)) /\ UNCHANGED overlapped
              ELSE /\ Become(r, Task("post", d.id, d.row.attempt + 1))
                   /\ overlapped' = [overlapped EXCEPT ![d.id] =
                         \/ @ \/ deliveries[d.id] # d.row
                         \/ \E other \in Workers \ {r} : workers[other].id = d.id]
NextDelivery(r) == Proceed(r, workers[r].todo, workers[r].job)

-------------------------------------------------------------------------------
(* What starts an attempt *)

\* What a handler loads of a delivery: its row and its subscription's status.
Loaded(d) == [id |-> d, row |-> deliveries[d], copy |-> subscriptions[deliveries[d].of]]
LoadAll(r, order, job) ==
  /\ At(r, "idle") /\ order # <<>>
  /\ Proceed(r, [n \in DOMAIN order |-> Loaded(order[n])], job)
  /\ UNCHANGED <<tables, crashes, posts, acks, cut, forced, reverted, unchecked>>

\* Bound: room for the rows of what has started.
ToCreate(r) == Len(workers[r].todo) + IF At(r, "create") THEN 1 ELSE 0
Room(n) == Len(deliveries) + MapThenSumSet(ToCreate, Requests) + n <= MaxDeliveries

\* dispatchProcurementEvent, to one subscription it finds active.
Dispatch(r, s) ==
  /\ At(r, "idle") /\ subscriptions[s] = "ACTIVE" /\ Room(1)
  /\ Become(r, [Idle EXCEPT !.at = "create", !.of = s])
  /\ UNCHANGED <<tables, crashes, history>>

\* replayDelivery asks neither for the delivery's nor for the subscription's status.
ReplayDelivery(r, d) ==
  /\ At(r, "idle") /\ Room(1)
  /\ Become(r, [Idle EXCEPT !.at = "create", !.of = deliveries[d].of,
                            !.copy = subscriptions[deliveries[d].of]])
  /\ UNCHANGED <<tables, crashes, history>>

Due(d) == deliveries[d].status = "FAILED" /\ deliveries[d].retry = "due"

\* The rows that are due, at most RetryLimit of them, oldest nextRetryAt first.
Oldest == {d \in Ids : Due(d) /\ Cardinality(ahead[d]) < RetryLimit}
InOrder(order) == \A m, n \in DOMAIN order : m < n => order[n] \notin ahead[order[m]]

\* Mutant: the status is not asked for.
RetryAny(r) ==
  \E order \in SetToSeqs({d \in Ids : deliveries[d].attempt < MaxAttempts}) : LoadAll(r, order, "retry")

\* Mutant: newest nextRetryAt first.
RetryNewest(r) ==
  \E order \in SetToSeqs({d \in Ids : Due(d) /\ Cardinality({e \in Ids : d \in ahead[e]}) < RetryLimit}) :
    LoadAll(r, order, "retry")

\* retryFailedDeliveries: one query, then one attempt after the other, from what
\* the query returned.  What it skips stays due, and ahead of the rest.
RetryFailedDeliveries(r) ==
  \E order \in SetToSeqs(Oldest) : InOrder(order) /\ LoadAll(r, order, "retry")

\* replayTerminalFailures: likewise, each as a new delivery; of those that match
\* what was asked for, a page.  They are sorted by times, of which nothing else
\* is modelled: any order.
ReplayTerminalFailures(r) ==
  \E page \in SUBSET {d \in Ids : deliveries[d].status = "FAILED" /\ deliveries[d].final # "none"} :
    Room(Cardinality(page)) /\ \E order \in SetToSeqs(page) : LoadAll(r, order, "replay")

\* deliverToSubscription inserts a PENDING row.
DeliverToSubscription(r) ==
  LET w == workers[r]
  IN  /\ At(r, "create")
      /\ deliveries' = Append(deliveries,
           [of |-> w.of, status |-> "PENDING", attempt |-> 1, retry |-> "none", final |-> "none"])
      /\ ahead' = Append(ahead, {})
      /\ posts' = Append(posts, 0) /\ acks' = Append(acks, 0)
      /\ overlapped' = Append(overlapped, FALSE) /\ cut' = Append(cut, FALSE)
      /\ Become(r, [w EXCEPT !.at = "post", !.id = Len(deliveries) + 1, !.attempt = 1])
      /\ UNCHANGED <<subscriptions, crashes, forced, reverted, unchecked>>

-------------------------------------------------------------------------------
(* executeDeliveryAttempt *)

\* Mutant: an attempt less.
TerminalEarly(w) == ~w.ok /\ w.attempt >= MaxAttempts - 1

Terminal(w) == ~w.ok /\ w.attempt >= MaxAttempts

Undisturbed(d) == ~overlapped[d] /\ ~cut[d]
Counted(counter, d, n) == [counter EXCEPT ![d] = IF Undisturbed(d) THEN @ + n ELSE 0]

Post(r) ==
  LET d == workers[r].id
  IN  /\ At(r, "post")
      /\ \E ok \in BOOLEAN :
           /\ Become(r, [workers[r] EXCEPT !.at = "saveDelivery", !.ok = ok])
           /\ acks' = Counted(acks, d, IF ok THEN 1 ELSE 0)
      /\ posts' = Counted(posts, d, 1)
      /\ UNCHANGED <<tables, crashes, overlapped, cut, forced, reverted, unchecked>>

Attempted(w) ==
  [of |-> w.of, status |-> IF w.ok THEN "SUCCEEDED" ELSE "FAILED", attempt |-> w.attempt,
   retry |-> IF w.ok \/ Terminal(w) THEN "none" ELSE "later",
   final |-> IF Terminal(w) THEN "recent" ELSE "none"]

SaveDelivery(r) ==
  LET w == workers[r]
  IN  /\ At(r, "saveDelivery")
      /\ deliveries' = [deliveries EXCEPT ![w.id] = Attempted(w)]
      /\ ahead' = [d \in Ids |-> IF d = w.id THEN {} ELSE ahead[d] \ {w.id}]
      /\ Goto(r, "saveSubscription")
      /\ UNCHANGED <<subscriptions, crashes, history>>

\* lastDeliveryStatus is saved with the rest of the copy.
SaveSubscription(r) ==
  LET w == workers[r]
  IN  /\ At(r, "saveSubscription")
      /\ subscriptions' = [subscriptions EXCEPT ![w.of] = w.copy]
      /\ reverted' = [reverted EXCEPT ![w.of] = @ \/ subscriptions[w.of] # w.copy]
      /\ IF Terminal(w) THEN Goto(r, "count") /\ UNCHANGED overlapped ELSE NextDelivery(r)
      /\ UNCHANGED <<deliveries, ahead, crashes, posts, acks, cut, forced, unchecked>>

RecentTerminalFailures(s) ==
  {d \in Ids : deliveries[d].of = s /\ deliveries[d].status = "FAILED" /\ deliveries[d].final = "recent"}
Failing(s) == Cardinality(RecentTerminalFailures(s)) >= Threshold

\* Mutant: one more terminal failure is tolerated.
CountOneMore(r) ==
  LET w == workers[r]
  IN  /\ At(r, "count")
      /\ IF w.copy = "ACTIVE" /\ Cardinality(RecentTerminalFailures(w.of)) > Threshold
         THEN Goto(r, "pause") /\ UNCHANGED overlapped ELSE NextDelivery(r)
      /\ UNCHANGED <<tables, crashes, posts, acks, cut, forced, reverted, unchecked>>

\* maybeAutoPauseSubscription.
CountFailures(r) ==
  LET w == workers[r]
  IN  /\ At(r, "count")
      /\ IF w.copy = "ACTIVE" /\ Failing(w.of) THEN Goto(r, "pause") /\ UNCHANGED overlapped ELSE NextDelivery(r)
      /\ UNCHANGED <<tables, crashes, posts, acks, cut, forced, reverted, unchecked>>

AutoPause(r) ==
  LET s == workers[r].of
  IN  /\ At(r, "pause")
      /\ subscriptions' = [subscriptions EXCEPT ![s] = "PAUSED"]
      /\ forced' = [forced EXCEPT ![s] = FALSE]
      /\ NextDelivery(r)
      /\ UNCHANGED <<deliveries, ahead, crashes, posts, acks, cut, reverted, unchecked>>

-------------------------------------------------------------------------------
(* updateSubscriptionStatus *)

MayResume(s, force) == subscriptions[s] # "ACTIVE" => force \/ ~Failing(s)

LoadForStatus(r, s, status, force) ==
  /\ At(r, "idle")
  /\ status = "ACTIVE" => MayResume(s, force)
  /\ Become(r, [Idle EXCEPT !.at = "saveStatus", !.of = s, !.copy = status, !.ok = force, !.seen = subscriptions[s]])
  /\ UNCHANGED <<tables, crashes, history>>

SaveStatus(r) ==
  LET w == workers[r]
  IN  /\ At(r, "saveStatus")
      /\ subscriptions' = [subscriptions EXCEPT ![w.of] = w.copy]
      /\ forced' = [forced EXCEPT ![w.of] = w.copy = "ACTIVE" /\ (w.ok \/ @)]
      /\ reverted' = [reverted EXCEPT ![w.of] =
            @ \/ subscriptions[w.of] # w.seen \/ (w.copy = "ACTIVE" /\ ~MayResume(w.of, w.ok))]
      /\ Become(r, Idle)
      /\ UNCHANGED <<deliveries, ahead, crashes, posts, acks, overlapped, cut, unchecked>>

-------------------------------------------------------------------------------
(* Time and failures *)

BackoffEnds(d) ==
  /\ deliveries[d].retry = "later"
  /\ deliveries' = [deliveries EXCEPT ![d].retry = "due"]
  /\ ahead' = [ahead EXCEPT ![d] = {e \in Ids : Due(e)}]
  /\ UNCHANGED <<subscriptions, workers, crashes, history>>

DayEnds(d) ==
  /\ deliveries[d].final = "recent"
  /\ deliveries' = [deliveries EXCEPT ![d].final = "old"]
  /\ UNCHANGED <<subscriptions, ahead, workers, crashes, history>>

\* A process dies with what it has in memory.
Crash(r) ==
  LET w == workers[r]
  IN  /\ ~At(r, "idle") /\ crashes < MaxCrashes
      /\ crashes' = crashes + 1
      /\ Become(r, Idle)
      /\ cut' = IF At(r, "saveDelivery") \/ At(r, "post") THEN [cut EXCEPT ![w.id] = TRUE] ELSE cut
      /\ unchecked' = [unchecked EXCEPT ![w.of] =
            @ \/ (Terminal(w) /\ w.at \in {"saveSubscription", "count", "pause"})]
      /\ UNCHANGED <<tables, posts, acks, overlapped, forced, reverted>>

AttemptStep(r) ==
  \/ DeliverToSubscription(r)
  \/ Post(r) \/ SaveDelivery(r) \/ SaveSubscription(r) \/ CountFailures(r) \/ AutoPause(r)

Next ==
  \/ \E r \in CronJobs : RetryFailedDeliveries(r)
  \/ \E r \in Requests :
       \/ \E s \in Subscriptions : Dispatch(r, s)
       \/ \E s \in Administered :
            \/ \E force \in BOOLEAN : LoadForStatus(r, s, "ACTIVE", force)
            \/ LoadForStatus(r, s, "PAUSED", FALSE)
       \/ \E d \in Ids : ReplayDelivery(r, d)
       \/ ReplayTerminalFailures(r) \/ SaveStatus(r)
  \/ \E r \in Workers : AttemptStep(r)
  \/ \E r \in Mortal : Crash(r)
  \/ \E d \in Ids : BackoffEnds(d) \/ DayEnds(d)

Spec == Init /\ [][Next]_vars

\* A process that has something to do goes on, the cron job is run again and
\* again, and time passes.
Fairness ==
  /\ \A r \in CronJobs : WF_vars(RetryFailedDeliveries(r))
  /\ \A r \in Workers : WF_vars(AttemptStep(r))
  /\ \A d \in 1..MaxDeliveries : WF_vars(d \in Ids /\ BackoffEnds(d))
FairSpec == Spec /\ Fairness

-------------------------------------------------------------------------------
(* Correctness *)

Attempting(d) == \E r \in Workers : workers[r].id = d

\* The endpoint accepts a delivery once, and the row says so, unless two
\* processes attempted it from the same row or one died over it: nothing but
\* the status keeps a retry from posting again.
AcceptedOnce ==
  \A d \in Ids : Undisturbed(d) /\ ~Attempting(d) =>
    acks[d] = IF deliveries[d].status = "SUCCEEDED" THEN 1 ELSE 0

\* A delivery is given up after exactly MaxAttempts posts, and attemptCount
\* counts the posts.
GivenUpAfterAllAttempts ==
  \A d \in Ids : Undisturbed(d) /\ ~Attempting(d) =>
    /\ deliveries[d].attempt = posts[d]
    /\ deliveries[d].status = "FAILED" =>
         (deliveries[d].retry = "none" <=> posts[d] = MaxAttempts)

\* A subscription with too many recent terminal failures is paused, or was
\* resumed with forceResume, although failures are counted and subscriptions
\* saved by handlers that overlap; unless the copy of a delivery in flight
\* or another admin's request overwrote a status it had not seen, or a handler
\* died before it counted.
PausedWhileFailing ==
  \A s \in Subscriptions :
    /\ Failing(s) /\ ~reverted[s] /\ ~unchecked[s]
    /\ \A r \in Workers : workers[r].at \notin {"saveSubscription", "count", "pause"}
    => subscriptions[s] = "PAUSED" \/ forced[s]

\* Expected to fail, even where one handler runs at a time: resuming such a
\* subscription takes forceResume ("Set forceResume=true to resume anyway").
ResumedByForceOnly ==
  \A s \in Subscriptions :
    Failing(s) /\ (\A r \in Workers : At(r, "idle")) => subscriptions[s] = "PAUSED" \/ forced[s]

Retried(d) ==
  /\ deliveries[d].status = "FAILED" /\ deliveries[d].final = "none"
  /\ subscriptions[deliveries[d].of] = "ACTIVE"

\* The rows a scan would take all belong to subscriptions that are not active:
\* it skips them as they are, and what became due after them is never reached.
Starved(d) == Due(d) /\ \A e \in Oldest : subscriptions[deliveries[e].of] # "ACTIVE"

\* A failed delivery is tried again until it is accepted or given up, or its
\* subscription is paused, whatever overlaps and whoever dies; unless RetryLimit
\* rows of paused subscriptions keep it from being read.
FailuresSettle == []<>(\A d \in Ids : Retried(d) => Starved(d))
=============================================================================
