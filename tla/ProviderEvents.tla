--------------------------- MODULE ProviderEvents ---------------------------
(***************************************************************************)
(* The way of a provider's event into the outbox: a webhook or a manual    *)
(* request is accepted once, with the routes of that moment                *)
(* (src/src/db/trigger-acceptance.ts), then every routed project matches   *)
(* and enqueues it on its own (enqueue of src/src/workflows/engine.ts).    *)
(* The sender repeats a delivery when it wants to, also concurrently.      *)
(***************************************************************************)
EXTENDS Integers, FiniteSets

CONSTANTS Projects, Triggers, Revisions, None,
          Fires,        \* Fires[r]: the triggers of revision r that match the event
          Deliveries,   \* the identities of deliveries
          ManualDeliveries, ManualProject,
          Requests,     \* the requests under way at once
          MaxSends,     \* bound on requests
          MaxFailures,  \* bound on rejected database calls
          MaxStops,     \* bound on stops and crashes
          MaxChanges    \* bound on changes of revisions and of the connection

VARIABLES
  connection, \* "none", "active" or "suspended"
  active,     \* the active, routed revision of each project
  serving,    \* the source has its handler
  receipt,    \* provider_event_receipts
  fired,      \* trigger_runs: the revision of the run of (delivery, project, trigger)
  request,    \* the requests under way
  acked,      \* the deliveries answered 200, with a receipt
  unheard,    \* history: the deliveries accepted for a handler that was gone
  sends, failures, stops, changes

vars == <<connection, active, serving, receipt, fired, request, acked, unheard,
          sends, failures, stops, changes>>
bounds == <<sends, failures, stops, changes>>

NoRoutes == [p \in Projects |-> None]
NoReceipt == [exists |-> FALSE, dropped |-> FALSE, routes |-> NoRoutes]
NoRequest == [pc |-> "idle", of |-> None, drop |-> FALSE, todo |-> {}]

\* What has to be enqueued for accepted routes: one run for each matching
\* trigger, one mark for a project without a match.
Work(routes) ==
  UNION {LET r == routes[p] IN
         IF r = None THEN {}
         ELSE IF Fires[r] = {} THEN {<<p, r, None>>}
         ELSE {<<p, r, t>> : t \in Fires[r]} : p \in Projects}

\* The routes of a receipt are revisions, which fire triggers; manual requests are
\* deliveries and go to one project.
EventsAssumption ==
  /\ None \notin Revisions /\ None \notin Triggers
  /\ \A r \in Revisions : Fires[r] \subseteq Triggers
  /\ ManualDeliveries \subseteq Deliveries /\ ManualProject \in Projects

TypeOK ==
  /\ connection \in {"none", "active", "suspended"} /\ serving \in BOOLEAN
  /\ active \in [Projects -> Revisions \cup {None}]
  /\ \A d \in Deliveries :
       /\ receipt[d].exists \in BOOLEAN /\ receipt[d].dropped \in BOOLEAN
       /\ receipt[d].routes \in [Projects -> Revisions \cup {None}]
  /\ fired \in [Deliveries \X Projects \X Triggers -> Revisions \cup {None}]
  /\ acked \subseteq Deliveries /\ unheard \subseteq Deliveries
  /\ \A q \in Requests :
       /\ request[q].pc \in {"idle", "received", "accepted", "dispatching", "failed"}
       /\ request[q].todo \subseteq Projects \X Revisions \X (Triggers \cup {None})

Init ==
  /\ connection = "active"
  /\ active \in [Projects -> Revisions \cup {None}]
  /\ serving = TRUE
  /\ receipt = [d \in Deliveries |-> NoReceipt]
  /\ fired = [x \in Deliveries \X Projects \X Triggers |-> None]
  /\ request = [q \in Requests |-> NoRequest]
  /\ acked = {} /\ unheard = {}
  /\ sends = 0 /\ failures = 0 /\ stops = 0 /\ changes = 0

-----------------------------------------------------------------------------
(* Requests *)

\* A verified request arrives: dropReason looks for a handler before the call.
Deliver(q, d) ==
  /\ request[q].pc = "idle" /\ sends < MaxSends
  /\ request' = [request EXCEPT ![q] = [pc |-> "received", of |-> d, drop |-> ~serving, todo |-> {}]]
  /\ sends' = sends + 1
  /\ UNCHANGED <<connection, active, serving, receipt, fired, acked, unheard,
                 failures, stops, changes>>

Answered200(q) == acked' = acked \cup {request[q].of} /\ request' = [request EXCEPT ![q] = NoRequest]
Answered500(q) == UNCHANGED acked /\ request' = [request EXCEPT ![q] = NoRequest]
AnsweredUnbound(q) == UNCHANGED acked /\ request' = [request EXCEPT ![q] = NoRequest]
Accepted(q, work) ==
  UNCHANGED acked /\ request' = [request EXCEPT ![q].pc = "accepted", ![q].todo = work]

\* Mutant: a repeated delivery follows the routes of today.
ReplayedToday(rc) == Work(active)
\* replayProviderReceipt: the events of the routes accepted at the first delivery.
Replayed(rc) == Work(rc.routes)

\* acceptProvider, one transaction.
Accept(q) ==
  LET d == request[q].of
      dropped == request[q].drop \/ connection = "suspended" \/ active = NoRoutes
  IN /\ request[q].pc = "received" /\ d \notin ManualDeliveries
     /\ IF connection = "none" THEN AnsweredUnbound(q) /\ UNCHANGED receipt
        ELSE IF receipt[d].exists
        THEN /\ UNCHANGED receipt
             /\ IF receipt[d].dropped THEN Answered200(q) ELSE Accepted(q, Replayed(receipt[d]))
        ELSE /\ receipt' = [receipt EXCEPT ![d] =
                  [exists |-> TRUE, dropped |-> dropped,
                   routes |-> IF dropped THEN NoRoutes ELSE active]]
             /\ IF dropped THEN Answered200(q) ELSE Accepted(q, Work(active))
     /\ UNCHANGED <<connection, active, serving, fired, unheard, bounds>>

\* persistManual: a repeated request finds its route whether it was dropped or not.
AcceptByHand(q) ==
  LET d == request[q].of
      route == [NoRoutes EXCEPT ![ManualProject] = active[ManualProject]]
  IN /\ request[q].pc = "received" /\ d \in ManualDeliveries
     /\ IF receipt[d].exists THEN Accepted(q, Replayed(receipt[d])) /\ UNCHANGED receipt
        ELSE IF active[ManualProject] = None THEN Answered500(q) /\ UNCHANGED receipt
        ELSE /\ Accepted(q, Work(route))
             /\ receipt' = [receipt EXCEPT ![d] =
                              [exists |-> TRUE, dropped |-> FALSE, routes |-> route]]
     /\ UNCHANGED <<connection, active, serving, fired, unheard, bounds>>

\* The events go to the handlers there are now. A webhook that finds none is
\* answered all the same; a manual request that finds none marks its receipt.
Dispatch(q) ==
  LET d == request[q].of IN
  /\ request[q].pc = "accepted"
  /\ IF serving
     THEN /\ request' = [request EXCEPT ![q].pc = "dispatching"]
          /\ UNCHANGED <<receipt, acked, unheard>>
     ELSE /\ Answered200(q)
          /\ unheard' = unheard \cup {d}
          /\ receipt' = [receipt EXCEPT ![d].dropped = @ \/ d \in ManualDeliveries]
  /\ UNCHANGED <<connection, active, serving, fired, bounds>>

\* enqueue of one project: a run per match, unless there is one already, or the
\* mark on the receipt that all projects share.
Enqueue(q, p, r, t) ==
  LET d == request[q].of IN
  /\ request[q].pc \in {"dispatching", "failed"} /\ <<p, r, t>> \in request[q].todo
  /\ request' = [request EXCEPT ![q].todo = @ \ {<<p, r, t>>}]
  /\ IF t = None
     THEN receipt' = [receipt EXCEPT ![d].dropped = TRUE] /\ UNCHANGED fired
     ELSE /\ fired' = [fired EXCEPT ![<<d, p, t>>] = IF @ = None THEN r ELSE @]
          /\ UNCHANGED receipt
  /\ UNCHANGED <<connection, active, serving, acked, unheard, bounds>>

\* Mutant: a handler's failure is reported, and the delivery answered 200.
EnqueueFailsQuietly(q, p, r, t) ==
  /\ request[q].pc \in {"dispatching", "failed"} /\ <<p, r, t>> \in request[q].todo
  /\ failures < MaxFailures
  /\ failures' = failures + 1
  /\ request' = [request EXCEPT ![q].todo = @ \ {<<p, r, t>>}]
  /\ UNCHANGED <<connection, active, serving, receipt, fired, acked, unheard,
                 sends, stops, changes>>

\* The database call is rejected: the request is answered 500 at once, while the
\* other projects and triggers of the event go on.
EnqueueFails(q, p, r, t) ==
  /\ request[q].pc \in {"dispatching", "failed"} /\ <<p, r, t>> \in request[q].todo
  /\ failures < MaxFailures
  /\ failures' = failures + 1
  /\ request' = [request EXCEPT ![q].pc = "failed", ![q].todo = @ \ {<<p, r, t>>}]
  /\ UNCHANGED <<connection, active, serving, receipt, fired, acked, unheard,
                 sends, stops, changes>>

\* All handlers are done.
Answer(q) ==
  /\ request[q].todo = {}
  /\ \/ request[q].pc = "dispatching" /\ Answered200(q)
     \/ request[q].pc = "failed" /\ Answered500(q)
  /\ UNCHANGED <<connection, active, serving, receipt, fired, unheard, bounds>>

\* The synchronisation of a push comes before the dispatch of its event.
PushFails(q) ==
  /\ request[q].pc = "accepted" /\ request[q].of \notin ManualDeliveries
  /\ failures < MaxFailures
  /\ failures' = failures + 1
  /\ Answered500(q)
  /\ UNCHANGED <<connection, active, serving, receipt, fired, unheard, sends, stops, changes>>

-----------------------------------------------------------------------------
(* The process and the organization *)

\* Sources stop first; what was accepted goes on.
StopSource ==
  /\ serving /\ stops < MaxStops
  /\ serving' = FALSE
  /\ stops' = stops + 1
  /\ UNCHANGED <<connection, active, receipt, fired, request, acked, unheard,
                 sends, failures, changes>>

\* The process dies and the sender gets no answer.
Crash ==
  /\ stops < MaxStops
  /\ serving' = FALSE
  /\ request' = [q \in Requests |-> NoRequest]
  /\ stops' = stops + 1
  /\ UNCHANGED <<connection, active, receipt, fired, acked, unheard, sends, failures, changes>>

StartSource ==
  /\ ~serving
  /\ serving' = TRUE
  /\ UNCHANGED <<connection, active, receipt, fired, request, acked, unheard, bounds>>

\* Another revision of a project is activated, or the project archived.
Activate(p, r) ==
  /\ changes < MaxChanges /\ r # active[p]
  /\ active' = [active EXCEPT ![p] = r]
  /\ changes' = changes + 1
  /\ UNCHANGED <<connection, serving, receipt, fired, request, acked, unheard,
                 sends, failures, stops>>

\* The connection is bound, suspended or removed (GitHubLifecycle).
Reconnect(c) ==
  /\ changes < MaxChanges /\ c # connection
  /\ connection' = c
  /\ changes' = changes + 1
  /\ UNCHANGED <<active, serving, receipt, fired, request, acked, unheard,
                 sends, failures, stops>>

Next ==
  \/ \E q \in Requests :
       \/ \E d \in Deliveries : Deliver(q, d)
       \/ Accept(q) \/ AcceptByHand(q) \/ Dispatch(q) \/ PushFails(q) \/ Answer(q)
       \/ \E w \in request[q].todo :
            Enqueue(q, w[1], w[2], w[3]) \/ EnqueueFails(q, w[1], w[2], w[3])
  \/ StopSource \/ Crash \/ StartSource
  \/ \E p \in Projects, r \in Revisions \cup {None} : Activate(p, r)
  \/ \E c \in {"none", "active", "suspended"} : Reconnect(c)

Spec == Init /\ [][Next]_vars

-----------------------------------------------------------------------------
(* Properties *)

\* However often and whenever a delivery is repeated, and whatever is activated
\* in between, its runs are those of the revisions it was first accepted for:
\* nothing runs of a delivery that was dropped, or of a project routed later.
RunsFollowSnapshot ==
  \A d \in Deliveries, p \in Projects, t \in Triggers :
    fired[<<d, p, t>>] # None =>
      /\ receipt[d].exists /\ receipt[d].routes[p] = fired[<<d, p, t>>]
      /\ t \in Fires[fired[<<d, p, t>>]]

\* A run that an accepted receipt asks for and that does not exist.
Owed(d) ==
  {x \in Projects \X Triggers :
     LET r == receipt[d].routes[x[1]] IN
     r # None /\ x[2] \in Fires[r] /\ fired[<<d, x[1], x[2]>>] = None}
MuteRoute(d) == \E p \in Projects : receipt[d].routes[p] # None /\ Fires[receipt[d].routes[p]] = {}

\* An answer of 200 means that all the runs of the accepted routes are in the
\* outbox, over failures, crashes and concurrent repetitions. The code makes two
\* exceptions: no handler was left to dispatch to, or a project without a match
\* had marked the receipt that all projects share.
AcknowledgedIsEnqueued ==
  \A d \in acked : Owed(d) = {} \/ d \in unheard \/ MuteRoute(d)
=============================================================================
