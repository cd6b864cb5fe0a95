--------------------------- MODULE ProviderProofs ----------------------------
(***************************************************************************)
(* What reaches the hub from outside, and what it is connected with: the   *)
(* events of providers, their connections, configurations deployed from a  *)
(* repository, and the daemons; proved for any number of each.             *)
(*                                                                         *)
(* ProviderEvents: the runs of a delivery are those of the routes that its *)
(* receipt holds, and none is missing once it is acknowledged. A receipt's *)
(* routes never change, so what a request still has to enqueue can be      *)
(* compared with them at any time: all of it is asked for by the receipt   *)
(* (TodoInv), and until a request fails it includes all that is missing    *)
(* (CoverInv).                                                             *)
(*                                                                         *)
(* ProviderConnections (prefix co): a binding is of the active application *)
(* and was made by an attempt of its own. LinearTokens (to): the row holds *)
(* the newest tokens of its connection, unless a crash or a lost answer    *)
(* took them.                                                              *)
(*                                                                         *)
(* ConfigurationRevisions (re): a deployment under way has read a head and *)
(* a revision that bound what it may write. DaemonRegistry (da): what is   *)
(* pending or recorded is of the socket that is registered.                *)
(*                                                                         *)
(* SlackSocket (so): the head of the queue is recorded before it is        *)
(* acknowledged, and one connection is open, the last. LinearIssues (li):  *)
(* what an event says of an issue is what the issue then was. EventRouting *)
(* (ro): a compiled filter says what its author did, of the connection     *)
(* that had the name then. TriggerMigration (tm): what is not migrated is  *)
(* still to do, and the names of a migration are new (by induction over    *)
(* the triggers it makes, TmNamesDiffer). AgentSupervision (su): the row   *)
(* has the deadline that the events say, one after another (SuSeenInv), and *)
(* what they say of a deadline is what those say that came before it       *)
(* (SuBeforeDeadline, by induction back over the events). GitHubLifecycle  *)
(* (gh): while its requests came one after another and none died, what one *)
(* has seen of GitHub is stale only if the event of the last change is yet *)
(* to be answered (GhEvidenceInv).                                         *)
(***************************************************************************)
EXTENDS ProviderEvents, Integers, Sequences, FiniteSets, FiniteSetTheorems,
        SequenceTheorems, WellFoundedInduction, TLAPS

CONSTANTS Legacy, Omitted

-----------------------------------------------------------------------------
(* Numbers: the least of a set of them, and induction for a set. *)

LEMMA Least ==
  ASSUME NEW T \in SUBSET Nat, T # {}
  PROVE  \E x \in T : \A y \in T : x <= y
<1>. DEFINE R == OpToRel(<, Nat)
<1>1. IsWellFoundedOn(R, Nat)
  BY NatLessThanWellFounded
<1>2. R = {ss \in Nat \X Nat : ss[1] < ss[2]}
  BY DEF OpToRel
<1>3. \A x, y \in Nat : <<x, y>> \in R <=> x < y
  BY <1>2
<1>. HIDE DEF R
<1>4. \E x \in T : \A y \in T : ~(<<y, x>> \in R)
  BY <1>1, WFMin
<1>5. PICK x \in T : \A y \in T : ~(<<y, x>> \in R)
  BY <1>4
<1>6. \A y \in T : x \in Nat /\ y \in Nat /\ ~(y < x)
  BY <1>3, <1>5
<1>. QED BY <1>5, <1>6

LEMMA Induction ==
  ASSUME NEW T \in SUBSET Nat, 0 \in T, \A n \in T : n + 1 \in T
  PROVE  T = Nat
<1>1. SUFFICES ASSUME Nat \ T # {} PROVE FALSE
  OBVIOUS
<1>2. PICK x \in Nat \ T : \A y \in Nat \ T : x <= y
  BY <1>1, Least
<1>3. x # 0 /\ x - 1 \in Nat /\ x - 1 \notin Nat \ T
  BY <1>2
<1>. QED BY <1>2, <1>3

-----------------------------------------------------------------------------
(* The invariant *)

RouteType == [Projects -> Revisions \cup {None}]
ReceiptType == [exists : BOOLEAN, dropped : BOOLEAN, routes : RouteType]
WorkType == Projects \X Revisions \X (Triggers \cup {None})
RequestType ==
  {r \in [pc : {"idle", "received", "accepted", "dispatching", "failed"},
          of : Deliveries \cup {None}, drop : BOOLEAN, todo : SUBSET WorkType] :
     r.pc # "idle" => r.of \in Deliveries}

TypeInv ==
  /\ connection \in {"none", "active", "suspended"} /\ serving \in BOOLEAN
  /\ active \in RouteType
  /\ receipt \in [Deliveries -> ReceiptType]
  /\ fired \in [Deliveries \X Projects \X Triggers -> Revisions \cup {None}]
  /\ acked \subseteq Deliveries /\ unheard \subseteq Deliveries
  /\ request \in [Requests -> RequestType]

\* What routes ask for.
AskedFor(routes, p, r, t) ==
  /\ p \in Projects /\ r = routes[p] /\ r # None
  /\ IF Fires[r] = {} THEN t = None ELSE t \in Fires[r]

Enqueuing == {"accepted", "dispatching", "failed"}

\* A request enqueues only what its delivery's receipt asks for.
TodoInv ==
  \A q \in Requests : request[q].pc \in Enqueuing =>
    /\ receipt[request[q].of].exists
    /\ \A w \in request[q].todo : AskedFor(receipt[request[q].of].routes, w[1], w[2], w[3])

\* A request that has not failed enqueues all that is missing.
CoverInv ==
  \A q \in Requests : request[q].pc \in {"accepted", "dispatching"} =>
    \A x \in Owed(request[q].of) :
      <<x[1], receipt[request[q].of].routes[x[1]], x[2]>> \in request[q].todo

\* What is answered has a receipt; one that was dropped asks for nothing, or is one
\* of the exceptions of AcknowledgedIsEnqueued.
ReceiptInv ==
  \A d \in Deliveries :
    /\ d \in acked => receipt[d].exists
    /\ receipt[d].dropped =>
         receipt[d].exists /\ (receipt[d].routes = NoRoutes \/ d \in unheard \/ MuteRoute(d))

IInv ==
  /\ TypeInv /\ TodoInv /\ CoverInv /\ ReceiptInv
  /\ RunsFollowSnapshot /\ AcknowledgedIsEnqueued

-----------------------------------------------------------------------------
(* Lemmas *)

\* Work is what the routes ask for.
LEMMA WorkIsAsked ==
  ASSUME EventsAssumption, NEW routes \in RouteType
  PROVE  /\ Work(routes) \subseteq WorkType
         /\ \A w \in Work(routes) : AskedFor(routes, w[1], w[2], w[3])
         /\ \A p, r, t : AskedFor(routes, p, r, t) => <<p, r, t>> \in Work(routes)
<1>. DEFINE Of(p) == LET r == routes[p] IN
                     IF r = None THEN {}
                     ELSE IF Fires[r] = {} THEN {<<p, r, None>>}
                     ELSE {<<p, r, t>> : t \in Fires[r]}
<1>1. Work(routes) = UNION {Of(p) : p \in Projects}
  BY DEF Work
<1>2. ASSUME NEW p \in Projects, NEW w \in Of(p)
      PROVE  w \in WorkType /\ AskedFor(routes, w[1], w[2], w[3])
  <2>1. routes[p] # None /\ routes[p] \in Revisions /\ Fires[routes[p]] \subseteq Triggers
    BY <1>2 DEF RouteType, EventsAssumption
  <2>2. CASE Fires[routes[p]] = {}
    BY <1>2, <2>1, <2>2 DEF WorkType, AskedFor
  <2>3. CASE Fires[routes[p]] # {}
    <3>1. PICK t \in Fires[routes[p]] : w = <<p, routes[p], t>>
      BY <1>2, <2>1, <2>3
    <3>. QED BY <2>1, <2>3, <3>1 DEF WorkType, AskedFor
  <2>. QED BY <2>2, <2>3
<1>3. ASSUME NEW p, NEW r, NEW t, AskedFor(routes, p, r, t)
      PROVE  p \in Projects /\ <<p, r, t>> \in Of(p)
  BY <1>3 DEF AskedFor
<1>. HIDE DEF Of
<1>. QED BY <1>1, <1>2, <1>3

\* What the actions write has the type of the variable.
LEMMA RequestWrites ==
  /\ NoRequest \in RequestType
  /\ \A d \in Deliveries, drop \in BOOLEAN :
       [pc |-> "received", of |-> d, drop |-> drop, todo |-> {}] \in RequestType
  /\ \A r \in RequestType : r.pc # "idle" =>
       /\ \A w \in SUBSET WorkType : [r EXCEPT !.pc = "accepted", !.todo = w] \in RequestType
       /\ [r EXCEPT !.pc = "dispatching"] \in RequestType
       /\ \A w : [r EXCEPT !.todo = @ \ {w}] \in RequestType
       /\ \A w : [r EXCEPT !.pc = "failed", !.todo = @ \ {w}] \in RequestType
BY DEF NoRequest, RequestType

\* An answered request leaves.
LEMMA Answers ==
  ASSUME TypeInv, NEW q \in Requests, request' = [request EXCEPT ![q] = NoRequest]
  PROVE  request' \in [Requests -> RequestType]
BY RequestWrites DEF TypeInv

\* Every step keeps the types.
LEMMA TypeStep ==
  ASSUME EventsAssumption, TypeInv, [Next]_vars
  PROVE  TypeInv'
<1>0. \A q \in Requests : request[q] \in RequestType /\ request[q].todo \subseteq WorkType
  BY DEF TypeInv, RequestType
<1>1. ASSUME NEW q \in Requests, NEW d \in Deliveries, Deliver(q, d) PROVE TypeInv'
  <2>1. [pc |-> "received", of |-> d, drop |-> ~serving, todo |-> {}] \in RequestType
    BY RequestWrites DEF TypeInv
  <2>. QED BY <1>1, <2>1 DEF Deliver, TypeInv
<1>2. ASSUME NEW q \in Requests, NEW routes \in RouteType, request[q].pc # "idle",
             request' = [request EXCEPT ![q].pc = "accepted", ![q].todo = Work(routes)]
      PROVE  request' \in [Requests -> RequestType]
  <2>1. [request[q] EXCEPT !.pc = "accepted", !.todo = Work(routes)] \in RequestType
    BY <1>0, <1>2, WorkIsAsked, RequestWrites
  <2>. QED BY <1>2, <2>1 DEF TypeInv
<1>3. ASSUME NEW q \in Requests, Accept(q) PROVE TypeInv'
  <2>1. request[q].of \in Deliveries /\ request[q].drop \in BOOLEAN /\ request[q].pc # "idle"
    BY <1>0, <1>3 DEF Accept, RequestType
  <2>2. receipt[request[q].of] \in ReceiptType /\ receipt[request[q].of].routes \in RouteType
    BY <2>1 DEF TypeInv, ReceiptType
  <2>3. request' \in [Requests -> RequestType] /\ acked' \subseteq Deliveries
    BY <1>2, <1>3, <2>1, <2>2, Answers
       DEF Accept, TypeInv, AnsweredUnbound, Answered200, Accepted, Replayed
  <2>4. NoRoutes \in RouteType
    BY DEF NoRoutes, RouteType
  <2>5. receipt' \in [Deliveries -> ReceiptType]
    <3>1. CASE receipt' = receipt
      BY <3>1 DEF TypeInv
    <3>2. CASE receipt' # receipt
      <4>1. PICK dropped \in BOOLEAN : receipt' = [receipt EXCEPT ![request[q].of] =
              [exists |-> TRUE, dropped |-> dropped,
               routes |-> IF dropped THEN NoRoutes ELSE active]]
        <5>1. (request[q].drop \/ connection = "suspended" \/ active = NoRoutes) \in BOOLEAN
          OBVIOUS
        <5>. QED BY <1>3, <3>2, <5>1 DEF Accept
      <4>. QED BY <2>1, <2>4, <4>1 DEF TypeInv, ReceiptType
    <3>. QED BY <3>1, <3>2
  <2>. QED BY <1>3, <2>3, <2>5 DEF Accept, TypeInv
<1>4. ASSUME NEW q \in Requests, AcceptByHand(q) PROVE TypeInv'
  <2>. DEFINE route == [NoRoutes EXCEPT ![ManualProject] = active[ManualProject]]
  <2>1. request[q].of \in Deliveries /\ request[q].pc # "idle"
    BY <1>0, <1>4 DEF AcceptByHand, RequestType
  <2>2. receipt[request[q].of] \in ReceiptType /\ receipt[request[q].of].routes \in RouteType
    BY <2>1 DEF TypeInv, ReceiptType
  <2>3. route \in RouteType
    BY DEF NoRoutes, RouteType, EventsAssumption, TypeInv
  <2>. HIDE DEF route
  <2>4. request' \in [Requests -> RequestType] /\ acked' \subseteq Deliveries
    BY <1>2, <1>4, <2>1, <2>2, <2>3, Answers
       DEF AcceptByHand, TypeInv, Answered500, Accepted, Replayed, route
  <2>5. receipt' \in [Deliveries -> ReceiptType]
    <3>1. [exists |-> TRUE, dropped |-> FALSE, routes |-> route] \in ReceiptType
      BY <2>3 DEF ReceiptType
    <3>. QED BY <1>4, <2>1, <3>1 DEF AcceptByHand, TypeInv, route
  <2>. QED BY <1>4, <2>4, <2>5 DEF AcceptByHand, TypeInv
<1>5. ASSUME NEW q \in Requests, Dispatch(q) PROVE TypeInv'
  <2>1. request[q].of \in Deliveries /\ request[q].pc # "idle"
    BY <1>0, <1>5 DEF Dispatch, RequestType
  <2>2. [request[q] EXCEPT !.pc = "dispatching"] \in RequestType
    BY <1>0, <2>1, RequestWrites
  <2>3. request' \in [Requests -> RequestType]
    BY <1>5, <2>2, Answers DEF Dispatch, TypeInv, Answered200
  <2>4. receipt' \in [Deliveries -> ReceiptType]
    <3>1. PICK dropped \in BOOLEAN :
            receipt' = receipt \/ receipt' = [receipt EXCEPT ![request[q].of].dropped = dropped]
      <4>1. (receipt[request[q].of].dropped \/ request[q].of \in ManualDeliveries) \in BOOLEAN
        OBVIOUS
      <4>. QED BY <1>5, <4>1 DEF Dispatch
    <3>. QED BY <2>1, <3>1 DEF TypeInv, ReceiptType
  <2>5. acked' \subseteq Deliveries /\ unheard' \subseteq Deliveries
    BY <1>5, <2>1 DEF Dispatch, TypeInv, Answered200
  <2>. QED BY <1>5, <2>3, <2>4, <2>5 DEF Dispatch, TypeInv
<1>6. ASSUME NEW q \in Requests, PushFails(q) \/ Answer(q) PROVE TypeInv'
  <2>1. request[q].of \in Deliveries
    BY <1>0, <1>6 DEF PushFails, Answer, RequestType
  <2>. QED BY <1>6, <2>1, Answers DEF PushFails, Answer, TypeInv, Answered500, Answered200, bounds
<1>7. ASSUME NEW q \in Requests, NEW p, NEW r, NEW t, Enqueue(q, p, r, t) PROVE TypeInv'
  <2>1. request[q].of \in Deliveries /\ request[q].pc # "idle" /\ <<p, r, t>> \in WorkType
    BY <1>0, <1>7 DEF Enqueue, RequestType
  <2>2. [request[q] EXCEPT !.todo = @ \ {<<p, r, t>>}] \in RequestType
    BY <1>0, <2>1, RequestWrites
  <2>3. request' \in [Requests -> RequestType]
    BY <1>7, <2>2 DEF Enqueue, TypeInv
  <2>4. receipt' \in [Deliveries -> ReceiptType]
    <3>1. \/ UNCHANGED receipt
          \/ receipt' = [receipt EXCEPT ![request[q].of].dropped = TRUE]
      BY <1>7 DEF Enqueue
    <3>. QED BY <2>1, <3>1 DEF TypeInv, ReceiptType
  <2>5. p \in Projects /\ r \in Revisions /\ (t # None => t \in Triggers)
    BY <2>1 DEF WorkType
  <2>6. fired' \in [Deliveries \X Projects \X Triggers -> Revisions \cup {None}]
    <3>1. CASE t = None
      BY <1>7, <3>1 DEF Enqueue, TypeInv
    <3>2. CASE t # None
      <4>1. PICK d : d = <<request[q].of, p, t>>
        OBVIOUS
      <4>2. d \in Deliveries \X Projects \X Triggers
        BY <2>1, <2>5, <3>2, <4>1
      <4>3. fired' = [fired EXCEPT ![d] = IF @ = None THEN r ELSE @]
        BY <1>7, <3>2, <4>1 DEF Enqueue
      <4>. QED BY <2>5, <4>2, <4>3 DEF TypeInv
    <3>. QED BY <3>1, <3>2
  <2>. QED BY <1>7, <2>3, <2>4, <2>6 DEF Enqueue, TypeInv
<1>8. ASSUME NEW q \in Requests, NEW p, NEW r, NEW t, EnqueueFails(q, p, r, t) PROVE TypeInv'
  <2>1. request[q].pc # "idle"
    BY <1>8 DEF EnqueueFails
  <2>2. [request[q] EXCEPT !.pc = "failed", !.todo = @ \ {<<p, r, t>>}] \in RequestType
    BY <1>0, <2>1, RequestWrites
  <2>. QED BY <1>8, <2>2 DEF EnqueueFails, TypeInv
<1>9. CASE StopSource \/ StartSource \/ \E c \in {"none", "active", "suspended"} : Reconnect(c)
  BY <1>9 DEF StopSource, StartSource, Reconnect, TypeInv
<1>10. CASE Crash
  BY <1>10, RequestWrites DEF Crash, TypeInv
<1>11. ASSUME NEW p \in Projects, NEW r \in Revisions \cup {None}, Activate(p, r) PROVE TypeInv'
  BY <1>11 DEF Activate, TypeInv, RouteType
<1>12. CASE UNCHANGED vars
  BY <1>12 DEF vars, TypeInv
<1>. QED BY <1>1, <1>3, <1>4, <1>5, <1>6, <1>7, <1>8, <1>9, <1>10, <1>11, <1>12 DEF Next

-----------------------------------------------------------------------------
(* What a step does to receipts, runs and requests *)

\* What was accepted, enqueued or answered stays so.
Grows ==
  /\ \A d \in Deliveries : receipt[d].exists =>
       receipt'[d].exists /\ receipt'[d].routes = receipt[d].routes
  /\ unheard \subseteq unheard'
  /\ \A x \in Deliveries \X Projects \X Triggers :
       fired'[x] = fired[x] \/
         /\ fired[x] = None /\ receipt[x[1]].exists
         /\ AskedFor(receipt[x[1]].routes, x[2], fired'[x], x[3])

\* A receipt is dropped without routes, without a handler or for a project without a match.
Drops ==
  \A d \in Deliveries : receipt'[d].dropped =>
    \/ receipt[d].dropped
    \/ receipt'[d].exists /\ (receipt'[d].routes = NoRoutes \/ d \in unheard' \/ MuteRoute(d)')

\* A request loses of its work what it enqueues, unless it fails or accepts a receipt.
Works(q) ==
  request'[q].pc \in Enqueuing =>
    LET d == request'[q].of IN
    \/ /\ request[q].pc \in Enqueuing /\ d = request[q].of
       /\ request'[q].todo \subseteq request[q].todo
       /\ request'[q].pc \in {"accepted", "dispatching"} =>
            /\ request[q].pc \in {"accepted", "dispatching"}
            /\ \A p \in Projects, r \in Revisions, t \in Triggers :
                 <<p, r, t>> \in request[q].todo \ request'[q].todo => fired'[<<d, p, t>>] # None
    \/ receipt'[d].exists /\ request'[q].todo = Work(receipt'[d].routes)

\* What is answered is enqueued, dropped, or heard by nobody.
Answering ==
  \A d \in acked' :
    \/ d \in acked
    \/ /\ receipt'[d].exists
       /\ \/ receipt'[d].dropped \/ d \in unheard'
          \/ \E q \in Requests :
               request[q].pc = "dispatching" /\ request[q].of = d /\ request[q].todo = {}

Moves == Grows /\ Drops /\ Answering /\ \A q \in Requests : Works(q)

\* A step that leaves receipts, runs and answers alone, and only makes requests leave,
\* or none at all.
LEMMA Rests ==
  ASSUME TypeInv, UNCHANGED <<receipt, fired, acked, unheard>>,
         \A q \in Requests : request'[q] = request[q] \/ request'[q].pc \notin Enqueuing
  PROVE  Moves
BY DEF Moves, Grows, Drops, Answering, Works

\* Every step is such a move.
LEMMA StepMoves ==
  ASSUME EventsAssumption, TypeInv, TypeInv', TodoInv, ReceiptInv, [Next]_vars
  PROVE  Moves
<1>0. \A q \in Requests : request[q] \in RequestType /\ request[q].todo \subseteq WorkType
  BY DEF TypeInv, RequestType
<1>1. ASSUME NEW q \in Requests, NEW d \in Deliveries, Deliver(q, d) PROVE Moves
  BY <1>1, Rests DEF Deliver, TypeInv, Enqueuing
<1>2. ASSUME NEW q \in Requests, PushFails(q) PROVE Moves
  BY <1>2, Rests DEF PushFails, Answered500, TypeInv, Enqueuing, NoRequest
<1>3. CASE \/ StopSource \/ Crash \/ StartSource
           \/ \E p \in Projects, r \in Revisions \cup {None} : Activate(p, r)
           \/ \E c \in {"none", "active", "suspended"} : Reconnect(c)
           \/ UNCHANGED vars
  BY <1>3, Rests DEF StopSource, Crash, StartSource, Activate, Reconnect, vars, Enqueuing, NoRequest
<1>4. ASSUME NEW q \in Requests, Accept(q) PROVE Moves
  <2>. PICK d : d = request[q].of
    OBVIOUS
  <2>1. d \in Deliveries /\ request[q].pc = "received"
    BY <1>0, <1>4 DEF Accept, RequestType
  <2>2. receipt[d] \in ReceiptType /\ \A e \in Deliveries \ {d} : receipt'[e] = receipt[e]
    BY <1>4, <2>1 DEF Accept, TypeInv
  <2>3. receipt[d].exists => receipt' = receipt
    BY <1>4 DEF Accept
  <2>4. receipt'[d] # receipt[d] =>
          receipt'[d].exists /\ (receipt'[d].dropped => receipt'[d].routes = NoRoutes)
    <3>. SUFFICES ASSUME receipt'[d] # receipt[d]
                  PROVE  receipt'[d].exists /\ (receipt'[d].dropped => receipt'[d].routes = NoRoutes)
      OBVIOUS
    <3>1. PICK dropped : receipt' = [receipt EXCEPT ![d] =
            [exists |-> TRUE, dropped |-> dropped, routes |-> IF dropped THEN NoRoutes ELSE active]]
      BY <1>4, <2>1 DEF Accept
    <3>. QED BY <2>1, <3>1 DEF TypeInv
  <2>5. Grows /\ Drops
    BY <1>4, <2>1, <2>2, <2>3, <2>4 DEF Accept, Grows, Drops
  <2>6. acked' = acked \/ (acked' = acked \cup {d} /\ receipt'[d].exists /\ receipt'[d].dropped)
    <3>1. CASE receipt[d].exists \/ connection = "none"
      BY <1>4, <2>1, <3>1 DEF Accept, Answered200, AnsweredUnbound, Accepted
    <3>2. CASE ~receipt[d].exists /\ connection # "none"
      <4>1. PICK dropped :
              /\ receipt' = [receipt EXCEPT ![d] =
                   [exists |-> TRUE, dropped |-> dropped, routes |-> IF dropped THEN NoRoutes ELSE active]]
              /\ acked' = acked \/ (acked' = acked \cup {d} /\ dropped)
        <5>1. PICK dropped : dropped = (request[q].drop \/ connection = "suspended" \/ active = NoRoutes)
          OBVIOUS
        <5>. QED BY <1>4, <3>2, <5>1 DEF Accept, Answered200, Accepted
      <4>. QED BY <2>1, <4>1 DEF TypeInv
    <3>. QED BY <3>1, <3>2
  <2>7. \/ request' = [request EXCEPT ![q] = NoRequest]
        \/ /\ request' = [request EXCEPT ![q].pc = "accepted", ![q].todo = Work(receipt'[d].routes)]
           /\ receipt'[d].exists
    <3>1. CASE receipt[d].exists \/ connection = "none"
      BY <1>4, <2>1, <3>1 DEF Accept, Answered200, AnsweredUnbound, Accepted, Replayed
    <3>2. CASE ~receipt[d].exists /\ connection # "none"
      BY <1>4, <2>1, <3>2 DEF Accept, Answered200, Accepted, TypeInv
    <3>. QED BY <3>1, <3>2
  <2>8. \A x \in Requests : Works(x)
    BY <2>1, <2>7 DEF Works, TypeInv, NoRequest, Enqueuing, RequestType
  <2>. QED BY <1>4, <2>5, <2>6, <2>8 DEF Moves, Answering
<1>5. ASSUME NEW q \in Requests, AcceptByHand(q) PROVE Moves
  <2>. PICK d : d = request[q].of
    OBVIOUS
  <2>1. d \in Deliveries /\ request[q].pc = "received" /\ receipt[d] \in ReceiptType
    BY <1>0, <1>5 DEF AcceptByHand, RequestType, TypeInv
  <2>2. /\ \A e \in Deliveries \ {d} : receipt'[e] = receipt[e]
        /\ receipt'[d] = receipt[d] \/ (~receipt[d].exists /\ receipt'[d].exists /\ ~receipt'[d].dropped)
    BY <1>5, <2>1 DEF AcceptByHand, TypeInv
  <2>3. Grows /\ Drops
    BY <1>5, <2>1, <2>2 DEF AcceptByHand, Grows, Drops
  <2>4. acked' = acked
    BY <1>5 DEF AcceptByHand, Accepted, Answered500
  <2>5. \/ request' = [request EXCEPT ![q] = NoRequest]
        \/ /\ request' = [request EXCEPT ![q].pc = "accepted", ![q].todo = Work(receipt'[d].routes)]
           /\ receipt'[d].exists
    <3>1. CASE receipt[d].exists \/ active[ManualProject] = None
      BY <1>5, <2>1, <3>1 DEF AcceptByHand, Accepted, Answered500, Replayed
    <3>2. CASE ~receipt[d].exists /\ active[ManualProject] # None
      <4>. PICK route : route = [NoRoutes EXCEPT ![ManualProject] = active[ManualProject]]
        OBVIOUS
      <4>1. /\ request' = [request EXCEPT ![q].pc = "accepted", ![q].todo = Work(route)]
            /\ receipt' = [receipt EXCEPT ![d] = [exists |-> TRUE, dropped |-> FALSE, routes |-> route]]
        BY <1>5, <3>2 DEF AcceptByHand, Accepted
      <4>. QED BY <2>1, <4>1 DEF TypeInv
    <3>. QED BY <3>1, <3>2
  <2>6. \A x \in Requests : Works(x)
    BY <2>1, <2>5 DEF Works, TypeInv, NoRequest, Enqueuing, RequestType
  <2>. QED BY <1>5, <2>3, <2>4, <2>6 DEF Moves, Answering
<1>6. ASSUME NEW q \in Requests, Dispatch(q) PROVE Moves
  <2>. PICK d : d = request[q].of
    OBVIOUS
  <2>1. d \in Deliveries /\ receipt[d] \in ReceiptType /\ receipt[d].exists
    BY <1>0, <1>6 DEF Dispatch, RequestType, TypeInv, TodoInv, Enqueuing
  <2>2. /\ \A e \in Deliveries \ {d} : receipt'[e] = receipt[e]
        /\ receipt'[d].exists = receipt[d].exists /\ receipt'[d].routes = receipt[d].routes
        /\ receipt' = receipt \/ d \in unheard'
    <3>1. PICK dropped : \/ receipt' = receipt
                         \/ d \in unheard' /\ receipt' = [receipt EXCEPT ![d].dropped = dropped]
      <4>1. PICK dropped : dropped = (receipt[d].dropped \/ d \in ManualDeliveries)
        OBVIOUS
      <4>. QED BY <1>6, <4>1 DEF Dispatch
    <3>2. ASSUME NEW x, receipt' = [receipt EXCEPT ![d].dropped = x]
          PROVE  /\ \A e \in Deliveries \ {d} : receipt'[e] = receipt[e]
                 /\ receipt'[d].exists = receipt[d].exists /\ receipt'[d].routes = receipt[d].routes
      <4>1. receipt'[d] = [receipt[d] EXCEPT !.dropped = x]
        BY <2>1, <3>2 DEF TypeInv
      <4>. QED BY <2>1, <3>2, <4>1 DEF TypeInv, ReceiptType
    <3>. QED BY <3>1, <3>2
  <2>3. unheard \subseteq unheard' /\ (acked' = acked \/ (acked' = acked \cup {d} /\ d \in unheard'))
    BY <1>6, <2>1 DEF Dispatch, Answered200
  <2>4. Grows /\ Drops
    BY <1>6, <2>1, <2>2, <2>3 DEF Dispatch, Grows, Drops
  <2>5. \A x \in Requests : Works(x)
    BY <1>6, <2>1 DEF Dispatch, Answered200, Works, TypeInv, NoRequest, Enqueuing, RequestType
  <2>. QED BY <2>1, <2>2, <2>3, <2>4, <2>5 DEF Moves, Answering
<1>7. ASSUME NEW q \in Requests, NEW p, NEW r, NEW t, Enqueue(q, p, r, t) PROVE Moves
  <2>. PICK d : d = request[q].of
    OBVIOUS
  <2>1. /\ d \in Deliveries /\ receipt[d] \in ReceiptType /\ receipt[d].exists
        /\ <<p, r, t>> \in WorkType /\ AskedFor(receipt[d].routes, p, r, t)
    <3>1. request[q].pc \in Enqueuing /\ d \in Deliveries /\ <<p, r, t>> \in request[q].todo
      BY <1>0, <1>7 DEF Enqueue, RequestType, Enqueuing
    <3>2. AskedFor(receipt[d].routes, <<p, r, t>>[1], <<p, r, t>>[2], <<p, r, t>>[3])
      BY <3>1 DEF TodoInv
    <3>. QED BY <1>0, <3>1, <3>2 DEF TypeInv, TodoInv
  <2>2. p \in Projects /\ r \in Revisions /\ (t = None \/ t \in Triggers) /\ Fires[r] \subseteq Triggers
    BY <2>1 DEF WorkType, EventsAssumption
  <2>3. /\ \A e \in Deliveries \ {d} : receipt'[e] = receipt[e]
        /\ receipt'[d].exists = receipt[d].exists /\ receipt'[d].routes = receipt[d].routes
        /\ receipt' = receipt \/ t = None
    <3>1. receipt' = receipt \/ (t = None /\ receipt' = [receipt EXCEPT ![d].dropped = TRUE])
      BY <1>7 DEF Enqueue
    <3>2. ASSUME NEW x, receipt' = [receipt EXCEPT ![d].dropped = x]
          PROVE  /\ \A e \in Deliveries \ {d} : receipt'[e] = receipt[e]
                 /\ receipt'[d].exists = receipt[d].exists /\ receipt'[d].routes = receipt[d].routes
      <4>1. receipt'[d] = [receipt[d] EXCEPT !.dropped = x]
        BY <2>1, <3>2 DEF TypeInv
      <4>. QED BY <2>1, <3>2, <4>1 DEF TypeInv, ReceiptType
    <3>. QED BY <3>1, <3>2
  <2>4. t = None => MuteRoute(d)'
    <3>. SUFFICES ASSUME t = None PROVE receipt[d].routes[p] # None /\ Fires[receipt[d].routes[p]] = {}
      BY <2>2, <2>3 DEF MuteRoute
    <3>. QED BY <2>1, <2>2 DEF AskedFor, EventsAssumption
  <2>5. \A x \in Deliveries \X Projects \X Triggers :
          fired'[x] = fired[x] \/ (x = <<d, p, t>> /\ fired[x] = None /\ fired'[x] = r)
    BY <1>7, <2>1, <2>2 DEF Enqueue, TypeInv
  <2>6. Grows
    <3>1. UNCHANGED unheard
      BY <1>7 DEF Enqueue
    <3>2. \A e \in Deliveries : receipt'[e].exists = receipt[e].exists /\ receipt'[e].routes = receipt[e].routes
      BY <2>3
    <3>3. ASSUME NEW x \in Deliveries \X Projects \X Triggers, fired'[x] # fired[x]
          PROVE  /\ fired[x] = None /\ receipt[x[1]].exists
                 /\ AskedFor(receipt[x[1]].routes, x[2], fired'[x], x[3])
      <4>1. x = <<d, p, t>> /\ fired[x] = None /\ fired'[x] = r
        BY <2>5, <3>3
      <4>2. x[1] = d /\ x[2] = p /\ x[3] = t
        BY <4>1
      <4>. QED BY <2>1, <4>1, <4>2
    <3>. QED BY <3>1, <3>2, <3>3 DEF Grows
  <2>7. Drops
    BY <1>7, <2>1, <2>3, <2>4 DEF Drops
  <2>8. t # None => fired'[<<d, p, t>>] # None
    BY <1>7, <2>1, <2>2 DEF Enqueue, TypeInv, EventsAssumption
  <2>9. \A x \in Requests \ {q} : request'[x] = request[x]
    BY <1>7 DEF Enqueue, TypeInv
  <2>10. /\ request'[q].pc = request[q].pc /\ request'[q].of = d
         /\ request'[q].todo = request[q].todo \ {<<p, r, t>>}
    BY <1>0, <1>7 DEF Enqueue, TypeInv, RequestType
  <2>11. \A x \in Requests : Works(x)
    <3>1. Works(q)
      BY <2>8, <2>10, <2>2 DEF Works, EventsAssumption
    <3>. QED BY <2>9, <3>1 DEF Works
  <2>. QED BY <1>7, <2>6, <2>7, <2>11 DEF Moves, Answering, Enqueue
<1>8. ASSUME NEW q \in Requests, NEW p, NEW r, NEW t, EnqueueFails(q, p, r, t) PROVE Moves
  <2>1. UNCHANGED <<receipt, fired, acked, unheard>>
    BY <1>8 DEF EnqueueFails
  <2>2. \A x \in Requests : Works(x)
    BY <1>0, <1>8 DEF EnqueueFails, Works, TypeInv, Enqueuing, RequestType
  <2>. QED BY <2>1, <2>2 DEF Moves, Grows, Drops, Answering
<1>9. ASSUME NEW q \in Requests, Answer(q) PROVE Moves
  <2>1. UNCHANGED <<receipt, fired, unheard>> /\ request[q].todo = {}
    BY <1>9 DEF Answer
  <2>2. \A x \in Requests : Works(x)
    BY <1>9 DEF Answer, Answered200, Answered500, Works, TypeInv, Enqueuing, NoRequest
  <2>3. \/ acked' = acked
        \/ acked' = acked \cup {request[q].of} /\ request[q].pc = "dispatching"
    BY <1>9 DEF Answer, Answered200, Answered500
  <2>4. request[q].pc = "dispatching" => receipt[request[q].of].exists
    BY DEF TodoInv, Enqueuing
  <2>. QED BY <2>1, <2>2, <2>3, <2>4 DEF Moves, Grows, Drops, Answering
<1>. QED BY <1>1, <1>2, <1>3, <1>4, <1>5, <1>6, <1>7, <1>8, <1>9 DEF Next

-----------------------------------------------------------------------------
(* The invariant is inductive *)

\* What is missing was missing before, unless the receipt is new.
LEMMA OwedBefore ==
  ASSUME Grows, EventsAssumption, TypeInv', NEW d \in Deliveries, receipt[d].exists
  PROVE  Owed(d)' \subseteq Owed(d)
BY DEF Grows, Owed, TypeInv, EventsAssumption, AskedFor

\* Nothing is missing of a receipt without routes.
LEMMA NothingOwed ==
  ASSUME NEW d \in Deliveries, receipt[d].routes = NoRoutes
  PROVE  Owed(d) = {}
BY DEF Owed, NoRoutes

\* What every step is, in the terms of the invariant, keeps it.
LEMMA MovesKeep ==
  ASSUME EventsAssumption, IInv, TypeInv', Moves
  PROVE  IInv'
<1>0. \A q \in Requests : request'[q].pc \in Enqueuing =>
        /\ request'[q].of \in Deliveries
        /\ receipt'[request'[q].of].routes \in RouteType
  BY DEF TypeInv, RequestType, ReceiptType, Enqueuing
<1>1. TodoInv'
  <2>. SUFFICES ASSUME NEW q \in Requests, request'[q].pc \in Enqueuing,
                       NEW d, d = request'[q].of
                PROVE  /\ receipt'[d].exists
                       /\ \A w \in request'[q].todo :
                            AskedFor(receipt'[d].routes, w[1], w[2], w[3])
    BY DEF TodoInv, AskedFor
  <2>1. CASE receipt'[d].exists /\ request'[q].todo = Work(receipt'[d].routes)
    BY <1>0, <2>1, WorkIsAsked
  <2>2. CASE /\ request[q].pc \in Enqueuing /\ d = request[q].of
             /\ request'[q].todo \subseteq request[q].todo
    <3>1. receipt[d].exists /\ \A w \in request[q].todo : AskedFor(receipt[d].routes, w[1], w[2], w[3])
      BY <2>2 DEF IInv, TodoInv
    <3>2. receipt'[d].exists /\ receipt'[d].routes = receipt[d].routes
      BY <1>0, <3>1 DEF Moves, Grows
    <3>. QED BY <2>2, <3>1, <3>2
  <2>. QED BY <2>1, <2>2 DEF Moves, Works
<1>2. CoverInv'
  <2>. SUFFICES ASSUME NEW q \in Requests, request'[q].pc \in {"accepted", "dispatching"},
                       NEW d, d = request'[q].of, NEW p \in Projects, NEW t \in Triggers,
                       <<p, t>> \in Owed(d)'
                PROVE  <<p, receipt'[d].routes[p], t>> \in request'[q].todo
    BY DEF CoverInv, Owed
  <2>1. d \in Deliveries /\ receipt'[d].routes \in RouteType /\ request'[q].pc \in Enqueuing
    BY <1>0 DEF Enqueuing
  <2>2. /\ receipt'[d].routes[p] # None /\ t \in Fires[receipt'[d].routes[p]]
        /\ fired'[<<d, p, t>>] = None
    BY DEF Owed
  <2>3. CASE receipt'[d].exists /\ request'[q].todo = Work(receipt'[d].routes)
    <3>1. AskedFor(receipt'[d].routes, p, receipt'[d].routes[p], t)
      BY <2>2 DEF AskedFor
    <3>. QED BY <2>1, <2>3, <3>1, WorkIsAsked
  <2>4. CASE /\ request[q].pc \in {"accepted", "dispatching"} /\ d = request[q].of
             /\ \A v \in Projects, r \in Revisions, u \in Triggers :
                  <<v, r, u>> \in request[q].todo \ request'[q].todo => fired'[<<d, v, u>>] # None
    <3>1. receipt[d].exists
      BY <2>4 DEF IInv, TodoInv, Enqueuing
    <3>2. receipt'[d].routes = receipt[d].routes /\ <<p, t>> \in Owed(d)
      BY <2>1, <3>1, OwedBefore DEF Moves, Grows
    <3>3. <<p, receipt[d].routes[p], t>> \in request[q].todo
      BY <2>4, <3>2 DEF IInv, CoverInv
    <3>4. receipt'[d].routes[p] \in Revisions
      BY <2>1, <2>2 DEF RouteType
    <3>. QED BY <2>2, <2>4, <3>2, <3>3, <3>4
  <2>. QED BY <2>1, <2>3, <2>4 DEF Moves, Works
<1>3. ReceiptInv'
  <2>. SUFFICES ASSUME NEW d \in Deliveries
                PROVE  /\ d \in acked' => receipt'[d].exists
                       /\ receipt'[d].dropped =>
                            /\ receipt'[d].exists
                            /\ receipt'[d].routes = NoRoutes \/ d \in unheard' \/ MuteRoute(d)'
    BY DEF ReceiptInv
  <2>1. d \in acked' => receipt'[d].exists
    BY DEF Moves, Answering, Grows, IInv, ReceiptInv
  <2>2. ASSUME receipt[d].dropped
        PROVE  /\ receipt'[d].exists
               /\ receipt'[d].routes = NoRoutes \/ d \in unheard' \/ MuteRoute(d)'
    BY <2>2 DEF Moves, Grows, IInv, ReceiptInv, MuteRoute
  <2>. QED BY <2>1, <2>2 DEF Moves, Drops
<1>4. RunsFollowSnapshot'
  <2>. SUFFICES ASSUME NEW d \in Deliveries, NEW p \in Projects, NEW t \in Triggers,
                       NEW r, r = fired'[<<d, p, t>>], r # None
                PROVE  receipt'[d].exists /\ receipt'[d].routes[p] = r /\ t \in Fires[r]
    BY DEF RunsFollowSnapshot
  <2>1. receipt[d].exists /\ receipt[d].routes[p] = r /\ t \in Fires[r]
    <3>1. CASE fired[<<d, p, t>>] = r
      BY <3>1 DEF IInv, RunsFollowSnapshot
    <3>2. CASE receipt[d].exists /\ AskedFor(receipt[d].routes, p, r, t)
      BY <3>2 DEF AskedFor, EventsAssumption
    <3>. QED BY <3>1, <3>2 DEF Moves, Grows
  <2>. QED BY <2>1 DEF Moves, Grows
<1>5. AcknowledgedIsEnqueued'
  <2>. SUFFICES ASSUME NEW d \in acked', d \notin unheard', ~MuteRoute(d)'
                PROVE  Owed(d)' = {}
    BY DEF AcknowledgedIsEnqueued
  <2>0. d \in Deliveries
    BY DEF TypeInv
  <2>1. CASE receipt'[d].dropped
    BY <1>3, <2>0, <2>1, NothingOwed DEF ReceiptInv, Owed, NoRoutes
  <2>2. CASE d \in acked
    <3>1. receipt[d].exists /\ receipt'[d].routes = receipt[d].routes /\ d \notin unheard
      BY <2>0, <2>2 DEF IInv, ReceiptInv, Moves, Grows
    <3>2. Owed(d) = {}
      BY <2>2, <3>1 DEF IInv, AcknowledgedIsEnqueued, MuteRoute
    <3>. QED BY <2>0, <3>1, <3>2, OwedBefore DEF Moves
  <2>3. ASSUME NEW q \in Requests, request[q].pc = "dispatching", request[q].of = d,
               request[q].todo = {}
        PROVE  Owed(d)' = {}
    <3>1. receipt[d].exists /\ Owed(d) = {}
      BY <2>3 DEF IInv, TodoInv, CoverInv, Enqueuing
    <3>. QED BY <2>0, <3>1, OwedBefore DEF Moves
  <2>. QED BY <2>1, <2>2, <2>3 DEF Moves, Answering
<1>. QED BY <1>1, <1>2, <1>3, <1>4, <1>5 DEF IInv

\* Nothing is accepted at the start.
LEMMA Initially ==
  ASSUME Init
  PROVE  IInv
<1>1. receipt \in [Deliveries -> ReceiptType] /\ request \in [Requests -> RequestType]
  BY RequestWrites DEF Init, NoReceipt, ReceiptType, NoRoutes, RouteType
<1>2. TypeInv
  BY <1>1 DEF Init, TypeInv, RouteType
<1>3. TodoInv /\ CoverInv /\ ReceiptInv /\ RunsFollowSnapshot /\ AcknowledgedIsEnqueued
  BY DEF Init, TodoInv, CoverInv, ReceiptInv, RunsFollowSnapshot, AcknowledgedIsEnqueued,
         Enqueuing, NoRequest, NoReceipt
<1>. QED BY <1>2, <1>3 DEF IInv

\* Every step keeps IInv.
LEMMA Inductive ==
  ASSUME EventsAssumption, IInv, [Next]_vars
  PROVE  IInv'
BY TypeStep, StepMoves, MovesKeep DEF IInv

\* The inductive invariant holds in every reachable state.
LEMMA Invariance ==
  ASSUME EventsAssumption
  PROVE  Spec => []IInv
BY Initially, Inductive, PTL DEF Spec

LEMMA Typed ==
  ASSUME IInv
  PROVE  TypeOK
BY DEF IInv, TypeInv, TypeOK, RouteType, ReceiptType, RequestType, WorkType

\* Every variable has its type (rows of providerEventReceipts and triggerRuns,
\* src/src/db/schema.ts).
THEOREM TypeCorrect ==
  ASSUME EventsAssumption
  PROVE  Spec => []TypeOK
<1>1. IInv => TypeOK
  BY Typed
<1>. QED BY <1>1, Invariance, PTL

\* However often, and however concurrently with changes, a delivery is repeated, its
\* runs are those of the routes it was first accepted for
\* (acceptProvider, src/src/db/trigger-acceptance.ts).
THEOREM RunsFollowReceipts ==
  ASSUME EventsAssumption
  PROVE  Spec => []RunsFollowSnapshot
<1>1. IInv => RunsFollowSnapshot
  BY DEF IInv
<1>. QED BY <1>1, Invariance, PTL

\* A delivery that is answered 200 has all the runs of its routes, over failures,
\* crashes and concurrent repetitions (acceptProvider, src/src/db/trigger-acceptance.ts,
\* and the enqueue of src/src/workflows/engine.ts).
THEOREM NothingAcknowledgedIsMissing ==
  ASSUME EventsAssumption
  PROVE  Spec => []AcknowledgedIsEnqueued
<1>1. IInv => AcknowledgedIsEnqueued
  BY DEF IInv
<1>. QED BY <1>1, Invariance, PTL

-----------------------------------------------------------------------------
(* Provider connections *)

CONSTANTS coApps, coOrganizations, coExternals, coAttempts, coCallbacks,
          coFlows, coMaxVersion, coMaxStarts, coMaxChanges
VARIABLES coFlow, coConfig, coActivation, coBinding, coAuthority, coAttempt,
          coCallback, coStartup, coBound, coStarts, coChanges

Co == INSTANCE ProviderConnections WITH
    Apps <- coApps, Organizations <- coOrganizations,
    Externals <- coExternals, Attempts <- coAttempts,
    Callbacks <- coCallbacks, Flows <- coFlows, MaxVersion <- coMaxVersion,
    MaxStarts <- coMaxStarts, MaxChanges <- coMaxChanges, flow <- coFlow,
    config <- coConfig, activation <- coActivation, binding <- coBinding,
    authority <- coAuthority, attempt <- coAttempt, callback <- coCallback,
    startup <- coStartup, bound <- coBound, starts <- coStarts,
    changes <- coChanges

CoAttemptType ==
  [phase : {"none", "setup", "authorization", "consumed"}, org : coOrganizations \cup {None},
   app : coApps \cup {None}, version : Nat, activates : BOOLEAN, candidate : coExternals \cup {None}]

CoCallbackType ==
  {Co!NoCallback} \cup [pc : {"read", "verified"}, of : coAttempts,
                     phase : {"setup", "authorization"}, ext : coExternals]

\* The attempts, callbacks and start-ups are in the form the program gives them.
CoFormInv ==
  /\ coAttempt \in [coAttempts -> CoAttemptType]
  /\ coCallback \in [coCallbacks -> CoCallbackType]
  /\ coStartup \in [pc : {"idle", "read", "claimed"}, app : coApps \cup {None}, version : 0..coMaxVersion]
  /\ coStarts \in 0..coMaxStarts
  /\ \A a \in coAttempts : coAttempt[a].phase # "none" => coStarts > 0

\* What has bound is consumed.
CoBoundInv ==
  \A a \in coAttempts :
    coBound[a] = 0 \/ (coBound[a] = 1 /\ coAttempt[a].phase = "consumed")

CoIInv == Co!TypeOK /\ CoFormInv /\ CoBoundInv /\ Co!BoundToActiveApplication

-----------------------------------------------------------------------------
LEMMA CoInitially ==
  ASSUME Co!ConnectionsAssumption, Co!Init
  PROVE  CoIInv
<1>1. 0 \in 0..coMaxVersion /\ 0 \in 0..coMaxStarts /\ 0 \in Nat
  BY DEF Co!ConnectionsAssumption
<1>2. Co!NoVersion \in [app : coApps \cup {None}, version : 0..coMaxVersion] /\ Co!NoVersion.app = None
  BY <1>1 DEF Co!NoVersion
<1>3. /\ Co!NoAttempt \in CoAttemptType /\ Co!NoAttempt.phase = "none"
      /\ Co!NoCallback \in CoCallbackType /\ Co!NoCallback.pc = "idle"
  BY <1>1 DEF Co!NoAttempt, CoAttemptType, CoCallbackType, Co!NoCallback
<1>4. Co!Idle \in [pc : {"idle", "read", "claimed"}, app : coApps \cup {None}, version : 0..coMaxVersion] /\ Co!Idle.pc = "idle"
  BY <1>1 DEF Co!Idle
<1>5. coBinding \in [coExternals -> [org : coOrganizations \cup {None}, app : coApps \cup {Legacy, None}]]
  BY DEF Co!Init, Co!Unbound
<1>6. Co!TypeOK
  BY <1>1, <1>2, <1>3, <1>4, <1>5 DEF Co!Init, Co!TypeOK
<1>7. CoFormInv
  BY <1>1, <1>3, <1>4 DEF Co!Init, CoFormInv
<1>8. CoBoundInv /\ Co!BoundToActiveApplication
  BY <1>2 DEF Co!Init, CoBoundInv, Co!BoundToActiveApplication
<1>. QED BY <1>6, <1>7, <1>8 DEF CoIInv

\* The operator saves an application that all connections are of.
LEMMA CoSaveKeeps ==
  ASSUME Co!ConnectionsAssumption, CoIInv, NEW app \in coApps, Co!Save(app)
  PROVE  CoIInv'
<1>1. /\ Co!Compatible(app) /\ coConfig' = [app |-> app, version |-> coConfig.version + 1]
      /\ coActivation' = coConfig' /\ coConfig.version < coMaxVersion
      /\ UNCHANGED <<coFlow, coBinding, coAuthority, coAttempt, coCallback, coStartup, coBound,
                     coStarts>>
  BY DEF Co!Save
<1>2. coConfig.version + 1 \in 0..coMaxVersion
  BY <1>1 DEF Co!ConnectionsAssumption, CoIInv, Co!TypeOK
<1>3. Co!TypeOK'
  BY <1>1, <1>2 DEF CoIInv, Co!TypeOK
<1>4. CoFormInv' /\ CoBoundInv'
  BY <1>1 DEF CoIInv, CoFormInv, CoBoundInv
<1>5. Co!BoundToActiveApplication'
  BY <1>1 DEF Co!BoundToActiveApplication, Co!Compatible
<1>. QED BY <1>3, <1>4, <1>5 DEF CoIInv

\* A process that starts claims the older connections while no application is active.
LEMMA CoStartupKeeps ==
  ASSUME Co!ConnectionsAssumption, CoIInv,
         (\E app \in coApps : Co!StartupRead(app)) \/ Co!StartupClaim \/ Co!StartupActivate \/ Co!StartupFails
  PROVE  CoIInv'
<1>1. ASSUME NEW app \in coApps, Co!StartupRead(app) PROVE CoIInv'
  <2>1. /\ UNCHANGED <<coFlow, coConfig, coActivation, coBinding, coAuthority, coAttempt,
                       coCallback, coBound, coStarts>>
        /\ \E v \in 0..coMaxVersion : coStartup' = [pc |-> "read", app |-> app, version |-> v]
    BY <1>1 DEF Co!StartupRead, Co!ConnectionsAssumption, CoIInv, Co!TypeOK
  <2>2. coStartup' \in [pc : {"idle", "read", "claimed"}, app : coApps \cup {None}, version : 0..coMaxVersion]
    BY <2>1
  <2>. QED BY <2>1, <2>2 DEF CoIInv, Co!TypeOK, CoFormInv, CoBoundInv, Co!BoundToActiveApplication
<1>2. CASE Co!StartupClaim
  <2>1. /\ \E e \in coExternals : coBinding[e].app = Legacy
        /\ coBinding' = [e \in coExternals |->
             IF coBinding[e].app = Legacy THEN [coBinding[e] EXCEPT !.app = coStartup.app] ELSE coBinding[e]]
        /\ coStartup' = [coStartup EXCEPT !.pc = "claimed"]
        /\ UNCHANGED <<coFlow, coConfig, coActivation, coAuthority, coAttempt, coCallback,
                       coBound, coStarts>>
    BY <1>2 DEF Co!StartupClaim
  <2>2. coActivation.app = None
    BY <2>1 DEF Co!ConnectionsAssumption, CoIInv, Co!TypeOK, Co!BoundToActiveApplication
  <2>3. coStartup' \in [pc : {"idle", "read", "claimed"}, app : coApps \cup {None}, version : 0..coMaxVersion]
    BY <2>1 DEF CoIInv, CoFormInv
  <2>4. coBinding' \in [coExternals -> [org : coOrganizations \cup {None}, app : coApps \cup {Legacy, None}]]
    <3>1. ASSUME NEW e \in coExternals
          PROVE  coBinding'[e] \in [org : coOrganizations \cup {None}, app : coApps \cup {Legacy, None}]
      <4>1. coBinding[e] \in [org : coOrganizations \cup {None}, app : coApps \cup {Legacy, None}] /\ coStartup.app \in coApps \cup {None}
        BY DEF CoIInv, Co!TypeOK, CoFormInv
      <4>2. [coBinding[e] EXCEPT !.app = coStartup.app] \in [org : coOrganizations \cup {None}, app : coApps \cup {Legacy, None}]
        BY <4>1
      <4>. QED BY <2>1, <4>1, <4>2
    <3>. QED BY <2>1, <3>1
  <2>. QED BY <2>1, <2>2, <2>3, <2>4
     DEF CoIInv, Co!TypeOK, CoFormInv, CoBoundInv, Co!BoundToActiveApplication
<1>3. CASE Co!StartupActivate
  <2>1. /\ coActivation' = IF Co!Compatible(coStartup.app)
                         THEN [app |-> coStartup.app, version |-> coStartup.version] ELSE coActivation
        /\ coStartup' = Co!Idle
        /\ UNCHANGED <<coFlow, coConfig, coBinding, coAuthority, coAttempt, coCallback, coBound,
                       coStarts>>
    BY <1>3 DEF Co!StartupActivate
  <2>2. coStartup' \in [pc : {"idle", "read", "claimed"}, app : coApps \cup {None}, version : 0..coMaxVersion]
    BY <2>1 DEF Co!Idle, Co!ConnectionsAssumption
  <2>3. coActivation' \in [app : coApps \cup {None}, version : 0..coMaxVersion]
    BY <2>1 DEF CoIInv, Co!TypeOK, CoFormInv
  <2>4. Co!BoundToActiveApplication'
    BY <2>1 DEF CoIInv, Co!BoundToActiveApplication, Co!Compatible
  <2>. QED BY <2>1, <2>2, <2>3, <2>4 DEF CoIInv, Co!TypeOK, CoFormInv, CoBoundInv
<1>4. CASE Co!StartupFails
  <2>1. coStartup' = Co!Idle /\ UNCHANGED <<coFlow, coConfig, coActivation, coBinding,
                                            coAuthority, coAttempt, coCallback, coBound, coStarts>>
    BY <1>4 DEF Co!StartupFails
  <2>2. coStartup' \in [pc : {"idle", "read", "claimed"}, app : coApps \cup {None}, version : 0..coMaxVersion]
    BY <2>1 DEF Co!Idle, Co!ConnectionsAssumption
  <2>. QED BY <2>1, <2>2 DEF CoIInv, Co!TypeOK, CoFormInv, CoBoundInv, Co!BoundToActiveApplication
<1>. QED BY <1>1, <1>2, <1>3, <1>4

\* An attempt begins, expires or is looked up.
LEMMA CoAttemptKeeps ==
  ASSUME Co!ConnectionsAssumption, CoIInv, NEW a \in coAttempts,
         \/ Co!Expire(a)
         \/ \E o \in coOrganizations, app \in coApps, activates \in BOOLEAN : Co!StartAttempt(a, o, app, activates)
         \/ \E c \in coCallbacks, e \in coExternals : Co!ReadAttempt(c, a, e)
  PROVE  CoIInv'
<1>1. UNCHANGED <<coFlow, coConfig, coActivation, coBinding, coAuthority, coStartup, coBound>>
  BY DEF Co!Expire, Co!StartAttempt, Co!ReadAttempt
<1>2. CASE Co!Expire(a)
  <2>1. /\ coAttempt[a].phase # "none" /\ coAttempt' = [coAttempt EXCEPT ![a].phase = "consumed"]
        /\ UNCHANGED <<coCallback, coStarts>>
    BY <1>2 DEF Co!Expire
  <2>2. /\ coAttempt' \in [coAttempts -> CoAttemptType] /\ coAttempt'[a].phase = "consumed"
        /\ \A b \in coAttempts : b # a => coAttempt'[b] = coAttempt[b]
    BY <2>1 DEF CoIInv, CoFormInv, CoAttemptType
  <2>. QED BY <1>1, <2>1, <2>2
     DEF CoIInv, Co!TypeOK, CoFormInv, CoBoundInv, Co!BoundToActiveApplication
<1>3. ASSUME NEW o \in coOrganizations, NEW app \in coApps, NEW activates \in BOOLEAN,
             Co!StartAttempt(a, o, app, activates)
      PROVE  CoIInv'
  <2>1. /\ coAttempt[a].phase = "none" /\ coStarts < coMaxStarts /\ coStarts' = coStarts + 1
        /\ UNCHANGED coCallback
        /\ coAttempt' = [coAttempt EXCEPT ![a] =
             [phase |-> IF coFlow = "setup" THEN "setup" ELSE "authorization", org |-> o, app |-> app,
              version |-> IF activates THEN coConfig.version + 1 ELSE coActivation.version,
              activates |-> activates, candidate |-> None]]
    BY <1>3 DEF Co!StartAttempt
  <2>2. (IF activates THEN coConfig.version + 1 ELSE coActivation.version) \in Nat
    BY DEF CoIInv, Co!TypeOK
  <2>3. [phase |-> IF coFlow = "setup" THEN "setup" ELSE "authorization", org |-> o, app |-> app,
         version |-> IF activates THEN coConfig.version + 1 ELSE coActivation.version,
         activates |-> activates, candidate |-> None] \in CoAttemptType
    BY <2>2 DEF CoAttemptType
  <2>4. /\ coAttempt' \in [coAttempts -> CoAttemptType]
        /\ \A b \in coAttempts : b # a => coAttempt'[b] = coAttempt[b]
    BY <2>1, <2>3 DEF CoIInv, CoFormInv
  <2>5. coStarts' \in 0..coMaxStarts /\ coStarts' > 0
    BY <2>1 DEF Co!ConnectionsAssumption, CoIInv, CoFormInv
  <2>6. CoBoundInv'
    BY <1>1, <2>1, <2>4 DEF CoIInv, CoBoundInv
  <2>7. \A b \in coAttempts : coAttempt'[b].phase \in {"none", "setup", "authorization", "consumed"}
    BY <2>4 DEF CoAttemptType
  <2>. QED BY <1>1, <2>1, <2>4, <2>5, <2>6, <2>7
     DEF CoIInv, Co!TypeOK, CoFormInv, Co!BoundToActiveApplication
<1>4. ASSUME NEW c \in coCallbacks, NEW e \in coExternals, Co!ReadAttempt(c, a, e) PROVE CoIInv'
  <2>1. /\ coAttempt[a].phase \in {"setup", "authorization"} /\ coStarts < coMaxStarts
        /\ coStarts' = coStarts + 1
        /\ coCallback' = [coCallback EXCEPT ![c] = [pc |-> "read", of |-> a, phase |-> coAttempt[a].phase, ext |-> e]]
        /\ UNCHANGED coAttempt
    BY <1>4 DEF Co!ReadAttempt
  <2>2. coCallback' \in [coCallbacks -> CoCallbackType]
    BY <2>1 DEF CoIInv, CoFormInv, CoCallbackType
  <2>3. coStarts' \in 0..coMaxStarts /\ coStarts' > 0
    BY <2>1 DEF Co!ConnectionsAssumption, CoIInv, CoFormInv
  <2>4. \A d \in coCallbacks : coCallback'[d].pc \in {"idle", "read", "verified"}
    BY <2>2 DEF CoCallbackType, Co!NoCallback
  <2>. QED BY <1>1, <2>1, <2>2, <2>3, <2>4
     DEF CoIInv, Co!TypeOK, CoFormInv, CoBoundInv, Co!BoundToActiveApplication
<1>. QED BY <1>2, <1>3, <1>4

\* A callback is verified: an attempt that has bound is not used again.
LEMMA CoVerifiedKeeps ==
  ASSUME Co!ConnectionsAssumption, CoIInv, NEW c \in coCallbacks, Co!Verified(c)
  PROVE  CoIInv'
<1> DEFINE a == coCallback[c].of
<1>1. /\ coCallback[c] \in CoCallbackType /\ coCallback[c].pc = "read"
      /\ a \in coAttempts /\ coCallback[c].phase \in {"setup", "authorization"}
      /\ coCallback[c].ext \in coExternals
  BY DEF Co!Verified, CoIInv, CoFormInv, CoCallbackType, Co!NoCallback
<1>2. UNCHANGED <<coFlow, coConfig, coActivation, coBinding, coAuthority, coStartup, coBound,
                  coStarts>>
  BY DEF Co!Verified
<1>3. coCallback' \in [coCallbacks -> CoCallbackType]
  <2>1. /\ Co!NoCallback \in CoCallbackType
        /\ [coCallback[c] EXCEPT !.pc = "verified"] \in CoCallbackType
    BY <1>1 DEF CoCallbackType, Co!NoCallback
  <2>2. \/ coCallback' = [coCallback EXCEPT ![c] = Co!NoCallback]
        \/ coCallback' = [coCallback EXCEPT ![c].pc = "verified"]
    BY DEF Co!Verified, Co!Leave
  <2>. QED BY <2>1, <2>2 DEF CoIInv, CoFormInv
<1>4. \A d \in coCallbacks : coCallback'[d].pc \in {"idle", "read", "verified"}
  BY <1>3 DEF CoCallbackType, Co!NoCallback
<1>5. CASE UNCHANGED coAttempt
  BY <1>2, <1>3, <1>4, <1>5
     DEF CoIInv, Co!TypeOK, CoFormInv, CoBoundInv, Co!BoundToActiveApplication
<1>6. CASE /\ Co!Usable(a, coCallback[c].phase)
           /\ coAttempt' = [coAttempt EXCEPT ![a] =
                IF coCallback[c].phase = "setup"
                THEN [@ EXCEPT !.phase = "authorization", !.candidate = coCallback[c].ext]
                ELSE [@ EXCEPT !.phase = "consumed"]]
  <2>1. coAttempt[a] \in CoAttemptType /\ coAttempt[a].phase \in {"setup", "authorization"}
    BY <1>1, <1>6 DEF Co!Usable, CoIInv, CoFormInv
  <2>2. /\ [coAttempt[a] EXCEPT !.phase = "authorization", !.candidate = coCallback[c].ext] \in CoAttemptType
        /\ [coAttempt[a] EXCEPT !.phase = "consumed"] \in CoAttemptType
    BY <1>1, <2>1 DEF CoAttemptType
  <2>3. /\ coAttempt' \in [coAttempts -> CoAttemptType]
        /\ \A b \in coAttempts : b # a => coAttempt'[b] = coAttempt[b]
    BY <1>1, <1>6, <2>2 DEF CoIInv, CoFormInv
  <2>4. coStarts > 0 /\ coBound[a] = 0
    BY <1>1, <2>1 DEF CoIInv, CoFormInv, CoBoundInv
  <2>5. \A b \in coAttempts : coAttempt'[b].phase \in {"none", "setup", "authorization", "consumed"}
    BY <2>3 DEF CoAttemptType
  <2>6. CoFormInv'
    BY <1>2, <1>3, <2>3, <2>4 DEF CoIInv, CoFormInv
  <2>7. CoBoundInv'
    BY <1>2, <2>3, <2>4 DEF CoIInv, CoBoundInv
  <2>. QED BY <1>2, <1>4, <2>5, <2>6, <2>7 DEF CoIInv, Co!TypeOK, Co!BoundToActiveApplication
<1>. QED BY <1>5, <1>6 DEF Co!Verified

\* What binding does, when it does anything.
CoBinds(c) ==
  LET a == coCallback[c].of
      e == coCallback[c].ext
      saved == [app |-> coAttempt[a].app, version |-> coAttempt[a].version]
  IN /\ Co!Usable(a, coCallback[c].phase) /\ Co!MayBind(a) /\ Co!Free(e, a) /\ saved.version <= coMaxVersion
     /\ coBinding' = [coBinding EXCEPT ![e] = [org |-> coAttempt[a].org, app |-> coAttempt[a].app]]
     /\ coAttempt' = [coAttempt EXCEPT ![a].phase = "consumed"]
     /\ coBound' = [coBound EXCEPT ![a] = @ + 1]
     /\ IF coAttempt[a].activates
        THEN coConfig' = saved /\ coActivation' = saved
        ELSE UNCHANGED <<coConfig, coActivation>>

\* A connection is bound to the application that is, or becomes, the active one, and the
\* attempt is used up.
LEMMA CoBindKeeps ==
  ASSUME Co!ConnectionsAssumption, CoIInv, NEW c \in coCallbacks, Co!Bind(c)
  PROVE  CoIInv'
<1> DEFINE a == coCallback[c].of
           e == coCallback[c].ext
<1>1. /\ coCallback[c] \in CoCallbackType /\ a \in coAttempts /\ e \in coExternals
      /\ coCallback[c].phase \in {"setup", "authorization"}
  BY DEF Co!Bind, CoIInv, CoFormInv, CoCallbackType, Co!NoCallback
<1>2. /\ UNCHANGED <<coFlow, coAuthority, coStartup, coStarts>>
      /\ coCallback' = [coCallback EXCEPT ![c] = Co!NoCallback]
      /\ CoBinds(c) \/ UNCHANGED <<coBinding, coAttempt, coBound, coConfig, coActivation>>
  BY DEF Co!Bind, CoBinds, Co!Leave, Co!AttemptConsumed
<1>3. coCallback' \in [coCallbacks -> CoCallbackType]
  BY <1>2 DEF CoIInv, CoFormInv, CoCallbackType
<1>4. \A d \in coCallbacks : coCallback'[d].pc \in {"idle", "read", "verified"}
  BY <1>3 DEF CoCallbackType, Co!NoCallback
<1>5. CASE UNCHANGED <<coBinding, coAttempt, coBound, coConfig, coActivation>>
  BY <1>2, <1>3, <1>4, <1>5
     DEF CoIInv, Co!TypeOK, CoFormInv, CoBoundInv, Co!BoundToActiveApplication
<1>6. CASE CoBinds(c)
  <2>1. /\ coAttempt[a].phase \in {"setup", "authorization"} /\ coAttempt[a] \in CoAttemptType
        /\ Co!MayBind(a) /\ coAttempt[a].version <= coMaxVersion
        /\ coBinding' = [coBinding EXCEPT ![e] = [org |-> coAttempt[a].org, app |-> coAttempt[a].app]]
        /\ coAttempt' = [coAttempt EXCEPT ![a].phase = "consumed"]
        /\ coBound' = [coBound EXCEPT ![a] = @ + 1]
    BY <1>1, <1>6 DEF CoBinds, Co!Usable, CoIInv, CoFormInv
  <2>2. /\ coAttempt[a].version \in 0..coMaxVersion /\ coAttempt[a].app \in coApps \cup {None}
        /\ coAttempt[a].org \in coOrganizations \cup {None}
    BY <2>1 DEF CoAttemptType, Co!ConnectionsAssumption
  <2>3. \/ /\ coAttempt[a].activates /\ Co!Compatible(coAttempt[a].app)
           /\ coConfig' = [app |-> coAttempt[a].app, version |-> coAttempt[a].version]
           /\ coActivation' = coConfig'
        \/ /\ Co!Current(a) /\ UNCHANGED <<coConfig, coActivation>>
    BY <1>6, <2>1 DEF CoBinds, Co!MayBind
  <2>4. [app |-> coAttempt[a].app, version |-> coAttempt[a].version] \in [app : coApps \cup {None}, version : 0..coMaxVersion]
    BY <2>2
  <2>5. [org |-> coAttempt[a].org, app |-> coAttempt[a].app] \in [org : coOrganizations \cup {None}, app : coApps \cup {Legacy, None}]
    BY <2>2
  <2>6. /\ coAttempt' \in [coAttempts -> CoAttemptType] /\ coAttempt'[a].phase = "consumed"
        /\ \A b \in coAttempts : b # a => coAttempt'[b] = coAttempt[b]
    BY <1>1, <2>1 DEF CoIInv, CoFormInv, CoAttemptType
  <2>7. coStarts > 0 /\ coBound[a] = 0
    BY <1>1, <2>1 DEF CoIInv, CoFormInv, CoBoundInv
  <2>8. /\ coBound'[a] = 1 /\ \A b \in coAttempts : b # a => coBound'[b] = coBound[b]
        /\ coBound' \in [coAttempts -> 0..coMaxStarts]
    BY <1>1, <2>1, <2>7 DEF CoIInv, Co!TypeOK, CoFormInv, Co!ConnectionsAssumption
  <2>9. CoFormInv'
    BY <1>2, <1>3, <2>6, <2>7 DEF CoIInv, CoFormInv
  <2>10. CoBoundInv'
    BY <2>6, <2>8 DEF CoIInv, CoBoundInv
  <2>11. /\ coConfig' \in [app : coApps \cup {None}, version : 0..coMaxVersion]
         /\ coActivation' \in [app : coApps \cup {None}, version : 0..coMaxVersion]
    BY <2>3, <2>4 DEF CoIInv, Co!TypeOK
  <2>12. /\ coBinding' \in [coExternals -> [org : coOrganizations \cup {None}, app : coApps \cup {Legacy, None}]]
         /\ coBinding'[e].app = coAttempt[a].app /\ \A f \in coExternals : f # e => coBinding'[f] = coBinding[f]
    BY <1>1, <2>1, <2>5 DEF CoIInv, Co!TypeOK
  <2>13. \A b \in coAttempts : coAttempt'[b].phase \in {"none", "setup", "authorization", "consumed"}
    BY <2>6 DEF CoAttemptType
  <2>14. Co!TypeOK'
    BY <1>2, <1>4, <2>8, <2>11, <2>12, <2>13 DEF CoIInv, Co!TypeOK
  <2>15. Co!BoundToActiveApplication'
    <3>1. CASE coAttempt[a].activates /\ Co!Compatible(coAttempt[a].app) /\ coActivation' = [app |-> coAttempt[a].app, version |-> coAttempt[a].version]
      BY <1>1, <2>12, <3>1 DEF Co!BoundToActiveApplication, Co!Compatible
    <3>2. CASE Co!Current(a) /\ UNCHANGED <<coConfig, coActivation>>
      BY <1>1, <2>12, <3>2 DEF CoIInv, Co!BoundToActiveApplication, Co!Current
    <3>. QED BY <2>3, <3>1, <3>2
  <2>. QED BY <2>9, <2>10, <2>14, <2>15 DEF CoIInv
<1>. QED BY <1>2, <1>5, <1>6

\* A binding or an authority ends.
LEMMA CoEndKeeps ==
  ASSUME Co!ConnectionsAssumption, CoIInv,
         (\E e \in coExternals : Co!Unbind(e)) \/ (\E o \in coOrganizations : Co!LoseAuthority(o))
  PROVE  CoIInv'
<1>1. ASSUME NEW e \in coExternals, Co!Unbind(e) PROVE CoIInv'
  <2>1. /\ coBinding' = [coBinding EXCEPT ![e] = Co!Unbound] /\ Co!Unbound.app = None
        /\ UNCHANGED <<coFlow, coConfig, coActivation, coAuthority, coAttempt, coCallback,
                       coStartup, coBound, coStarts>>
    BY <1>1 DEF Co!Unbind, Co!Unbound
  <2>2. /\ coBinding' \in [coExternals -> [org : coOrganizations \cup {None}, app : coApps \cup {Legacy, None}]]
    BY <2>1 DEF CoIInv, Co!TypeOK, Co!Unbound
  <2>3. Co!BoundToActiveApplication'
    BY <2>1 DEF CoIInv, Co!BoundToActiveApplication, Co!TypeOK
  <2>. QED BY <2>1, <2>2, <2>3 DEF CoIInv, Co!TypeOK, CoFormInv, CoBoundInv
<1>2. ASSUME NEW o \in coOrganizations, Co!LoseAuthority(o) PROVE CoIInv'
  BY <1>2
     DEF Co!LoseAuthority, CoIInv, Co!TypeOK, CoFormInv, CoBoundInv, Co!BoundToActiveApplication
<1>. QED BY <1>1, <1>2

\* Every step keeps IInv.
LEMMA CoInductive ==
  ASSUME Co!ConnectionsAssumption, CoIInv, [Co!Next]_(Co!vars)
  PROVE  CoIInv'
<1>1. CASE UNCHANGED Co!vars
  BY <1>1 DEF Co!vars, CoIInv, Co!TypeOK, CoFormInv, CoBoundInv, Co!BoundToActiveApplication
<1>. QED
  BY <1>1, CoSaveKeeps, CoStartupKeeps, CoAttemptKeeps, CoVerifiedKeeps, CoBindKeeps, CoEndKeeps
     DEF Co!Next

\* The invariant of the connections.
THEOREM CoInvariance ==
  ASSUME Co!ConnectionsAssumption
  PROVE  Co!Spec => []CoIInv
<1>. QED BY CoInitially, CoInductive, PTL DEF Co!Spec

LEMMA CoSafe ==
  ASSUME CoIInv
  PROVE  Co!BoundToActiveApplication /\ Co!AttemptBindsOnce
BY DEF CoIInv, CoBoundInv, Co!AttemptBindsOnce

\* Only a binding changes who holds what, and it goes by the rules.
LEMMA CoBindsByRule ==
  ASSUME Co!ConnectionsAssumption, CoIInv, [Co!Next]_(Co!vars)
  PROVE  Co!TenantIsKept /\ Co!BoundByItsConfiguration
<1>1. ASSUME NEW c \in coCallbacks, Co!Bind(c) PROVE Co!TenantIsKept /\ Co!BoundByItsConfiguration
  <2>1. CASE UNCHANGED <<coBinding, coBound>>
    BY <2>1 DEF Co!TenantIsKept, Co!BoundByItsConfiguration
  <2>2. CASE CoBinds(c)
    <3> DEFINE a == coCallback[c].of
               e == coCallback[c].ext
    <3>1. a \in coAttempts /\ e \in coExternals
      BY <1>1 DEF Co!Bind, CoIInv, CoFormInv, CoCallbackType, Co!NoCallback
    <3>2. /\ coAttempt[a].org \in coAuthority
          /\ coBinding[e].org \in {None, coAttempt[a].org} /\ coBinding'[e].org = coAttempt[a].org
          /\ \A f \in coExternals : f # e => coBinding'[f] = coBinding[f]
      BY <2>2, <3>1 DEF CoBinds, Co!Usable, Co!Free, CoIInv, Co!TypeOK
    <3>3. Co!TenantIsKept
      BY <3>1, <3>2 DEF Co!TenantIsKept
    <3>4. coActivation' = [app |-> coAttempt[a].app, version |-> coAttempt[a].version]
      BY <2>2 DEF CoBinds, Co!MayBind, Co!Current
    <3>5. \A b \in coAttempts : b # a => coBound'[b] = coBound[b]
      BY <2>2 DEF CoBinds, CoIInv, Co!TypeOK
    <3>. QED BY <3>3, <3>4, <3>5 DEF Co!BoundByItsConfiguration
  <2>. QED BY <1>1, <2>1, <2>2 DEF Co!Bind, CoBinds, Co!AttemptConsumed
<1>2. CASE Co!StartupClaim
  <2>1. ASSUME NEW e \in coExternals PROVE coBinding'[e].org = coBinding[e].org
    BY <1>2 DEF Co!StartupClaim, CoIInv, Co!TypeOK
  <2>. QED BY <1>2, <2>1 DEF Co!StartupClaim, Co!TenantIsKept, Co!BoundByItsConfiguration
<1>3. ASSUME NEW e \in coExternals, Co!Unbind(e) PROVE Co!TenantIsKept /\ Co!BoundByItsConfiguration
  BY <1>3 DEF Co!Unbind, Co!Unbound, Co!TenantIsKept, Co!BoundByItsConfiguration, CoIInv, Co!TypeOK
<1>4. CASE UNCHANGED <<coBinding, coBound>>
  BY <1>4 DEF Co!TenantIsKept, Co!BoundByItsConfiguration
<1>. QED
  BY <1>1, <1>2, <1>3, <1>4
     DEF Co!Next, Co!vars, Co!Save, Co!StartupRead, Co!StartupActivate, Co!StartupFails,
         Co!Expire, Co!StartAttempt, Co!ReadAttempt,
         Co!Verified, Co!LoseAuthority

\* A connection belongs to the active application, and an attempt binds one at most
\* (src/src/db/connections.ts).
THEOREM CoConnectionsAreProven ==
  ASSUME Co!ConnectionsAssumption
  PROVE  Co!Spec => [](Co!BoundToActiveApplication /\ Co!AttemptBindsOnce)
<1>. QED BY CoSafe, CoInvariance, PTL

\* A connection keeps its organization, and is bound by the configuration that stands
\* (src/src/db/connections.ts).
THEOREM CoBoundByRule ==
  ASSUME Co!ConnectionsAssumption
  PROVE  Co!Spec => [][Co!TenantIsKept /\ Co!BoundByItsConfiguration]_(Co!vars)
<1>1. CoIInv /\ [Co!Next]_(Co!vars) => [Co!TenantIsKept /\ Co!BoundByItsConfiguration]_(Co!vars)
  BY CoBindsByRule
<1>. QED BY <1>1, CoInvariance, PTL DEF Co!Spec

-----------------------------------------------------------------------------
(* Linear tokens *)

CONSTANTS toHubs, toRequesters, toHubOf, toMaxGrants, toMaxTokens,
          toMaxFaults
VARIABLES toRow, toGrants, toLive, toExpired, toRequests, toSharing, toFaults

To == INSTANCE LinearTokens WITH
    Hubs <- toHubs, Requests <- toRequesters, HubOf <- toHubOf,
    MaxGrants <- toMaxGrants, MaxTokens <- toMaxTokens,
    MaxFaults <- toMaxFaults, row <- toRow, grants <- toGrants,
    live <- toLive, expired <- toExpired, requests <- toRequests,
    sharing <- toSharing, faults <- toFaults

ToHeld(r) == toRequests[r].at \in {"holding", "answered"}

\* One request at a time holds the connection, whose row is the one it has read.
ToHolderInv ==
  /\ \A q, r \in toRequesters : ToHeld(q) /\ ToHeld(r) => q = r
  /\ \A r \in toRequesters : ToHeld(r) =>
       /\ toRow # None /\ toRequests[r].token # None
       /\ toRequests[r].at = "holding" => toRequests[r].token = toRow
       /\ toRequests[r].at = "answered" => toRequests[r].token[1] = toRow[1] /\ toRequests[r].token \in toLive

\* The row is of the last connection, and its refresh token good unless its successor is on
\* the way to it.
ToNewestInv ==
  toRow # None =>
    /\ toRow[1] = toGrants
    /\ toFaults = 0 /\ (\A r \in toRequesters : toRequests[r].at # "answered") => toRow \in toLive

ToFormInv ==
  /\ toRequests \in [toRequesters -> [at : {"idle", "waiting", "joined", "holding", "answered"},
                                token : To!Tokens \cup {None}]]
  /\ toFaults \in Nat

ToIInv == To!TypeOK /\ ToFormInv /\ ToHolderInv /\ ToNewestInv

-----------------------------------------------------------------------------
LEMMA ToInitially ==
  ASSUME To!TokensAssumption, To!Init
  PROVE  ToIInv
BY DEF To!TokensAssumption, To!Init, To!Idle, ToIInv, To!TypeOK, ToFormInv, ToHolderInv,
   ToNewestInv, ToHeld

\* The form is kept.
LEMMA ToFormKept ==
  ASSUME To!TokensAssumption, To!TypeOK, ToFormInv, ToHolderInv, [To!Next]_(To!vars)
  PROVE  To!TypeOK' /\ ToFormInv'
<1> DEFINE Form == [at : {"idle", "waiting", "joined", "holding", "answered"}, token : To!Tokens \cup {None}]
<1>1. To!TypeOK' /\ ToFormInv' <=>
        /\ toRow' \in To!Tokens \cup {None} /\ toGrants' \in 0..toMaxGrants
        /\ toLive' \subseteq To!Tokens /\ toExpired' \subseteq To!Tokens
        /\ toSharing' \in [toHubs -> toRequesters \cup {None}]
        /\ toRequests' \in [toRequesters -> Form] /\ toFaults' \in Nat
  BY DEF To!TypeOK, ToFormInv
<1>2. To!Idle \in Form
  BY DEF To!Idle
<1>3. ASSUME NEW r \in toRequesters, To!Over(r)
      PROVE  /\ toRequests' \in [toRequesters -> Form]
             /\ toSharing' \in [toHubs -> toRequesters \cup {None}]
  BY <1>2, <1>3 DEF To!Over, ToFormInv, To!TypeOK
<1>4. CASE To!Connect
  <2>1. <<toGrants + 1, 1>> \in To!Tokens /\ toGrants + 1 \in 0..toMaxGrants
    BY <1>4 DEF To!Connect, To!TypeOK, To!Tokens, To!TokensAssumption
  <2>. QED BY <1>1, <1>4, <2>1 DEF To!Connect, To!TypeOK, ToFormInv
<1>5. CASE To!Disconnect \/ To!Expire
  BY <1>1, <1>5 DEF To!Disconnect, To!Expire, To!TypeOK, ToFormInv
<1>6. ASSUME NEW r \in toRequesters, To!Ask(r) PROVE To!TypeOK' /\ ToFormInv'
  <2>1. toRequests' \in [toRequesters -> Form]
    <3>1. /\ [toRequests[r] EXCEPT !.at = "joined"] \in Form
          /\ toRow # None => [at |-> "waiting", token |-> toRow] \in Form
      BY DEF ToFormInv, To!TypeOK
    <3>. QED BY <1>6, <3>1 DEF To!Ask, ToFormInv
  <2>2. toSharing' \in [toHubs -> toRequesters \cup {None}]
    BY <1>6 DEF To!Ask, To!TypeOK
  <2>. QED BY <1>1, <1>6, <2>1, <2>2 DEF To!Ask, To!TypeOK, ToFormInv
<1>7. ASSUME NEW r \in toRequesters, To!Lock(r) PROVE To!TypeOK' /\ ToFormInv'
  <2>1. CASE To!Over(r)
    BY <1>1, <1>3, <1>7, <2>1 DEF To!Lock, To!TypeOK, ToFormInv
  <2>2. CASE toRow # None /\ toRequests' = [toRequests EXCEPT ![r] = [at |-> "holding", token |-> toRow]] /\ UNCHANGED toSharing
    <3>1. [at |-> "holding", token |-> toRow] \in Form
      BY DEF To!TypeOK
    <3>. QED BY <1>1, <1>7, <2>2, <3>1 DEF To!Lock, To!TypeOK, ToFormInv
  <2>. QED BY <1>7, <2>1, <2>2 DEF To!Lock, To!Current
<1>8. ASSUME NEW r \in toRequesters, To!Exchange(r) PROVE To!TypeOK' /\ ToFormInv'
  <2> DEFINE taken == toRequests[r].token
             next == <<taken[1], taken[2] + 1>>
  <2>1. CASE To!Over(r) /\ UNCHANGED toLive
    BY <1>1, <1>3, <1>8, <2>1 DEF To!Exchange, To!TypeOK, ToFormInv
  <2>2. CASE /\ next \in To!Tokens /\ toLive' = (toLive \ {taken}) \cup {next} /\ UNCHANGED toSharing
             /\ toRequests' = [toRequests EXCEPT ![r] = [at |-> "answered", token |-> next]]
    <3>1. [at |-> "answered", token |-> next] \in Form
      BY <2>2
    <3>. QED BY <1>1, <1>8, <2>2, <3>1 DEF To!Exchange, To!TypeOK, ToFormInv
  <2>. QED BY <1>8, <2>1, <2>2 DEF To!Exchange
<1>9. ASSUME NEW r \in toRequesters, To!Save(r) PROVE To!TypeOK' /\ ToFormInv'
  BY <1>1, <1>3, <1>9 DEF To!Save, To!TypeOK, ToFormInv
<1>10. ASSUME NEW r \in toRequesters, To!Fail(r) PROVE To!TypeOK' /\ ToFormInv'
  BY <1>1, <1>3, <1>10 DEF To!Fail, To!TypeOK, ToFormInv
<1>11. ASSUME NEW h \in toHubs, To!Crash(h) PROVE To!TypeOK' /\ ToFormInv'
  BY <1>1, <1>2, <1>11 DEF To!Crash, To!TypeOK, ToFormInv
<1>12. CASE UNCHANGED To!vars
  BY <1>12 DEF To!vars, To!TypeOK, ToFormInv
<1>. QED BY <1>4, <1>5, <1>6, <1>7, <1>8, <1>9, <1>10, <1>11, <1>12 DEF To!Next

\* A refresh that is over holds nothing, and leaves the other holders.
LEMMA ToOverEnds ==
  ASSUME ToFormInv, NEW r \in toRequesters, To!Over(r)
  PROVE  /\ ~ToHeld(r)'
         /\ \A q \in toRequesters : toRequests'[q] = toRequests[q] \/ toRequests'[q] = To!Idle
BY DEF To!Over, ToFormInv, ToHeld, To!Idle

\* The holder is the only one, and nobody changes the row under it.
LEMMA ToHolderKept ==
  ASSUME To!TokensAssumption, ToIInv, [To!Next]_(To!vars)
  PROVE  ToHolderInv' /\ ToNewestInv'
<1>1. CASE To!Connect
  <2>1. /\ To!Unlocked /\ toRow' = <<toGrants + 1, 1>> /\ toGrants' = toGrants + 1
        /\ toRow' \in toLive'
        /\ UNCHANGED toRequests
    BY <1>1 DEF To!Connect
  <2>2. \A r \in toRequesters : ~ToHeld(r)' /\ toRow'[1] = toGrants'
    BY <2>1 DEF To!Unlocked, ToHeld
  <2>. QED BY <2>1, <2>2 DEF ToHolderInv, ToNewestInv
<1>2. CASE To!Disconnect
  BY <1>2 DEF To!Disconnect, To!Unlocked, ToHolderInv, ToNewestInv, ToHeld
<1>3. CASE To!Expire
  BY <1>3 DEF To!Expire, ToIInv, ToHolderInv, ToNewestInv, ToHeld
<1>4. ASSUME NEW r \in toRequesters, To!Ask(r) PROVE ToHolderInv' /\ ToNewestInv'
  <2>1. /\ UNCHANGED <<toRow, toGrants, toLive, toFaults>> /\ ~ToHeld(r)
        /\ toRequests[r].at # "answered"
        /\ \A q \in toRequesters \ {r} : toRequests'[q] = toRequests[q]
        /\ toRequests'[r].at \in {"joined", "waiting"}
    BY <1>4 DEF To!Ask, ToIInv, ToFormInv, ToHeld
  <2>. QED BY <2>1 DEF ToIInv, ToHolderInv, ToNewestInv, ToHeld
<1>5. ASSUME NEW r \in toRequesters, To!Lock(r) PROVE ToHolderInv' /\ ToNewestInv'
  <2>1. /\ To!Unlocked /\ UNCHANGED <<toRow, toGrants, toLive, toFaults>>
        /\ toRequests[r].at = "waiting"
    BY <1>5 DEF To!Lock
  <2>2. CASE To!Over(r)
    <3>1. \A q \in toRequesters : ~ToHeld(q)' /\ toRequests[q].at # "answered"
      BY <2>1, <2>2, ToOverEnds DEF ToIInv, To!Unlocked, ToHeld, To!Idle
    <3>. QED BY <2>1, <3>1 DEF ToIInv, ToHolderInv, ToNewestInv
  <2>3. CASE toRow # None /\ toRequests' = [toRequests EXCEPT ![r] = [at |-> "holding", token |-> toRow]]
    <3>1. /\ toRequests'[r].at = "holding" /\ toRequests'[r].token = toRow
          /\ \A q \in toRequesters \ {r} : toRequests'[q] = toRequests[q] /\ ~ToHeld(q)'
      BY <2>1, <2>3 DEF ToIInv, ToFormInv, To!Unlocked, ToHeld
    <3>2. \A q \in toRequesters : toRequests[q].at # "answered"
      BY <2>1 DEF To!Unlocked
    <3>3. ToHolderInv'
      BY <2>1, <2>3, <3>1 DEF ToHolderInv, ToHeld
    <3>. QED BY <2>1, <3>2, <3>3 DEF ToIInv, ToNewestInv
  <2>. QED BY <1>5, <2>2, <2>3 DEF To!Lock, To!Current
<1>6. ASSUME NEW r \in toRequesters, To!Exchange(r) PROVE ToHolderInv' /\ ToNewestInv'
  <2> DEFINE taken == toRequests[r].token
             next == <<taken[1], taken[2] + 1>>
  <2>1. /\ toRequests[r].at = "holding" /\ ToHeld(r) /\ taken = toRow /\ toRow # None
        /\ UNCHANGED <<toRow, toGrants, toFaults>>
    BY <1>6 DEF To!Exchange, ToHeld, ToIInv, ToHolderInv
  <2>2. \A q \in toRequesters \ {r} : ~ToHeld(q)
    BY <2>1 DEF ToIInv, ToHolderInv
  <2>3. \A q \in toRequesters : toRequests[q].at # "answered"
    BY <2>1, <2>2 DEF ToHeld
  <2>4. CASE To!Over(r) /\ UNCHANGED toLive
    <3>1. \A q \in toRequesters : ~ToHeld(q)'
      BY <2>2, <2>4, ToOverEnds DEF ToIInv, ToHeld, To!Idle
    <3>. QED BY <2>1, <2>3, <2>4, <3>1 DEF ToIInv, ToHolderInv, ToNewestInv
  <2>5. CASE /\ next \in To!Tokens /\ toLive' = (toLive \ {taken}) \cup {next}
             /\ toRequests' = [toRequests EXCEPT ![r] = [at |-> "answered", token |-> next]]
    <3>1. /\ toRequests'[r].at = "answered" /\ toRequests'[r].token = next /\ next[1] = toRow[1]
          /\ next \in toLive'
          /\ \A q \in toRequesters \ {r} : toRequests'[q] = toRequests[q] /\ ~ToHeld(q)'
      BY <2>1, <2>2, <2>5 DEF ToIInv, ToFormInv, ToHeld
    <3>2. next # None
      BY <2>5 DEF To!TokensAssumption
    <3>3. ToHolderInv'
      BY <2>1, <3>1, <3>2 DEF ToHolderInv, ToHeld
    <3>. QED BY <2>1, <3>1, <3>3 DEF ToIInv, ToNewestInv
  <2>. QED BY <1>6, <2>4, <2>5 DEF To!Exchange
<1>7. ASSUME NEW r \in toRequesters, To!Save(r) PROVE ToHolderInv' /\ ToNewestInv'
  <2>1. /\ toRequests[r].at = "answered" /\ ToHeld(r) /\ toRow # None
        /\ toRequests[r].token[1] = toRow[1] /\ toRequests[r].token \in toLive
        /\ toRow' = toRequests[r].token /\ To!Over(r) /\ UNCHANGED <<toGrants, toLive, toFaults>>
    BY <1>7 DEF To!Save, ToHeld, ToIInv, ToHolderInv
  <2>2. \A q \in toRequesters : ~ToHeld(q)'
    BY <2>1, ToOverEnds DEF ToIInv, ToHolderInv, ToHeld, To!Idle
  <2>. QED BY <2>1, <2>2 DEF ToIInv, ToHolderInv, ToNewestInv
<1>8. ASSUME NEW r \in toRequesters, To!Fail(r) PROVE ToHolderInv' /\ ToNewestInv'
  <2>1. /\ ToHeld(r) /\ To!Over(r) /\ UNCHANGED <<toRow, toGrants, toLive>> /\ toFaults' # 0
    BY <1>8 DEF To!Fail, ToHeld, ToIInv, ToFormInv
  <2>2. \A q \in toRequesters : ~ToHeld(q)'
    BY <2>1, ToOverEnds DEF ToIInv, ToHolderInv, ToHeld, To!Idle
  <2>. QED BY <2>1, <2>2 DEF ToIInv, ToHolderInv, ToNewestInv
<1>9. ASSUME NEW h \in toHubs, To!Crash(h) PROVE ToHolderInv' /\ ToNewestInv'
  <2>1. /\ UNCHANGED <<toRow, toGrants, toLive>> /\ toFaults' # 0
        /\ \A q \in toRequesters : toRequests'[q] = toRequests[q] \/ toRequests'[q] = To!Idle
    BY <1>9 DEF To!Crash, ToIInv, ToFormInv
  <2>2. \A q \in toRequesters : ToHeld(q)' => ToHeld(q) /\ toRequests'[q] = toRequests[q]
    BY <2>1 DEF ToHeld, To!Idle
  <2>. QED BY <2>1, <2>2 DEF ToIInv, ToHolderInv, ToNewestInv, ToHeld
<1>10. CASE UNCHANGED To!vars
  BY <1>10 DEF To!vars, ToIInv, ToHolderInv, ToNewestInv, ToHeld
<1>. QED BY <1>1, <1>2, <1>3, <1>4, <1>5, <1>6, <1>7, <1>8, <1>9, <1>10 DEF To!Next

\* Every step keeps IInv.
LEMMA ToInductive ==
  ASSUME To!TokensAssumption, ToIInv, [To!Next]_(To!vars)
  PROVE  ToIInv'
BY ToFormKept, ToHolderKept DEF ToIInv

LEMMA ToSafe ==
  ASSUME ToIInv
  PROVE  To!HoldsNewestTokens
BY DEF ToIInv, ToNewestInv, To!HoldsNewestTokens, To!Unlocked

\* The invariant of the tokens.
THEOREM ToInvariance ==
  ASSUME To!TokensAssumption
  PROVE  To!Spec => []ToIInv
<1>. QED BY ToInitially, ToInductive, PTL DEF To!Spec

\* A connection holds the newest tokens it was given (src/src/providers/linear/client.ts).
THEOREM ToNewestTokens ==
  ASSUME To!TokensAssumption
  PROVE  To!Spec => []To!HoldsNewestTokens
<1>. QED BY ToSafe, ToInvariance, PTL

-----------------------------------------------------------------------------
(* Configuration revisions *)

CONSTANTS reDeployers, reMaxCommits, reMaxRevisions, reMaxDecisions
VARIABLES reHead, reAuthority, reArchived, reRevisions, reActive, reRouted,
          reDeployer, reDecisions

Re == INSTANCE ConfigurationRevisions WITH
    Deployers <- reDeployers, MaxCommits <- reMaxCommits,
    MaxRevisions <- reMaxRevisions, MaxDecisions <- reMaxDecisions,
    head <- reHead, authority <- reAuthority, archived <- reArchived,
    revisions <- reRevisions, active <- reActive, routed <- reRouted,
    deployer <- reDeployer, decisions <- reDecisions

ReRevision == [kind : {"manual", "github"}, commit : 0..reMaxCommits, valid : BOOLEAN]
ReDeployment ==
  [pc : {"idle", "targeted", "compiled", "inserted", "switching"},
   kind : {"none", "github", "manual", "install", "switch"},
   commit : 0..reMaxCommits, rev : Nat, moved : BOOLEAN]

ReFormInv ==
  /\ reRevisions \in Seq(ReRevision)
  /\ reDeployer \in [reDeployers -> ReDeployment]

\* No revision is of a commit that is not at the repository yet.
ReCommitInv ==
  /\ \A i \in 1..Len(reRevisions) : reRevisions[i].commit <= reHead
  /\ \A d \in reDeployers : reDeployer[d].pc # "idle" => reDeployer[d].commit <= reHead

\* A request that no other has overtaken still sees what it was admitted by.
ReUnmovedInv ==
  \A d \in reDeployers :
     LET k == reDeployer[d] IN
     /\ k.pc \in {"targeted", "compiled", "inserted"} /\ ~k.moved /\ k.kind # "install" =>
          reAuthority = k.kind
     /\ k.pc \in {"compiled", "inserted"} /\ ~k.moved /\ k.kind = "github" /\ Re!Of(reActive).kind = "github" =>
          Re!Of(reActive).commit <= k.commit
     /\ k.pc = "switching" /\ ~k.moved => reActive = k.rev

\* A request has the revision it inserted, or the one it copies.
ReRevisionInv ==
  \A d \in reDeployers :
     /\ reDeployer[d].pc \in {"inserted", "switching"} => reDeployer[d].rev \in 1..Len(reRevisions)
     /\ reDeployer[d].pc = "switching" => reRevisions[reDeployer[d].rev].valid

ReIInv == Re!TypeOK /\ ReFormInv /\ ReCommitInv /\ ReUnmovedInv /\ ReRevisionInv /\ Re!RoutesAreLive

-----------------------------------------------------------------------------
LEMMA ReInitially ==
  ASSUME Re!RevisionsAssumption, Re!Init
  PROVE  ReIInv
<1>1. Re!TypeOK
  <2>1. Len(reRevisions) = 0 /\ reHead \in 1..reMaxCommits /\ reMaxRevisions >= 0
    BY DEF Re!RevisionsAssumption, Re!Init
  <2>2. \A d \in reDeployers : reDeployer[d].pc = "idle" /\ reDeployer[d].rev = 0
    BY DEF Re!Init, Re!NoDeployment
  <2>3. /\ Len(reRevisions) <= reMaxRevisions /\ {reActive, reRouted} \subseteq 0..Len(reRevisions)
        /\ \A i \in 1..Len(reRevisions) : FALSE
    BY <2>1 DEF Re!Init
  <2>4. reAuthority \in {"manual", "github"} /\ reArchived \in BOOLEAN
    BY DEF Re!Init
  <2>. QED BY <2>1, <2>2, <2>3, <2>4 DEF Re!TypeOK
<1>2. ReFormInv
  BY DEF Re!RevisionsAssumption, Re!Init, ReFormInv, Re!NoDeployment, ReDeployment
<1>3. ReCommitInv /\ ReUnmovedInv /\ ReRevisionInv /\ Re!RoutesAreLive
  BY DEF Re!Init, ReCommitInv, ReUnmovedInv, ReRevisionInv, Re!RoutesAreLive, Re!NoDeployment
<1>. QED BY <1>1, <1>2, <1>3 DEF ReIInv

\* A request begins or goes on: only its own record changes, and it is admitted by what
\* the record says.
LEMMA ReGoesOn ==
  ASSUME Re!RevisionsAssumption, ReIInv, NEW d \in reDeployers, NEW k \in ReDeployment,
         reDeployer' = [reDeployer EXCEPT ![d] = k],
         UNCHANGED <<reHead, reAuthority, reRevisions, reActive, reRouted>>,
         reArchived' \in BOOLEAN, reArchived' => reArchived,
         k.pc # "idle" => k.commit <= reHead,
         k.pc \in {"targeted", "compiled", "inserted"} /\ ~k.moved /\ k.kind # "install" => reAuthority = k.kind,
         k.pc \in {"compiled", "inserted"} /\ ~k.moved /\ k.kind = "github" /\ Re!Of(reActive).kind = "github" =>
           Re!Of(reActive).commit <= k.commit,
         k.pc = "switching" /\ ~k.moved => reActive = k.rev,
         k.rev \in 0..Len(reRevisions),
         k.pc \in {"inserted", "switching"} => k.rev # 0,
         k.pc = "switching" => reRevisions[k.rev].valid
  PROVE  ReIInv'
<1>1. /\ reDeployer'[d] = k /\ reDeployer' \in [reDeployers -> ReDeployment]
      /\ \A x \in reDeployers \ {d} : reDeployer'[x] = reDeployer[x]
  BY DEF ReIInv, ReFormInv
<1>2. \A i : Re!Of(i)' = Re!Of(i)
  BY DEF Re!Of, Re!NoRevision
<1>3. Re!TypeOK'
  <2>1. ASSUME NEW x \in reDeployers
        PROVE  /\ reDeployer'[x].pc \in {"idle", "targeted", "compiled", "inserted", "switching"}
               /\ reDeployer'[x].rev \in 0..Len(reRevisions)
    BY <1>1 DEF ReIInv, Re!TypeOK, ReDeployment
  <2>. QED BY <2>1 DEF ReIInv, Re!TypeOK
<1>4. ReFormInv' /\ ReCommitInv'
  BY <1>1 DEF ReIInv, ReFormInv, ReCommitInv
<1>5. ReUnmovedInv'
  <2>1. SUFFICES ASSUME NEW x \in reDeployers
                 PROVE  LET j == reDeployer'[x] IN
                        /\ j.pc \in {"targeted", "compiled", "inserted"} /\ ~j.moved /\ j.kind # "install" =>
                             reAuthority = j.kind
                        /\ j.pc \in {"compiled", "inserted"} /\ ~j.moved /\ j.kind = "github" /\ Re!Of(reActive).kind = "github" =>
                             Re!Of(reActive).commit <= j.commit
                        /\ j.pc = "switching" /\ ~j.moved => reActive = j.rev
    BY <1>2 DEF ReUnmovedInv
  <2>2. CASE x = d
    BY <1>1, <2>2
  <2>3. CASE x # d
    <3>1. reDeployer'[x] = reDeployer[x]
      BY <1>1, <2>3
    <3>. QED BY <3>1 DEF ReIInv, ReUnmovedInv
  <2>. QED BY <2>2, <2>3
<1>6. ReRevisionInv'
  <2>1. SUFFICES ASSUME NEW x \in reDeployers
                 PROVE  /\ reDeployer'[x].pc \in {"inserted", "switching"} => reDeployer'[x].rev \in 1..Len(reRevisions)
                        /\ reDeployer'[x].pc = "switching" => reRevisions[reDeployer'[x].rev].valid
    BY DEF ReRevisionInv
  <2>2. CASE x = d
    BY <1>1, <2>2
  <2>3. CASE x # d
    BY <1>1, <2>3 DEF ReIInv, ReRevisionInv
  <2>. QED BY <2>2, <2>3
<1>7. Re!RoutesAreLive'
  BY DEF ReIInv, Re!RoutesAreLive
<1>. QED BY <1>3, <1>4, <1>5, <1>6, <1>7 DEF ReIInv

LEMMA ReNoneIsOne ==
  ASSUME Re!RevisionsAssumption
  PROVE  Re!NoDeployment \in ReDeployment /\ Re!NoDeployment.pc = "idle" /\ Re!NoDeployment.rev = 0
BY DEF Re!RevisionsAssumption, Re!NoDeployment, ReDeployment

LEMMA ReLeaveKeeps ==
  ASSUME Re!RevisionsAssumption, ReIInv, NEW d \in reDeployers, Re!Leave(d),
         UNCHANGED <<reHead, reAuthority, reArchived, reRevisions, reActive, reRouted>>
  PROVE  ReIInv'
<1>1. reDeployer' = [reDeployer EXCEPT ![d] = Re!NoDeployment]
  BY DEF Re!Leave
<1>2. Len(reRevisions) \in Nat /\ reArchived \in BOOLEAN
  BY DEF ReIInv, ReFormInv, Re!TypeOK
<1>3. /\ Re!NoDeployment \in ReDeployment /\ Re!NoDeployment.pc = "idle"
      /\ Re!NoDeployment.rev \in 0..Len(reRevisions)
  BY <1>2, ReNoneIsOne
<1>4. reArchived' \in BOOLEAN /\ (reArchived' => reArchived)
  BY <1>2
<1>. HIDE DEF Re!NoDeployment
<1>. QED BY <1>1, <1>3, <1>4, ReGoesOn

\* The requests read, are refused or fail.
LEMMA ReRequestKeeps ==
  ASSUME Re!RevisionsAssumption, ReIInv, NEW d \in reDeployers,
         \/ \E commit \in 0..reHead : Re!BeginSync(d, commit)
         \/ Re!SyncHead(d) \/ Re!BeginSave(d) \/ Re!BeginInstall(d) \/ Re!Fail(d) \/ Re!BeginSwitch(d)
  PROVE  ReIInv'
<1>0. /\ Len(reRevisions) \in Nat /\ reArchived \in BOOLEAN /\ reHead \in 1..reMaxCommits
      /\ reMaxCommits \in Nat
      /\ reDeployer[d] \in ReDeployment /\ reActive \in 0..Len(reRevisions)
      /\ reDeployer[d].rev \in 0..Len(reRevisions)
  BY DEF ReIInv, ReFormInv, Re!TypeOK, Re!RevisionsAssumption
<1>1. ASSUME NEW commit \in 0..reHead, Re!BeginSync(d, commit) PROVE ReIInv'
  <2> DEFINE k == [pc |-> "targeted", kind |-> "github", commit |-> commit, rev |-> 0, moved |-> FALSE]
  <2>1. /\ reDeployer' = [reDeployer EXCEPT ![d] = k] /\ reAuthority = "github"
        /\ UNCHANGED <<reHead, reAuthority, reArchived, reRevisions, reActive, reRouted>>
    BY <1>1 DEF Re!BeginSync, Re!Begun, Re!Target
  <2>2. k \in ReDeployment /\ k.commit <= reHead
    BY <1>0 DEF ReDeployment
  <2>3. k.pc = "targeted" /\ k.kind = "github" /\ k.rev = 0 /\ ~k.moved
    OBVIOUS
  <2>. HIDE DEF k
  <2>4. /\ k.pc \in {"targeted", "compiled", "inserted"} /\ ~k.moved /\ k.kind # "install" => reAuthority = k.kind
        /\ ~(k.pc \in {"compiled", "inserted"} /\ ~k.moved /\ k.kind = "github" /\ Re!Of(reActive).kind = "github")
        /\ ~(k.pc \in {"inserted", "switching"}) /\ ~(k.pc = "switching")
        /\ k.rev \in 0..Len(reRevisions)
    BY <1>0, <2>1, <2>3
  <2>5. reArchived' \in BOOLEAN /\ (reArchived' => reArchived)
    BY <1>0, <2>1
  <2>. QED BY <2>1, <2>2, <2>4, <2>5, ReGoesOn
<1>2. ASSUME Re!SyncHead(d) PROVE ReIInv'
  <2>1. CASE Re!HeadFor(reDeployer[d].commit) = 0
    BY <1>2, <2>1, ReLeaveKeeps DEF Re!SyncHead
  <2>2. CASE Re!HeadFor(reDeployer[d].commit) # 0
    <3> DEFINE k == [reDeployer[d] EXCEPT !.pc = "compiled", !.commit = reHead]
    <3>1. /\ reDeployer' = [reDeployer EXCEPT ![d] = k] /\ reDeployer[d].pc = "targeted"
          /\ UNCHANGED <<reHead, reAuthority, reArchived, reRevisions, reActive, reRouted>>
      BY <1>2, <1>0, <2>2 DEF Re!SyncHead, Re!HeadFor, ReIInv, ReFormInv, ReDeployment
    <3>2. /\ k \in ReDeployment /\ k.pc = "compiled" /\ k.commit = reHead
          /\ k.rev = reDeployer[d].rev
          /\ k.kind = reDeployer[d].kind /\ k.moved = reDeployer[d].moved
      <4>1. reHead \in 0..reMaxCommits /\ reDeployer[d].rev \in Nat
        BY <1>0
      <4> DEFINE j == reDeployer[d]
      <4>2. j \in ReDeployment
        BY <1>0
      <4>. HIDE DEF j
      <4>3. [j EXCEPT !.pc = "compiled", !.commit = reHead] \in ReDeployment
        BY <4>1, <4>2 DEF ReDeployment
      <4>4. LET i == [j EXCEPT !.pc = "compiled", !.commit = reHead] IN
            i.pc = "compiled" /\ i.commit = reHead /\ i.rev = j.rev /\ i.kind = j.kind /\ i.moved = j.moved
        BY <4>2 DEF ReDeployment
      <4>. QED BY <4>3, <4>4 DEF j
    <3>3. Re!Of(reActive).kind = "github" => Re!Of(reActive).commit <= reHead
      BY <1>0 DEF Re!Of, Re!NoRevision, ReIInv, ReCommitInv
    <3>4. ~k.moved /\ k.kind # "install" => reAuthority = k.kind
      BY <3>1, <3>2 DEF ReIInv, ReUnmovedInv
    <3>. HIDE DEF k
    <3>5. k.commit <= reHead
      BY <1>0, <3>2
    <3>. QED BY <1>0, <3>1, <3>2, <3>3, <3>4, <3>5, ReGoesOn
  <2>. QED BY <2>1, <2>2
<1>3. ASSUME Re!BeginSave(d) PROVE ReIInv'
  <2> DEFINE k == [pc |-> "compiled", kind |-> "manual", commit |-> 0, rev |-> 0, moved |-> FALSE]
  <2>1. /\ reDeployer' = [reDeployer EXCEPT ![d] = k] /\ reAuthority = "manual"
        /\ UNCHANGED <<reHead, reAuthority, reArchived, reRevisions, reActive, reRouted>>
    BY <1>3 DEF Re!BeginSave, Re!Begun
  <2>2. k \in ReDeployment /\ k.commit <= reHead
    BY <1>0 DEF ReDeployment
  <2>3. k.pc = "compiled" /\ k.kind = "manual" /\ k.rev = 0 /\ ~k.moved
    OBVIOUS
  <2>. HIDE DEF k
  <2>4. /\ k.pc \in {"targeted", "compiled", "inserted"} /\ ~k.moved /\ k.kind # "install" => reAuthority = k.kind
        /\ ~(k.pc \in {"compiled", "inserted"} /\ ~k.moved /\ k.kind = "github" /\ Re!Of(reActive).kind = "github")
        /\ ~(k.pc \in {"inserted", "switching"}) /\ ~(k.pc = "switching")
        /\ k.rev \in 0..Len(reRevisions)
    BY <1>0, <2>1, <2>3
  <2>5. reArchived' \in BOOLEAN /\ (reArchived' => reArchived)
    BY <1>0, <2>1
  <2>. QED BY <2>1, <2>2, <2>4, <2>5, ReGoesOn
<1>4. ASSUME Re!BeginInstall(d) PROVE ReIInv'
  <2> DEFINE k == [pc |-> "compiled", kind |-> "install", commit |-> 0, rev |-> 0, moved |-> FALSE]
  <2>1. /\ reDeployer' = [reDeployer EXCEPT ![d] = k] /\ reArchived' = FALSE
        /\ UNCHANGED <<reHead, reAuthority, reRevisions, reActive, reRouted>>
    BY <1>4 DEF Re!BeginInstall, Re!Begun
  <2>2. k \in ReDeployment /\ k.commit <= reHead
    BY <1>0 DEF ReDeployment
  <2>3. k.pc = "compiled" /\ k.kind = "install" /\ k.rev = 0 /\ ~k.moved
    OBVIOUS
  <2>. HIDE DEF k
  <2>4. /\ k.pc \in {"targeted", "compiled", "inserted"} /\ ~k.moved /\ k.kind # "install" => reAuthority = k.kind
        /\ ~(k.pc \in {"compiled", "inserted"} /\ ~k.moved /\ k.kind = "github" /\ Re!Of(reActive).kind = "github")
        /\ ~(k.pc \in {"inserted", "switching"}) /\ ~(k.pc = "switching")
        /\ k.rev \in 0..Len(reRevisions)
    BY <1>0, <2>1, <2>3
  <2>5. reArchived' \in BOOLEAN /\ (reArchived' => reArchived)
    BY <1>0, <2>1
  <2>. QED BY <2>1, <2>2, <2>4, <2>5, ReGoesOn
<1>5. ASSUME Re!Fail(d) PROVE ReIInv'
  BY <1>5, ReLeaveKeeps DEF Re!Fail
<1>6. ASSUME Re!BeginSwitch(d) PROVE ReIInv'
  <2> DEFINE k == [pc |-> "switching", kind |-> "switch", commit |-> reRevisions[reActive].commit, rev |-> reActive, moved |-> FALSE]
  <2>1. /\ reDeployer' = [reDeployer EXCEPT ![d] = k] /\ reActive # 0
        /\ UNCHANGED <<reHead, reAuthority, reArchived, reRevisions, reActive, reRouted>>
    BY <1>6 DEF Re!BeginSwitch, Re!Begun
  <2>2. reActive \in 1..Len(reRevisions) /\ reRevisions[reActive] \in ReRevision
    BY <1>0, <2>1 DEF ReIInv, ReFormInv
  <2>3. k \in ReDeployment /\ k.commit <= reHead /\ reRevisions[reActive].valid
    BY <1>0, <2>1, <2>2 DEF ReDeployment, ReRevision, ReIInv, ReCommitInv, Re!RoutesAreLive
  <2>4. k.pc = "switching" /\ k.kind = "switch" /\ k.rev = reActive /\ ~k.moved
    OBVIOUS
  <2>. HIDE DEF k
  <2>. QED BY <1>0, <2>1, <2>3, <2>4, ReGoesOn
<1>. QED BY <1>1, <1>2, <1>3, <1>4, <1>5, <1>6

\* A revision is appended: what was said of the earlier ones stays true.
LEMMA ReAppending ==
  ASSUME Re!RevisionsAssumption, ReIInv, NEW r \in ReRevision, reRevisions' = Append(reRevisions,
         r),
         Len(reRevisions) < reMaxRevisions
  PROVE  /\ reRevisions' \in Seq(ReRevision) /\ Len(reRevisions') = Len(reRevisions) + 1
         /\ Len(reRevisions') <= reMaxRevisions /\ Len(reRevisions) \in Nat
         /\ \A i \in 1..Len(reRevisions) : reRevisions'[i] = reRevisions[i]
         /\ reRevisions'[Len(reRevisions) + 1] = r
         /\ \A i \in 1..Len(reRevisions') : reRevisions'[i] \in ReRevision
         /\ \A i \in 0..Len(reRevisions) : Re!Of(i)' = Re!Of(i)
BY DEF ReIInv, ReFormInv, Re!Of, Re!NoRevision, Re!RevisionsAssumption

LEMMA ReInsertKeeps ==
  ASSUME Re!RevisionsAssumption, ReIInv, NEW d \in reDeployers, NEW valid \in BOOLEAN,
         Re!Insert(d, valid)
  PROVE  ReIInv'
<1> DEFINE k == reDeployer[d]
           r == [kind |-> IF k.kind = "github" THEN "github" ELSE "manual", commit |-> k.commit, valid |-> valid]
<1>0. k \in ReDeployment /\ k.pc = "compiled" /\ k.commit <= reHead
  BY DEF ReIInv, ReFormInv, ReCommitInv, Re!Insert
<1>1. /\ r \in ReRevision /\ reRevisions' = Append(reRevisions, r)
      /\ Len(reRevisions) < reMaxRevisions
      /\ UNCHANGED <<reHead, reAuthority, reArchived, reActive, reRouted, reDecisions>>
  BY <1>0 DEF Re!Insert, Re!Inserted, ReRevision, ReDeployment
<1>2. /\ reRevisions' \in Seq(ReRevision) /\ Len(reRevisions') = Len(reRevisions) + 1
      /\ Len(reRevisions') <= reMaxRevisions /\ Len(reRevisions) \in Nat
      /\ \A i \in 1..Len(reRevisions) : reRevisions'[i] = reRevisions[i]
      /\ reRevisions'[Len(reRevisions) + 1] = r
      /\ \A i \in 1..Len(reRevisions') : reRevisions'[i] \in ReRevision
      /\ \A i \in 0..Len(reRevisions) : Re!Of(i)' = Re!Of(i)
  BY <1>1, ReAppending
<1>3. /\ reDeployer' \in [reDeployers -> ReDeployment]
      /\ \A x \in reDeployers \ {d} : reDeployer'[x] = reDeployer[x]
      /\ \/ reDeployer'[d].pc = "idle" /\ reDeployer'[d].rev = 0
         \/ reDeployer'[d] = [k EXCEPT !.pc = "inserted", !.rev = Len(reRevisions) + 1]
  <2>1. CASE valid
    <3>1. /\ reDeployer' = [reDeployer EXCEPT ![d] = [k EXCEPT !.pc = "inserted", !.rev = Len(reRevisions) + 1]]
      BY <2>1 DEF Re!Insert, ReIInv, ReFormInv
    <3>2. [k EXCEPT !.pc = "inserted", !.rev = Len(reRevisions) + 1] \in ReDeployment
      <4>1. Len(reRevisions) + 1 \in Nat /\ k.commit \in 0..reMaxCommits
        BY <1>0, <1>2 DEF ReDeployment
      <4> HIDE DEF k
      <4>. QED BY <1>0, <4>1 DEF ReDeployment
    <3>. QED BY <3>1, <3>2 DEF ReIInv, ReFormInv
  <2>2. CASE ~valid
    BY <2>2, ReNoneIsOne DEF Re!Insert, Re!Leave, ReIInv, ReFormInv
  <2>. QED BY <2>1, <2>2
<1>4. /\ reActive \in 0..Len(reRevisions) /\ reRouted \in 0..Len(reRevisions)
      /\ Re!Of(reActive)' = Re!Of(reActive)
  BY <1>1, <1>2 DEF ReIInv, Re!TypeOK, Re!Of, Re!NoRevision
<1>5. ASSUME NEW x \in reDeployers
      PROVE  /\ reDeployer'[x].rev \in 0..Len(reRevisions')
             /\ reDeployer'[x].pc \in {"idle", "targeted", "compiled", "inserted", "switching"}
             /\ reDeployer'[x].pc \in {"inserted", "switching"} => reDeployer'[x].rev \in 1..Len(reRevisions')
             /\ reDeployer'[x].pc = "switching" => reRevisions'[reDeployer'[x].rev].valid
             /\ reDeployer'[x].pc # "idle" => reDeployer'[x].commit <= reHead
  <2>1. CASE x = d
    <3>1. CASE reDeployer'[d].pc = "idle" /\ reDeployer'[d].rev = 0
      BY <1>2, <2>1, <3>1
    <3>2. CASE reDeployer'[d] = [k EXCEPT !.pc = "inserted", !.rev = Len(reRevisions) + 1]
      <4>1. /\ reDeployer'[d].pc = "inserted" /\ reDeployer'[d].rev = Len(reRevisions) + 1
            /\ reDeployer'[d].commit = k.commit
        BY <1>0, <3>2 DEF ReDeployment
      <4>. QED BY <1>0, <1>2, <2>1, <4>1
    <3>. QED BY <1>3, <3>1, <3>2
  <2>2. CASE x # d
    BY <1>2, <1>3, <2>2 DEF ReIInv, Re!TypeOK, ReRevisionInv, ReCommitInv
  <2>. QED BY <2>1, <2>2
<1>6. Re!TypeOK'
  BY <1>1, <1>2, <1>4, <1>5 DEF ReIInv, Re!TypeOK, ReRevision
<1>7. ReFormInv' /\ ReRevisionInv'
  BY <1>2, <1>3, <1>5 DEF ReFormInv, ReRevisionInv
<1>8. ReCommitInv'
  <2>1. ASSUME NEW i \in 1..Len(reRevisions') PROVE reRevisions'[i].commit <= reHead
    <3>1. CASE i \in 1..Len(reRevisions)
      BY <1>2, <3>1 DEF ReIInv, ReCommitInv
    <3>2. CASE i = Len(reRevisions) + 1
      BY <1>0, <1>2, <3>2
    <3>. QED BY <1>2, <3>1, <3>2
  <2>. QED BY <1>1, <1>5, <2>1 DEF ReCommitInv
<1>9. ReUnmovedInv'
  <2>1. SUFFICES ASSUME NEW x \in reDeployers
                 PROVE  LET j == reDeployer'[x] IN
                        /\ j.pc \in {"targeted", "compiled", "inserted"} /\ ~j.moved /\ j.kind # "install" =>
                             reAuthority = j.kind
                        /\ j.pc \in {"compiled", "inserted"} /\ ~j.moved /\ j.kind = "github" /\ Re!Of(reActive).kind = "github" =>
                             Re!Of(reActive).commit <= j.commit
                        /\ j.pc = "switching" /\ ~j.moved => reActive = j.rev
    BY <1>1, <1>4 DEF ReUnmovedInv
  <2>2. CASE x = d /\ reDeployer'[d] = [k EXCEPT !.pc = "inserted", !.rev = Len(reRevisions) + 1]
    <3>1. /\ reDeployer'[x].pc = "inserted" /\ reDeployer'[x].kind = k.kind
          /\ reDeployer'[x].moved = k.moved
          /\ reDeployer'[x].commit = k.commit
      BY <1>0, <2>2 DEF ReDeployment
    <3>. QED BY <1>0, <3>1 DEF ReIInv, ReUnmovedInv
  <2>3. CASE x # d
    <3>1. reDeployer'[x] = reDeployer[x]
      BY <1>3, <2>3
    <3>. QED BY <3>1 DEF ReIInv, ReUnmovedInv
  <2>. QED BY <1>3, <2>2, <2>3
<1>10. Re!RoutesAreLive'
  BY <1>1, <1>2, <1>4 DEF ReIInv, Re!RoutesAreLive
<1>. QED BY <1>6, <1>7, <1>8, <1>9, <1>10 DEF ReIInv

\* What the others were told before is old: nothing is known of them but their records.
LEMMA ReOvertaking ==
  ASSUME Re!RevisionsAssumption, ReIInv, NEW S \in SUBSET reDeployers,
         reDeployer' = [x \in reDeployers |-> IF x \in S \/ reDeployer[x].pc = "idle" THEN Re!NoDeployment
                                          ELSE [reDeployer[x] EXCEPT !.moved = TRUE]]
  PROVE  /\ reDeployer' \in [reDeployers -> ReDeployment]
         /\ ReUnmovedInv'
         /\ \A x \in reDeployers :
              \/ reDeployer'[x].pc = "idle" /\ reDeployer'[x].rev = 0
              \/ /\ reDeployer'[x].pc = reDeployer[x].pc /\ reDeployer'[x].rev = reDeployer[x].rev
                 /\ reDeployer'[x].commit = reDeployer[x].commit
<1>1. ASSUME NEW x \in reDeployers
      PROVE  /\ reDeployer'[x] \in ReDeployment
             /\ \/ reDeployer'[x].pc = "idle" /\ reDeployer'[x].rev = 0
                \/ /\ reDeployer'[x].pc = reDeployer[x].pc /\ reDeployer'[x].rev = reDeployer[x].rev
                   /\ reDeployer'[x].commit = reDeployer[x].commit /\ reDeployer'[x].moved
  <2>1. reDeployer[x] \in ReDeployment
    BY DEF ReIInv, ReFormInv
  <2>2. CASE x \in S \/ reDeployer[x].pc = "idle"
    BY <2>2, ReNoneIsOne
  <2>3. CASE ~(x \in S \/ reDeployer[x].pc = "idle")
    <3>1. reDeployer'[x] = [reDeployer[x] EXCEPT !.moved = TRUE]
      BY <2>3
    <3>2. reDeployer[x].pc \in {"idle", "targeted", "compiled", "inserted", "switching"}
          /\ reDeployer[x].commit \in 0..reMaxCommits /\ reDeployer[x].rev \in Nat
      BY <2>1 DEF ReDeployment
    <3> DEFINE j == reDeployer[x]
    <3>3. j \in ReDeployment
      BY <2>1
    <3>. HIDE DEF j
    <3>4. [j EXCEPT !.moved = TRUE] \in ReDeployment
      BY <3>3 DEF ReDeployment
    <3>5. LET i == [j EXCEPT !.moved = TRUE] IN i.pc = j.pc /\ i.rev = j.rev /\ i.commit = j.commit /\ i.moved
      BY <3>3 DEF ReDeployment
    <3>. QED BY <3>1, <3>4, <3>5 DEF j
  <2>. QED BY <2>2, <2>3
<1>2. ReUnmovedInv'
  BY <1>1 DEF ReUnmovedInv
<1>. QED BY <1>1, <1>2

LEMMA ReActivateKeeps ==
  ASSUME Re!RevisionsAssumption, ReIInv, NEW d \in reDeployers, Re!Activate(d)
  PROVE  ReIInv'
<1>1. /\ reActive' = reDeployer[d].rev /\ reRouted' = reDeployer[d].rev /\ ~reArchived
      /\ reRevisions[reDeployer[d].rev].valid
      /\ reDeployer[d].pc = "inserted" /\ UNCHANGED <<reHead, reAuthority, reArchived, reRevisions>>
  BY DEF Re!Activate, Re!Activatable
<1>2. reDeployer' = [x \in reDeployers |-> IF x \in {d} \/ reDeployer[x].pc = "idle" THEN Re!NoDeployment
                                       ELSE [reDeployer[x] EXCEPT !.moved = TRUE]]
  BY DEF Re!Activate, Re!Moved
<1>3. /\ reDeployer' \in [reDeployers -> ReDeployment] /\ ReUnmovedInv'
      /\ \A x \in reDeployers :
           \/ reDeployer'[x].pc = "idle" /\ reDeployer'[x].rev = 0
           \/ /\ reDeployer'[x].pc = reDeployer[x].pc /\ reDeployer'[x].rev = reDeployer[x].rev
              /\ reDeployer'[x].commit = reDeployer[x].commit
  BY <1>2, ReOvertaking
<1>4. reDeployer[d].rev \in 1..Len(reRevisions) /\ Len(reRevisions) \in Nat
  BY <1>1 DEF ReIInv, ReRevisionInv, ReFormInv
<1>5. Re!TypeOK'
  BY <1>1, <1>3, <1>4 DEF ReIInv, Re!TypeOK
<1>6. ReFormInv' /\ ReCommitInv' /\ ReRevisionInv'
  BY <1>1, <1>3 DEF ReIInv, ReFormInv, ReCommitInv, ReRevisionInv
<1>7. Re!RoutesAreLive'
  BY <1>1 DEF Re!RoutesAreLive
<1>. QED BY <1>3, <1>5, <1>6, <1>7 DEF ReIInv

LEMMA ReSwitchKeeps ==
  ASSUME Re!RevisionsAssumption, ReIInv, NEW d \in reDeployers, Re!Switch(d)
  PROVE  ReIInv'
<1> DEFINE rev == reDeployer[d].rev
           r == [kind |-> "manual", commit |-> reRevisions[rev].commit, valid |-> reRevisions[rev].valid]
<1>0. /\ rev \in 1..Len(reRevisions) /\ reRevisions[rev] \in ReRevision /\ reRevisions[rev].valid
      /\ reRevisions[rev].commit <= reHead
  BY DEF Re!Switch, ReIInv, ReRevisionInv, ReFormInv, ReCommitInv
<1>1. /\ r \in ReRevision /\ reRevisions' = Append(reRevisions, r)
      /\ Len(reRevisions) < reMaxRevisions
      /\ reActive' = Len(reRevisions) + 1 /\ reRouted' = Len(reRevisions) + 1 /\ ~reArchived
      /\ reAuthority' = "manual"
      /\ UNCHANGED <<reHead, reArchived>>
  BY <1>0 DEF Re!Switch, Re!Inserted, ReRevision
<1>2. /\ reRevisions' \in Seq(ReRevision) /\ Len(reRevisions') = Len(reRevisions) + 1
      /\ Len(reRevisions') <= reMaxRevisions /\ Len(reRevisions) \in Nat
      /\ \A i \in 1..Len(reRevisions) : reRevisions'[i] = reRevisions[i]
      /\ reRevisions'[Len(reRevisions) + 1] = r
      /\ \A i \in 1..Len(reRevisions') : reRevisions'[i] \in ReRevision
  BY <1>1, ReAppending
<1>3. reDeployer' = [x \in reDeployers |-> IF x \in {d} \/ reDeployer[x].pc = "idle" THEN Re!NoDeployment
                                       ELSE [reDeployer[x] EXCEPT !.moved = TRUE]]
  BY DEF Re!Switch, Re!Moved
<1>4. /\ reDeployer' \in [reDeployers -> ReDeployment] /\ ReUnmovedInv'
      /\ \A x \in reDeployers :
           \/ reDeployer'[x].pc = "idle" /\ reDeployer'[x].rev = 0
           \/ /\ reDeployer'[x].pc = reDeployer[x].pc /\ reDeployer'[x].rev = reDeployer[x].rev
              /\ reDeployer'[x].commit = reDeployer[x].commit
  BY <1>3, ReOvertaking
<1>5. ASSUME NEW x \in reDeployers
      PROVE  /\ reDeployer'[x].rev \in 0..Len(reRevisions')
             /\ reDeployer'[x].pc \in {"idle", "targeted", "compiled", "inserted", "switching"}
             /\ reDeployer'[x].pc \in {"inserted", "switching"} => reDeployer'[x].rev \in 1..Len(reRevisions')
             /\ reDeployer'[x].pc = "switching" => reRevisions'[reDeployer'[x].rev].valid
             /\ reDeployer'[x].pc # "idle" => reDeployer'[x].commit <= reHead
  <2>1. CASE reDeployer'[x].pc = "idle" /\ reDeployer'[x].rev = 0
    BY <1>2, <2>1
  <2>2. CASE /\ reDeployer'[x].pc = reDeployer[x].pc /\ reDeployer'[x].rev = reDeployer[x].rev
             /\ reDeployer'[x].commit = reDeployer[x].commit
    BY <1>2, <2>2 DEF ReIInv, Re!TypeOK, ReRevisionInv, ReCommitInv
  <2>. QED BY <1>4, <2>1, <2>2
<1>6. Re!TypeOK'
  BY <1>1, <1>2, <1>5 DEF ReIInv, Re!TypeOK, ReRevision
<1>7. ReFormInv' /\ ReRevisionInv'
  BY <1>2, <1>4, <1>5 DEF ReFormInv, ReRevisionInv
<1>8. ReCommitInv'
  <2>1. ASSUME NEW i \in 1..Len(reRevisions') PROVE reRevisions'[i].commit <= reHead
    <3>1. CASE i \in 1..Len(reRevisions)
      BY <1>2, <3>1 DEF ReIInv, ReCommitInv
    <3>2. CASE i = Len(reRevisions) + 1
      BY <1>0, <1>2, <3>2
    <3>. QED BY <1>2, <3>1, <3>2
  <2>. QED BY <1>1, <1>5, <2>1 DEF ReCommitInv
<1>9. Re!RoutesAreLive'
  BY <1>0, <1>1, <1>2 DEF Re!RoutesAreLive
<1>. QED BY <1>4, <1>6, <1>7, <1>8, <1>9 DEF ReIInv

LEMMA ReDecisionKeeps ==
  ASSUME Re!RevisionsAssumption, ReIInv, Re!UseGitHub \/ Re!Archive
  PROVE  ReIInv'
<1>1. /\ reAuthority' \in {"manual", "github"} /\ reArchived' \in BOOLEAN /\ UNCHANGED <<reHead,
                                                                                         reRevisions>>
      /\ \/ UNCHANGED <<reArchived, reActive, reRouted>>
         \/ reActive' = 0 /\ reRouted' = 0
  BY DEF Re!UseGitHub, Re!Archive, ReIInv, Re!TypeOK
<1> DEFINE S == {}
<1>2. reDeployer' = [x \in reDeployers |-> IF x \in S \/ reDeployer[x].pc = "idle" THEN Re!NoDeployment
                                       ELSE [reDeployer[x] EXCEPT !.moved = TRUE]]
  BY DEF Re!UseGitHub, Re!Archive
<1>0. S \in SUBSET reDeployers
  OBVIOUS
<1>. HIDE DEF S
<1>3. /\ reDeployer' \in [reDeployers -> ReDeployment] /\ ReUnmovedInv'
      /\ \A x \in reDeployers :
           \/ reDeployer'[x].pc = "idle" /\ reDeployer'[x].rev = 0
           \/ /\ reDeployer'[x].pc = reDeployer[x].pc /\ reDeployer'[x].rev = reDeployer[x].rev
              /\ reDeployer'[x].commit = reDeployer[x].commit
  BY <1>0, <1>2, ReOvertaking
<1>4. Len(reRevisions) \in Nat
  BY DEF ReIInv, ReFormInv
<1>5. Re!TypeOK'
  BY <1>1, <1>3, <1>4 DEF ReIInv, Re!TypeOK
<1>6. ReFormInv' /\ ReCommitInv' /\ ReRevisionInv'
  BY <1>1, <1>3 DEF ReIInv, ReFormInv, ReCommitInv, ReRevisionInv
<1>7. Re!RoutesAreLive'
  BY <1>1 DEF ReIInv, Re!RoutesAreLive
<1>. QED BY <1>3, <1>5, <1>6, <1>7 DEF ReIInv

LEMMA RePushKeeps ==
  ASSUME Re!RevisionsAssumption, ReIInv, Re!Push
  PROVE  ReIInv'
<1>1. /\ reHead' = reHead + 1 /\ reHead \in 1..reMaxCommits /\ reHead < reMaxCommits
      /\ reMaxCommits \in Nat
      /\ UNCHANGED <<reAuthority, reArchived, reRevisions, reActive, reRouted, reDeployer>>
  BY DEF Re!Push, ReIInv, Re!TypeOK, Re!RevisionsAssumption
<1>2. Re!TypeOK' /\ ReFormInv' /\ ReRevisionInv' /\ Re!RoutesAreLive'
  BY <1>1 DEF ReIInv, Re!TypeOK, ReFormInv, ReRevisionInv, Re!RoutesAreLive
<1>3. ReUnmovedInv'
  BY <1>1 DEF ReIInv, ReUnmovedInv, Re!Of
<1>4. ReCommitInv'
  <2>1. ASSUME NEW i \in 1..Len(reRevisions) PROVE reRevisions[i].commit \in Int
    <3>1. reRevisions[i] \in ReRevision
      BY DEF ReIInv, ReFormInv
    <3>. QED BY <1>1, <3>1 DEF ReRevision
  <2>2. ASSUME NEW x \in reDeployers PROVE reDeployer[x].commit \in Int
    BY DEF ReIInv, ReFormInv, ReDeployment
  <2>. QED BY <1>1, <2>1, <2>2 DEF ReIInv, ReCommitInv
<1>. QED BY <1>2, <1>3, <1>4 DEF ReIInv

\* Every step keeps IInv.
LEMMA ReInductive ==
  ASSUME Re!RevisionsAssumption, ReIInv, [Re!Next]_(Re!vars)
  PROVE  ReIInv'
<1>1. CASE UNCHANGED Re!vars
  BY <1>1 DEF Re!vars, ReIInv, Re!TypeOK, ReFormInv, ReCommitInv, ReUnmovedInv, ReRevisionInv,
     Re!RoutesAreLive, Re!Of
<1>. QED
  BY <1>1, ReRequestKeeps, ReInsertKeeps, ReActivateKeeps, ReSwitchKeeps, ReDecisionKeeps,
     RePushKeeps DEF Re!Next

\* What a step out of such a state may do.
LEMMA ReMoves ==
  ASSUME Re!RevisionsAssumption, ReIInv, [Re!Next]_(Re!vars)
  PROVE  Re!DeploysForward /\ Re!AuthorityIsRespected
<1>1. Re!DeploysForward
  BY DEF Re!DeploysForward, Re!Deploys, ReIInv, ReUnmovedInv, ReFormInv, ReDeployment, Re!TypeOK,
     Re!Of, ReRevision, Re!NoRevision
<1>2. ASSUME NEW d \in reDeployers, ~reDeployer[d].moved, Re!Deploys(d), reDeployer[d].kind # "install"
      PROVE  reAuthority = reDeployer[d].kind
  BY <1>2 DEF Re!Deploys, ReIInv, ReUnmovedInv
<1>3. ASSUME NEW d \in reDeployers, ~reDeployer[d].moved, reDeployer[d].pc = "switching",
             reDeployer'[d].pc = "idle", reActive' > Len(reRevisions)
      PROVE  /\ Re!Of(reActive).commit = reRevisions'[reActive'].commit
             /\ reRevisions'[reActive'].valid
  <2>1. reActive \in 0..Len(reRevisions) /\ Len(reRevisions) \in Nat
    BY DEF ReIInv, Re!TypeOK, ReFormInv
  <2>2. \E x \in reDeployers : Re!Activate(x) \/ Re!Switch(x)
    <3>1. ~(reActive' = reActive) /\ ~(reActive' = 0)
      BY <1>3, <2>1
    <3>2. ~Re!UseGitHub /\ ~Re!Archive /\ ~Re!Push /\ ~(UNCHANGED Re!vars)
      BY <3>1 DEF Re!UseGitHub, Re!Archive, Re!Push, Re!vars
    <3>3. PICK x \in reDeployers :
            \/ \E commit \in 0..reHead : Re!BeginSync(x, commit)
            \/ Re!SyncHead(x) \/ Re!BeginSave(x) \/ Re!BeginInstall(x)
            \/ \E valid \in BOOLEAN : Re!Insert(x, valid)
            \/ Re!Activate(x) \/ Re!Fail(x) \/ Re!BeginSwitch(x) \/ Re!Switch(x)
      BY <3>2 DEF Re!Next
    <3>4. /\ \A commit : ~Re!BeginSync(x, commit)
          /\ ~Re!SyncHead(x) /\ ~Re!BeginSave(x) /\ ~Re!BeginInstall(x) /\ ~Re!Fail(x)
          /\ ~Re!BeginSwitch(x)
      BY <3>1 DEF Re!BeginSync, Re!SyncHead, Re!BeginSave, Re!BeginInstall, Re!Fail, Re!BeginSwitch
    <3>5. \A valid : ~Re!Insert(x, valid)
      BY <3>1 DEF Re!Insert
    <3>. QED BY <3>3, <3>4, <3>5
  <2>3. PICK x \in reDeployers : Re!Switch(x)
    BY <1>3, <2>1, <2>2 DEF Re!Activate, ReIInv, ReRevisionInv
  <2>4. x = d
    BY <1>3, <2>3, ReNoneIsOne DEF Re!Switch, Re!Moved, ReIInv, ReFormInv, ReDeployment
  <2>5. reActive = reDeployer[d].rev /\ reActive # 0 /\ reActive' = Len(reRevisions) + 1
    BY <1>3, <2>3, <2>4 DEF Re!Switch, ReIInv, ReUnmovedInv
  <2>6. /\ reRevisions'[Len(reRevisions) + 1].commit = reRevisions[reActive].commit
        /\ reRevisions'[Len(reRevisions) + 1].valid = reRevisions[reActive].valid
    BY <2>1, <2>3, <2>4, <2>5 DEF Re!Switch, Re!Inserted, ReIInv, ReFormInv
  <2>. QED BY <2>5, <2>6 DEF Re!Of, ReIInv, Re!RoutesAreLive
<1>. QED BY <1>1, <1>2, <1>3 DEF Re!AuthorityIsRespected

LEMMA ReSafe ==
  ASSUME ReIInv
  PROVE  Re!TypeOK /\ Re!RoutesAreLive
BY DEF ReIInv

LEMMA ReInvariance ==
  ASSUME Re!RevisionsAssumption
  PROVE  Re!Spec => []ReIInv
<1>1. Re!Init => ReIInv
  BY ReInitially
<1>2. ReIInv /\ [Re!Next]_(Re!vars) => ReIInv'
  BY ReInductive
<1>. QED BY <1>1, <1>2, PTL DEF Re!Spec

\* Events are routed by the active revision, which is valid, in a project that is live.
THEOREM ReLiveRoutes ==
  ASSUME Re!RevisionsAssumption
  PROVE  Re!Spec => []Re!RoutesAreLive
<1>1. ReIInv => Re!RoutesAreLive
  BY ReSafe
<1>. QED BY <1>1, ReInvariance, PTL

\* Deployments go forward, each under its authority.
THEOREM ReDeploymentsAreOrdered ==
  ASSUME Re!RevisionsAssumption
  PROVE  Re!Spec => [][Re!DeploysForward /\ Re!AuthorityIsRespected]_(Re!vars)
<1>1. ReIInv /\ [Re!Next]_(Re!vars) => [Re!DeploysForward /\ Re!AuthorityIsRespected]_(Re!vars)
  BY ReMoves
<1>. QED BY <1>1, ReInvariance, PTL DEF Re!Spec

-----------------------------------------------------------------------------
(* The registry of daemons *)

CONSTANTS daSockets, daAsks, daMaxUpdates, daMaxWriteFailures
VARIABLES daRow, daLink, daRegistered, daUp, daDown, daAsk, daRevoking,
          daUpdating, daUpdates, daWriteFailures, daCrossed

Da == INSTANCE DaemonRegistry WITH
    Sockets <- daSockets, Asks <- daAsks, MaxUpdates <- daMaxUpdates,
    MaxWriteFailures <- daMaxWriteFailures, row <- daRow, link <- daLink,
    registered <- daRegistered, up <- daUp, down <- daDown, ask <- daAsk,
    revoking <- daRevoking, updating <- daUpdating, updates <- daUpdates,
    writeFailures <- daWriteFailures, crossed <- daCrossed

DaLinks == [st : {"new", "checked", "open", "closing", "closed"}, ready : BOOLEAN,
          execute : BOOLEAN, missed : BOOLEAN]

DaFormInv ==
  /\ daUpdating \in [pc : {"none", "written"}, execute : BOOLEAN]
  /\ daUpdating.pc = "none" => daUpdating = Da!NoUpdate
  /\ daWriteFailures \in Nat /\ daCrossed \in BOOLEAN

\* A socket goes through its states once; the registered one is the open one, and the
\* writes follow what it went through.
DaSocketInv ==
  \A s \in daSockets :
     /\ daRegistered = s => daLink[s].st \in {"open", "closing"}
     /\ daLink[s].st = "open" => daRegistered = s
     /\ daLink[s].st \in {"new", "checked"} => daUp[s] = "none" /\ daDown[s] = "none"
     /\ daLink[s].ready <=> daUp[s] # "none"
     /\ daDown[s] # "none" => daLink[s].st = "closed"
     /\ daUp[s] = "sent" => daDown[s] \in {"none", "waiting"}

\* A socket that missed nothing has the permission of the row, but while it is changed.
DaPermitInv ==
  /\ daUpdating.pc = "written" => daUpdating.execute = daRow.execute
  /\ \A s \in daSockets :
       daLink[s].st \in {"checked", "open"} /\ ~daLink[s].missed /\ daUpdating.pc = "none" =>
         daLink[s].execute = daRow.execute

DaRevokeInv ==
  /\ daRevoking = "none" <=> daRow.status = "active"
  /\ daRevoking = "done" => \A s \in daSockets : daLink[s].st \in {"checked", "open"} => daLink[s].missed

\* A connection that began and is over has left a write of its end.
DaEndInv ==
  daRegistered = None =>
    \A s \in daSockets : daLink[s].st \notin {"new", "checked"} => \E x \in daSockets : daDown[x] # "none"

\* What the row says while every write has succeeded in order.
DaPresenceInv ==
  ~daCrossed /\ daWriteFailures = 0 =>
    /\ \A s \in daSockets :
         daRegistered = s /\ daUp[s] = "done" /\ daLink[s].st = "open" /\ daRevoking # "written" =>
           daRow.presence = "connected"
    /\ daRegistered = None /\ daRow.presence = "connected" =>
         \E s \in daSockets : daDown[s] \in {"waiting", "sent"}

DaIInv ==
  /\ Da!TypeOK /\ DaFormInv /\ DaSocketInv /\ DaPermitInv /\ DaRevokeInv /\ DaEndInv
  /\ DaPresenceInv
  /\ Da!PendingIsOnTheLine

-----------------------------------------------------------------------------
LEMMA DaInitially ==
  ASSUME Da!RegistryAssumption, Da!Init
  PROVE  DaIInv
<1>1. Da!TypeOK
  BY DEF Da!RegistryAssumption, Da!Init, Da!TypeOK, Da!NoLink
<1>2. DaFormInv
  BY DEF Da!Init, DaFormInv, Da!NoUpdate
<1>3. /\ DaSocketInv /\ DaPermitInv /\ DaRevokeInv /\ DaEndInv /\ DaPresenceInv
      /\ Da!PendingIsOnTheLine
  BY DEF Da!RegistryAssumption, Da!Init, DaSocketInv, DaPermitInv, DaRevokeInv, DaEndInv,
     DaPresenceInv, Da!PendingIsOnTheLine, Da!NoLink, Da!NoUpdate
<1>. QED BY <1>1, <1>2, <1>3 DEF DaIInv

LEMMA DaTyped ==
  ASSUME DaIInv, NEW s \in daSockets
  PROVE  daLink[s] \in DaLinks
BY DEF DaIInv, Da!TypeOK, DaLinks

LEMMA DaUpgradeKeeps ==
  ASSUME Da!RegistryAssumption, DaIInv, NEW s \in daSockets, Da!Upgrade(s)
  PROVE  DaIInv'
<1> DEFINE l == daLink[s]
<1>0. l \in DaLinks /\ daRow.execute \in BOOLEAN
  BY DaTyped DEF DaIInv, Da!TypeOK
<1>1. /\ daLink' = [daLink EXCEPT ![s] = [l EXCEPT !.st = "checked", !.execute = daRow.execute]]
      /\ l.st = "new" /\ daRow.status = "active"
      /\ UNCHANGED <<daRow, daRegistered, daUp, daDown, daAsk, daRevoking, daUpdating, daUpdates,
                     daWriteFailures, daCrossed>>
  BY DEF Da!Upgrade, Da!Admitted, DaIInv, Da!TypeOK
<1>. HIDE DEF l
<1>2. /\ [l EXCEPT !.st = "checked", !.execute = daRow.execute] \in DaLinks
      /\ [l EXCEPT !.st = "checked", !.execute = daRow.execute].st = "checked"
      /\ [l EXCEPT !.st = "checked", !.execute = daRow.execute].execute = daRow.execute
      /\ [l EXCEPT !.st = "checked", !.execute = daRow.execute].ready = l.ready
  BY <1>0 DEF DaLinks
<1>3. /\ daLink' \in [daSockets -> DaLinks] /\ daLink'[s].st = "checked"
      /\ daLink'[s].execute = daRow.execute
      /\ daLink'[s].ready = daLink[s].ready /\ daLink[s].st = "new"
      /\ \A x \in daSockets \ {s} : daLink'[x] = daLink[x]
  BY <1>1, <1>2 DEF DaIInv, Da!TypeOK, DaLinks, l
<1>4. Da!TypeOK' /\ DaFormInv'
  BY <1>1, <1>3 DEF DaIInv, Da!TypeOK, DaFormInv, DaLinks
<1>5. DaSocketInv'
  BY <1>1, <1>3 DEF DaIInv, DaSocketInv
<1>6. DaPermitInv' /\ DaRevokeInv'
  BY <1>1, <1>3 DEF DaIInv, DaPermitInv, DaRevokeInv
<1>7. DaEndInv' /\ DaPresenceInv' /\ Da!PendingIsOnTheLine'
  BY <1>1, <1>3 DEF DaIInv, DaEndInv, DaPresenceInv, Da!PendingIsOnTheLine
<1>. QED BY <1>4, <1>5, <1>6, <1>7 DEF DaIInv

\* What was asked of socket s ends.
LEMMA DaRejecting ==
  ASSUME DaIInv, NEW s, daAsk' = Da!RejectGeneration(s)
  PROVE  /\ daAsk' \in [daAsks -> [st : {"free", "pending", "answered", "rejected"}, of : daSockets \cup {None}]]
         /\ \A q \in daAsks : daAsk'[q].st = "pending" => daAsk[q].st = "pending" /\ daAsk[q].of # s
                                                        /\ daAsk'[q].of = daAsk[q].of
<1> DEFINE Questions == [st : {"free", "pending", "answered", "rejected"}, of : daSockets \cup {None}]
<1>1. ASSUME NEW k \in Questions PROVE [k EXCEPT !.st = "rejected"] \in Questions
                                         /\ [k EXCEPT !.st = "rejected"].st = "rejected"
  OBVIOUS
<1>2. \A q \in daAsks : daAsk[q] \in Questions
  BY DEF DaIInv, Da!TypeOK
<1>. HIDE DEF Questions
<1>3. \A q \in daAsks : daAsk'[q] = daAsk[q] \/ (daAsk[q].st = "pending" /\ daAsk[q].of = s /\ daAsk'[q] = [daAsk[q] EXCEPT !.st = "rejected"])
  BY DEF Da!RejectGeneration
<1>4. ASSUME NEW q \in daAsks PROVE daAsk'[q] \in Questions
  <2> DEFINE k == daAsk[q]
  <2>1. k \in Questions /\ (daAsk'[q] = k \/ daAsk'[q] = [k EXCEPT !.st = "rejected"])
    BY <1>2, <1>3
  <2>. HIDE DEF k
  <2>2. [k EXCEPT !.st = "rejected"] \in Questions
    BY <2>1 DEF Questions
  <2>. QED BY <2>1, <2>2
<1>5. daAsk' \in [daAsks -> Questions]
  BY <1>4 DEF Da!RejectGeneration
<1>6. \A q \in daAsks : daAsk'[q].st = "pending" => daAsk'[q] = daAsk[q] /\ ~(daAsk[q].st = "pending" /\ daAsk[q].of = s)
  <2>1. SUFFICES ASSUME NEW q \in daAsks, daAsk'[q].st = "pending"
                 PROVE  daAsk'[q] = daAsk[q] /\ ~(daAsk[q].st = "pending" /\ daAsk[q].of = s)
    OBVIOUS
  <2>2. CASE daAsk[q].st = "pending" /\ daAsk[q].of = s
    <3>1. daAsk'[q] = [daAsk[q] EXCEPT !.st = "rejected"]
      BY <2>2 DEF Da!RejectGeneration
    <3>. QED BY <1>1, <1>2, <2>1, <3>1
  <2>3. CASE ~(daAsk[q].st = "pending" /\ daAsk[q].of = s)
    BY <2>3 DEF Da!RejectGeneration
  <2>. QED BY <2>2, <2>3
<1>. QED BY <1>5, <1>6 DEF Questions

LEMMA DaAcceptKeeps ==
  ASSUME Da!RegistryAssumption, DaIInv, NEW s \in daSockets, NEW legacy \in BOOLEAN, Da!Accept(s,
         legacy)
  PROVE  DaIInv'
<1>1. /\ daLink[s].st = "checked" /\ daAsk' = Da!RejectGeneration(daRegistered) /\ daRegistered' = s
      /\ daUp' = IF legacy THEN [daUp EXCEPT ![s] = "sent"] ELSE daUp
      /\ UNCHANGED <<daRow, daDown, daRevoking, daUpdating, daUpdates, daWriteFailures, daCrossed>>
  BY DEF Da!Accept
<1>2. daRegistered # s /\ daUp[s] = "none" /\ daDown[s] = "none"
  BY <1>1 DEF DaIInv, DaSocketInv
<1>3. /\ daLink'[s] \in DaLinks /\ daLink'[s].st = "open" /\ daLink'[s].ready = legacy
      /\ daLink'[s].execute = daLink[s].execute /\ daLink'[s].missed = daLink[s].missed
  <2> DEFINE l == daLink[s]
  <2>1. daLink'[s] = [l EXCEPT !.st = "open", !.ready = legacy]
    BY DEF Da!Accept
  <2>2. l \in DaLinks
    BY DaTyped
  <2>. HIDE DEF l
  <2>3. LET k == [l EXCEPT !.st = "open", !.ready = legacy] IN
        k \in DaLinks /\ k.st = "open" /\ k.ready = legacy /\ k.execute = l.execute /\ k.missed = l.missed
    BY <2>2 DEF DaLinks
  <2>. QED BY <2>1, <2>3 DEF l
<1>4. ASSUME NEW x \in daSockets \ {s}
      PROVE  /\ daLink'[x] \in DaLinks /\ daLink'[x].ready = daLink[x].ready
             /\ daLink'[x].execute = daLink[x].execute /\ daLink'[x].missed = daLink[x].missed
             /\ daLink'[x].st = IF x = daRegistered THEN "closing" ELSE daLink[x].st
  <2> DEFINE l == daLink[x]
  <2>1. CASE x = daRegistered
    <3>1. daLink'[x] = [l EXCEPT !.st = Da!Closing(x)] /\ Da!Closing(x) = "closing"
      BY <1>2, <2>1 DEF Da!Accept, Da!Closing, DaIInv, DaSocketInv
    <3>2. l \in DaLinks
      BY DaTyped
    <3>. HIDE DEF l
    <3>3. LET k == [l EXCEPT !.st = "closing"] IN
          k \in DaLinks /\ k.st = "closing" /\ k.ready = l.ready /\ k.execute = l.execute /\ k.missed = l.missed
      BY <3>2 DEF DaLinks
    <3>. QED BY <2>1, <3>1, <3>3 DEF l
  <2>2. CASE x # daRegistered
    BY <1>2, <2>2, DaTyped DEF Da!Accept
  <2>. QED BY <2>1, <2>2
<1>5. daLink' \in [daSockets -> DaLinks]
  <2>1. daLink' = [x \in daSockets |-> daLink'[x]]
    BY DEF Da!Accept
  <2>. QED BY <1>3, <1>4, <2>1
<1>6. /\ daAsk' \in [daAsks -> [st : {"free", "pending", "answered", "rejected"}, of : daSockets \cup {None}]]
      /\ \A q \in daAsks : daAsk'[q].st # "pending"
  <2>1. /\ daAsk' \in [daAsks -> [st : {"free", "pending", "answered", "rejected"}, of : daSockets \cup {None}]]
        /\ \A q \in daAsks : daAsk'[q].st = "pending" => daAsk[q].st = "pending" /\ daAsk[q].of # daRegistered
    BY <1>1, DaRejecting
  <2>. QED BY <2>1 DEF DaIInv, Da!PendingIsOnTheLine
<1>7. /\ daUp' \in [daSockets -> {"none", "sent", "done"}] /\ daUp'[s] = (IF legacy THEN "sent" ELSE "none")
      /\ \A x \in daSockets \ {s} : daUp'[x] = daUp[x]
  BY <1>1, <1>2 DEF DaIInv, Da!TypeOK
<1>8. Da!TypeOK' /\ DaFormInv'
  BY <1>1, <1>5, <1>6, <1>7 DEF DaIInv, Da!TypeOK, DaFormInv, DaLinks
<1>9. DaSocketInv'
  <2>1. SUFFICES ASSUME NEW x \in daSockets
                 PROVE  /\ s = x => daLink'[x].st \in {"open", "closing"}
                        /\ daLink'[x].st = "open" => s = x
                        /\ daLink'[x].st \in {"new", "checked"} => daUp'[x] = "none" /\ daDown[x] = "none"
                        /\ daLink'[x].ready <=> daUp'[x] # "none"
                        /\ daDown[x] # "none" => daLink'[x].st = "closed"
                        /\ daUp'[x] = "sent" => daDown[x] \in {"none", "waiting"}
    BY <1>1 DEF DaSocketInv
  <2>2. CASE x = s
    BY <1>2, <1>3, <1>7, <2>2
  <2>3. CASE x # s /\ x # daRegistered
    BY <1>4, <1>7, <2>3 DEF DaIInv, DaSocketInv
  <2>4. CASE x # s /\ x = daRegistered
    BY <1>4, <1>7, <2>4 DEF DaIInv, DaSocketInv
  <2>. QED BY <2>2, <2>3, <2>4
<1>10. DaPermitInv' /\ DaRevokeInv'
  BY <1>1, <1>3, <1>4 DEF DaIInv, DaPermitInv, DaRevokeInv
<1>11. DaEndInv'
  BY <1>1 DEF DaEndInv, Da!RegistryAssumption
<1>12. DaPresenceInv'
  BY <1>1, <1>7 DEF DaPresenceInv, Da!RegistryAssumption
<1>13. Da!PendingIsOnTheLine'
  BY <1>6 DEF Da!PendingIsOnTheLine
<1>. QED BY <1>8, <1>9, <1>10, <1>11, <1>12, <1>13 DEF DaIInv

LEMMA DaServerInfoKeeps ==
  ASSUME Da!RegistryAssumption, DaIInv, NEW s \in daSockets, NEW execute \in BOOLEAN,
         Da!ServerInfo(s, execute)
  PROVE  DaIInv'
<1> DEFINE l == daLink[s]
<1>0. /\ daRegistered = s /\ l.st \in {"open", "closing"} /\ l \in DaLinks
      /\ UNCHANGED <<daRow, daRegistered, daDown, daAsk, daRevoking, daUpdating, daUpdates,
                     daWriteFailures, daCrossed>>
  BY DaTyped DEF Da!ServerInfo, Da!Heard
<1>1. CASE execute # l.execute
  <2>1. daLink' = [daLink EXCEPT ![s] = [l EXCEPT !.st = "closing"]] /\ daUp' = daUp
    BY <1>0, <1>1 DEF Da!ServerInfo, Da!Closing, DaIInv, Da!TypeOK
  <2>. HIDE DEF l
  <2>2. LET k == [l EXCEPT !.st = "closing"] IN
        k \in DaLinks /\ k.st = "closing" /\ k.ready = l.ready /\ k.execute = l.execute /\ k.missed = l.missed
    BY <1>0 DEF DaLinks
  <2>3. /\ daLink' \in [daSockets -> DaLinks] /\ daLink'[s].st = "closing"
        /\ daLink'[s].ready = daLink[s].ready
        /\ \A x \in daSockets \ {s} : daLink'[x] = daLink[x]
    BY <2>1, <2>2 DEF DaIInv, Da!TypeOK, DaLinks, l
  <2>4. Da!TypeOK' /\ DaFormInv' /\ Da!PendingIsOnTheLine'
    BY <1>0, <2>1, <2>3 DEF DaIInv, Da!TypeOK, DaFormInv, Da!PendingIsOnTheLine, DaLinks
  <2>5. DaSocketInv'
    BY <1>0, <2>1, <2>3 DEF DaIInv, DaSocketInv, l
  <2>6. DaPermitInv' /\ DaRevokeInv'
    BY <1>0, <2>1, <2>3 DEF DaIInv, DaPermitInv, DaRevokeInv
  <2>7. DaEndInv' /\ DaPresenceInv'
    BY <1>0, <2>1, <2>3 DEF DaIInv, DaEndInv, DaPresenceInv, Da!RegistryAssumption
  <2>. QED BY <2>4, <2>5, <2>6, <2>7 DEF DaIInv
<1>2. CASE execute = l.execute
  <2>1. /\ daLink' = [daLink EXCEPT ![s] = [l EXCEPT !.ready = TRUE]]
        /\ daUp' = [daUp EXCEPT ![s] = "sent"] /\ ~l.ready
    BY <1>0, <1>2 DEF Da!ServerInfo, DaIInv, Da!TypeOK
  <2>. HIDE DEF l
  <2>2. LET k == [l EXCEPT !.ready = TRUE] IN
        k \in DaLinks /\ k.st = l.st /\ k.ready /\ k.execute = l.execute /\ k.missed = l.missed
    BY <1>0 DEF DaLinks
  <2>3. /\ daLink' \in [daSockets -> DaLinks] /\ daLink'[s].st = daLink[s].st /\ daLink'[s].ready
        /\ daLink'[s].execute = daLink[s].execute /\ daLink'[s].missed = daLink[s].missed
        /\ \A x \in daSockets \ {s} : daLink'[x] = daLink[x] /\ daUp'[x] = daUp[x]
        /\ daUp' \in [daSockets -> {"none", "sent", "done"}] /\ daUp'[s] = "sent"
        /\ daDown[s] = "none"
    BY <1>0, <2>1, <2>2 DEF DaIInv, Da!TypeOK, DaLinks, l, DaSocketInv
  <2>4. Da!TypeOK' /\ DaFormInv' /\ Da!PendingIsOnTheLine'
    BY <1>0, <2>1, <2>3 DEF DaIInv, Da!TypeOK, DaFormInv, Da!PendingIsOnTheLine, DaLinks
  <2>5. DaSocketInv'
    BY <1>0, <2>1, <2>3 DEF DaIInv, DaSocketInv, l
  <2>6. DaPermitInv' /\ DaRevokeInv'
    BY <1>0, <2>1, <2>3 DEF DaIInv, DaPermitInv, DaRevokeInv
  <2>7. DaEndInv' /\ DaPresenceInv'
    BY <1>0, <2>1, <2>3 DEF DaIInv, DaEndInv, DaPresenceInv, Da!RegistryAssumption
  <2>. QED BY <2>4, <2>5, <2>6, <2>7 DEF DaIInv
<1>. QED BY <1>1, <1>2

LEMMA DaClosedKeeps ==
  ASSUME Da!RegistryAssumption, DaIInv, NEW s \in daSockets, Da!Closed(s)
  PROVE  DaIInv'
<1> DEFINE l == daLink[s]
<1>0. /\ l.st \in {"open", "closing"} /\ l \in DaLinks
      /\ daLink' = [daLink EXCEPT ![s] = [l EXCEPT !.st = "closed"]]
      /\ UNCHANGED <<daRow, daUp, daRevoking, daUpdating, daUpdates, daWriteFailures, daCrossed>>
  BY DaTyped DEF Da!Closed, DaIInv, Da!TypeOK
<1>. HIDE DEF l
<1>1. LET k == [l EXCEPT !.st = "closed"] IN
      k \in DaLinks /\ k.st = "closed" /\ k.ready = l.ready
  BY <1>0 DEF DaLinks
<1>2. /\ daLink' \in [daSockets -> DaLinks] /\ daLink'[s].st = "closed"
      /\ daLink'[s].ready = daLink[s].ready
      /\ \A x \in daSockets \ {s} : daLink'[x] = daLink[x]
      /\ daLink[s].st \in {"open", "closing"} /\ daDown[s] = "none"
  BY <1>0, <1>1 DEF DaIInv, Da!TypeOK, DaLinks, l, DaSocketInv
<1>3. DaPermitInv' /\ DaRevokeInv' /\ DaFormInv'
  BY <1>0, <1>2 DEF DaIInv, DaPermitInv, DaRevokeInv, DaFormInv
<1>4. CASE daRegistered = s
  <2>1. /\ daRegistered' = None /\ daAsk' = Da!RejectGeneration(s)
        /\ daDown' = [daDown EXCEPT ![s] = "waiting"]
    BY <1>4 DEF Da!Closed
  <2>2. /\ daAsk' \in [daAsks -> [st : {"free", "pending", "answered", "rejected"}, of : daSockets \cup {None}]]
        /\ \A q \in daAsks : daAsk'[q].st = "pending" => daAsk[q].st = "pending" /\ daAsk[q].of # s
    BY <2>1, DaRejecting
  <2>3. Da!PendingIsOnTheLine'
    BY <1>4, <2>2 DEF DaIInv, Da!PendingIsOnTheLine
  <2>4. /\ daDown' \in [daSockets -> {"none", "waiting", "sent", "done"}] /\ daDown'[s] = "waiting"
        /\ \A x \in daSockets \ {s} : daDown'[x] = daDown[x]
    BY <2>1 DEF DaIInv, Da!TypeOK
  <2>5. Da!TypeOK'
    BY <1>0, <1>2, <2>1, <2>2, <2>4 DEF DaIInv, Da!TypeOK, DaLinks
  <2>6. DaSocketInv'
    BY <1>0, <1>2, <1>4, <2>1, <2>4 DEF DaIInv, DaSocketInv, Da!RegistryAssumption
  <2>7. DaEndInv' /\ DaPresenceInv'
    BY <2>1, <2>4 DEF DaEndInv, DaPresenceInv, Da!RegistryAssumption
  <2>. QED BY <1>3, <2>3, <2>5, <2>6, <2>7 DEF DaIInv
<1>5. CASE daRegistered # s
  <2>1. UNCHANGED <<daRegistered, daAsk, daDown>>
    BY <1>5 DEF Da!Closed
  <2>2. Da!TypeOK' /\ Da!PendingIsOnTheLine'
    BY <1>0, <1>2, <2>1 DEF DaIInv, Da!TypeOK, Da!PendingIsOnTheLine, DaLinks
  <2>3. DaSocketInv'
    BY <1>0, <1>2, <1>5, <2>1 DEF DaIInv, DaSocketInv
  <2>4. DaEndInv' /\ DaPresenceInv'
    BY <1>0, <1>2, <1>5, <2>1 DEF DaIInv, DaEndInv, DaPresenceInv
  <2>. QED BY <1>3, <2>2, <2>3, <2>4 DEF DaIInv
<1>. QED BY <1>4, <1>5

\* A presence write lands.
LEMMA DaWriting ==
  ASSUME Da!RegistryAssumption, DaIInv, NEW presence \in {"offline", "connected"},
         NEW fails \in BOOLEAN,
         Da!Write(presence, fails)
  PROVE  /\ daRow' \in [status : {"active", "revoked"}, presence : {"offline", "connected"}, execute : BOOLEAN]
         /\ daRow'.status = daRow.status /\ daRow'.execute = daRow.execute
         /\ daWriteFailures' \in Nat
         /\ daWriteFailures' = 0 => daWriteFailures = 0 /\ daRow'.presence = presence
<1>1. daRow \in [status : {"active", "revoked"}, presence : {"offline", "connected"}, execute : BOOLEAN]
      /\ daWriteFailures \in Nat
  BY DEF DaIInv, Da!TypeOK, DaFormInv
<1>2. CASE fails
  BY <1>1, <1>2 DEF Da!Write
<1>3. CASE ~fails
  BY <1>1, <1>3 DEF Da!Write
<1>. QED BY <1>2, <1>3

LEMMA DaConnectedWrittenKeeps ==
  ASSUME Da!RegistryAssumption, DaIInv, NEW s \in daSockets, NEW fails \in BOOLEAN,
         Da!ConnectedWritten(s, fails)
  PROVE  DaIInv'
<1>1. /\ daRow' \in [status : {"active", "revoked"}, presence : {"offline", "connected"}, execute : BOOLEAN]
      /\ daRow'.status = daRow.status /\ daRow'.execute = daRow.execute
      /\ daWriteFailures' \in Nat
      /\ daWriteFailures' = 0 => daWriteFailures = 0 /\ daRow'.presence = "connected"
  BY DaWriting DEF Da!ConnectedWritten
<1>2. /\ daUp[s] = "sent" /\ daUp' = [daUp EXCEPT ![s] = "done"]
      /\ UNCHANGED <<daLink, daRegistered, daDown, daAsk, daRevoking, daUpdating, daUpdates>>
      /\ daCrossed' \in BOOLEAN
      /\ ~daCrossed' => ~daCrossed /\ (daRegistered # s => \A x \in daSockets \ {s} : daDown[x] = "none")
  BY DEF Da!ConnectedWritten, DaIInv, DaFormInv
<1>3. /\ daUp' \in [daSockets -> {"none", "sent", "done"}] /\ daUp'[s] = "done"
      /\ \A x \in daSockets \ {s} : daUp'[x] = daUp[x]
  BY <1>2 DEF DaIInv, Da!TypeOK
<1>4. Da!TypeOK' /\ DaFormInv' /\ Da!PendingIsOnTheLine'
  BY <1>1, <1>2, <1>3 DEF DaIInv, Da!TypeOK, DaFormInv, Da!PendingIsOnTheLine
<1>5. DaSocketInv'
  BY <1>2, <1>3 DEF DaIInv, DaSocketInv
<1>6. DaPermitInv' /\ DaRevokeInv' /\ DaEndInv'
  BY <1>1, <1>2 DEF DaIInv, DaPermitInv, DaRevokeInv, DaEndInv
<1>7. DaPresenceInv'
  <2>1. SUFFICES ASSUME ~daCrossed', daWriteFailures' = 0, daRegistered = None
                 PROVE  \E x \in daSockets : daDown[x] \in {"waiting", "sent"}
    BY <1>1, <1>2 DEF DaPresenceInv
  <2>2. daLink[s].st \notin {"new", "checked"}
    BY <1>2 DEF DaIInv, DaSocketInv
  <2>3. PICK x \in daSockets : daDown[x] # "none"
    BY <2>1, <2>2 DEF DaIInv, DaEndInv
  <2>4. x = s
    BY <1>2, <2>1, <2>3 DEF Da!RegistryAssumption
  <2>. QED BY <1>2, <2>3, <2>4 DEF DaIInv, DaSocketInv
<1>. QED BY <1>4, <1>5, <1>6, <1>7 DEF DaIInv

LEMMA DaOfflineSentKeeps ==
  ASSUME Da!RegistryAssumption, DaIInv, NEW s \in daSockets, Da!OfflineSent(s)
  PROVE  DaIInv'
<1>1. /\ daDown[s] = "waiting" /\ daUp[s] # "sent" /\ daDown' = [daDown EXCEPT ![s] = "sent"]
      /\ UNCHANGED <<daRow, daLink, daRegistered, daUp, daAsk, daRevoking, daUpdating, daUpdates,
                     daWriteFailures, daCrossed>>
  BY DEF Da!OfflineSent, Da!OwnFirst
<1>2. /\ daDown' \in [daSockets -> {"none", "waiting", "sent", "done"}] /\ daDown'[s] = "sent"
      /\ \A x \in daSockets \ {s} : daDown'[x] = daDown[x]
  BY <1>1 DEF DaIInv, Da!TypeOK
<1>3. Da!TypeOK' /\ DaFormInv' /\ Da!PendingIsOnTheLine' /\ DaPermitInv' /\ DaRevokeInv'
  BY <1>1, <1>2 DEF DaIInv, Da!TypeOK, DaFormInv, Da!PendingIsOnTheLine, DaPermitInv, DaRevokeInv
<1>4. DaSocketInv'
  BY <1>1, <1>2 DEF DaIInv, DaSocketInv
<1>5. DaEndInv' /\ DaPresenceInv'
  BY <1>1, <1>2 DEF DaIInv, DaEndInv, DaPresenceInv
<1>. QED BY <1>3, <1>4, <1>5 DEF DaIInv

LEMMA DaOfflineWrittenKeeps ==
  ASSUME Da!RegistryAssumption, DaIInv, NEW s \in daSockets, NEW fails \in BOOLEAN,
         Da!OfflineWritten(s, fails)
  PROVE  DaIInv'
<1>1. /\ daRow' \in [status : {"active", "revoked"}, presence : {"offline", "connected"}, execute : BOOLEAN]
      /\ daRow'.status = daRow.status /\ daRow'.execute = daRow.execute
      /\ daWriteFailures' \in Nat
      /\ daWriteFailures' = 0 => daWriteFailures = 0 /\ daRow'.presence = "offline"
  BY DaWriting DEF Da!OfflineWritten
<1>2. /\ daDown[s] = "sent" /\ daDown' = [daDown EXCEPT ![s] = "done"]
      /\ UNCHANGED <<daLink, daRegistered, daUp, daAsk, daRevoking, daUpdating, daUpdates>>
      /\ daCrossed' \in BOOLEAN
      /\ ~daCrossed' => ~daCrossed /\ \A x \in daSockets \ {s} : ~(daRegistered = x /\ daUp[x] = "done")
  BY DEF Da!OfflineWritten, DaIInv, DaFormInv
<1>3. /\ daDown' \in [daSockets -> {"none", "waiting", "sent", "done"}] /\ daDown'[s] = "done"
      /\ \A x \in daSockets \ {s} : daDown'[x] = daDown[x]
  BY <1>2 DEF DaIInv, Da!TypeOK
<1>4. Da!TypeOK' /\ DaFormInv' /\ Da!PendingIsOnTheLine'
  BY <1>1, <1>2, <1>3 DEF DaIInv, Da!TypeOK, DaFormInv, Da!PendingIsOnTheLine
<1>5. DaSocketInv'
  BY <1>2, <1>3 DEF DaIInv, DaSocketInv
<1>6. DaPermitInv' /\ DaRevokeInv' /\ DaEndInv'
  BY <1>1, <1>2, <1>3 DEF DaIInv, DaPermitInv, DaRevokeInv, DaEndInv
<1>7. DaPresenceInv'
  <2>1. daRegistered # s
    BY <1>2 DEF DaIInv, DaSocketInv
  <2>. QED BY <1>1, <1>2, <2>1 DEF DaPresenceInv
<1>. QED BY <1>4, <1>5, <1>6, <1>7 DEF DaIInv

LEMMA DaAskKeeps ==
  ASSUME Da!RegistryAssumption, DaIInv, NEW q \in daAsks, Da!Ask(q) \/ Da!Answer(q)
  PROVE  DaIInv'
<1>1. UNCHANGED <<daRow, daLink, daRegistered, daUp, daDown, daRevoking, daUpdating, daUpdates,
                  daWriteFailures, daCrossed>>
  BY DEF Da!Ask, Da!Answer
<1>2. DaFormInv' /\ DaSocketInv' /\ DaPermitInv' /\ DaRevokeInv' /\ DaEndInv' /\ DaPresenceInv'
  BY <1>1 DEF DaIInv, DaFormInv, DaSocketInv, DaPermitInv, DaRevokeInv, DaEndInv, DaPresenceInv
<1>3. Da!TypeOK' /\ Da!PendingIsOnTheLine'
  <2>1. CASE Da!Ask(q)
    BY <1>1, <2>1 DEF Da!Ask, DaIInv, Da!TypeOK, Da!PendingIsOnTheLine
  <2>2. CASE Da!Answer(q)
    BY <1>1, <2>2 DEF Da!Answer, DaIInv, Da!TypeOK, Da!PendingIsOnTheLine
  <2>. QED BY <2>1, <2>2
<1>. QED BY <1>2, <1>3 DEF DaIInv

LEMMA DaRevokeRowKeeps ==
  ASSUME Da!RegistryAssumption, DaIInv, Da!RevokeRow
  PROVE  DaIInv'
<1>1. /\ daRow' \in [status : {"active", "revoked"}, presence : {"offline", "connected"}, execute : BOOLEAN]
      /\ daRow'.status = "revoked" /\ daRow'.presence = "offline" /\ daRow'.execute = daRow.execute
      /\ daRevoking' = "written"
      /\ UNCHANGED <<daLink, daRegistered, daUp, daDown, daAsk, daUpdating, daUpdates,
                     daWriteFailures, daCrossed>>
  BY DEF Da!RevokeRow, DaIInv, Da!TypeOK
<1>2. Da!TypeOK' /\ DaFormInv' /\ DaSocketInv' /\ DaEndInv' /\ Da!PendingIsOnTheLine'
  BY <1>1 DEF DaIInv, Da!TypeOK, DaFormInv, DaSocketInv, DaEndInv, Da!PendingIsOnTheLine
<1>3. DaPermitInv' /\ DaRevokeInv' /\ DaPresenceInv'
  BY <1>1 DEF DaIInv, DaPermitInv, DaRevokeInv, DaPresenceInv
<1>. QED BY <1>2, <1>3 DEF DaIInv

LEMMA DaRevokeKeeps ==
  ASSUME Da!RegistryAssumption, DaIInv, Da!Revoke
  PROVE  DaIInv'
<1>1. /\ daRevoking = "written" /\ daRevoking' = "done"
      /\ UNCHANGED <<daRow, daRegistered, daUp, daDown, daAsk, daUpdating, daUpdates,
                     daWriteFailures, daCrossed>>
  BY DEF Da!Revoke
<1>2. ASSUME NEW s \in daSockets
      PROVE  /\ daLink'[s] \in DaLinks /\ daLink'[s].ready = daLink[s].ready
             /\ daLink'[s].execute = daLink[s].execute
             /\ daLink'[s].st = IF s = daRegistered THEN "closing" ELSE daLink[s].st
             /\ daLink'[s].st = "checked" => daLink'[s].missed
  <2> DEFINE l == daLink[s]
  <2>1. l \in DaLinks
    BY DaTyped
  <2>2. CASE s = daRegistered
    <3>1. daLink'[s] = [l EXCEPT !.st = "closing"]
      BY <2>2 DEF Da!Revoke, Da!Closing, DaIInv, DaSocketInv
    <3>. HIDE DEF l
    <3>2. LET k == [l EXCEPT !.st = "closing"] IN
          k \in DaLinks /\ k.st = "closing" /\ k.ready = l.ready /\ k.execute = l.execute
      BY <2>1 DEF DaLinks
    <3>. QED BY <2>2, <3>1, <3>2 DEF l
  <2>3. CASE s # daRegistered
    <3>1. PICK b \in BOOLEAN : b = (l.st = "checked")
      OBVIOUS
    <3>2. daLink'[s] = [l EXCEPT !.missed = b]
      BY <2>3, <3>1 DEF Da!Revoke
    <3>. HIDE DEF l
    <3>3. LET k == [l EXCEPT !.missed = b] IN
          k \in DaLinks /\ k.st = l.st /\ k.ready = l.ready /\ k.execute = l.execute /\ k.missed = b
      BY <2>1 DEF DaLinks
    <3>. QED BY <2>3, <3>1, <3>2, <3>3 DEF l
  <2>. QED BY <2>2, <2>3
<1>3. daLink' \in [daSockets -> DaLinks]
  <2>1. daLink' = [s \in daSockets |-> daLink'[s]]
    BY DEF Da!Revoke
  <2>. QED BY <1>2, <2>1
<1>4. Da!TypeOK' /\ DaFormInv' /\ Da!PendingIsOnTheLine'
  BY <1>1, <1>3 DEF DaIInv, Da!TypeOK, DaFormInv, Da!PendingIsOnTheLine, DaLinks
<1>5. DaSocketInv'
  BY <1>1, <1>2 DEF DaIInv, DaSocketInv
<1>6. DaRevokeInv' /\ DaEndInv' /\ DaPresenceInv'
  BY <1>1, <1>2 DEF DaIInv, DaSocketInv, DaRevokeInv, DaEndInv, DaPresenceInv
<1>7. DaPermitInv'
  BY <1>1, <1>2 DEF DaIInv, DaSocketInv, DaPermitInv
<1>. QED BY <1>4, <1>5, <1>6, <1>7 DEF DaIInv

LEMMA DaUpdateRowKeeps ==
  ASSUME Da!RegistryAssumption, DaIInv, NEW execute \in BOOLEAN, Da!UpdateRow(execute)
  PROVE  DaIInv'
<1>1. /\ daRow' \in [status : {"active", "revoked"}, presence : {"offline", "connected"}, execute : BOOLEAN]
      /\ daRow'.status = daRow.status /\ daRow'.presence = daRow.presence
      /\ daRow'.execute = execute
      /\ daUpdating' = [pc |-> "written", execute |-> execute]
      /\ UNCHANGED <<daLink, daRegistered, daUp, daDown, daAsk, daRevoking, daWriteFailures,
                     daCrossed>>
  BY DEF Da!UpdateRow, DaIInv, Da!TypeOK
<1>2. Da!TypeOK' /\ DaFormInv' /\ DaSocketInv' /\ DaEndInv' /\ Da!PendingIsOnTheLine'
  BY <1>1 DEF DaIInv, Da!TypeOK, DaFormInv, DaSocketInv, DaEndInv, Da!PendingIsOnTheLine
<1>3. DaPermitInv' /\ DaRevokeInv' /\ DaPresenceInv'
  BY <1>1 DEF DaIInv, DaPermitInv, DaRevokeInv, DaPresenceInv
<1>. QED BY <1>2, <1>3 DEF DaIInv

LEMMA DaUpdateRegistryKeeps ==
  ASSUME Da!RegistryAssumption, DaIInv, Da!UpdateRegistry
  PROVE  DaIInv'
<1>1. /\ daUpdating.pc = "written" /\ daUpdating' = Da!NoUpdate
      /\ UNCHANGED <<daRow, daRegistered, daUp, daDown, daAsk, daRevoking, daUpdates,
                     daWriteFailures, daCrossed>>
  BY DEF Da!UpdateRegistry
<1>2. daUpdating.execute = daRow.execute /\ daRow.execute \in BOOLEAN
  BY <1>1 DEF DaIInv, DaPermitInv, Da!TypeOK
<1>3. ASSUME NEW s \in daSockets
      PROVE  /\ daLink'[s] \in DaLinks /\ daLink'[s].ready = daLink[s].ready
             /\ daLink'[s].st = daLink[s].st
             /\ daLink[s].missed => daLink'[s].missed
             /\ s = daRegistered => daLink'[s].execute = daRow.execute
             /\ s # daRegistered /\ daLink[s].st = "checked" => daLink'[s].missed
  <2> DEFINE l == daLink[s]
  <2>1. l \in DaLinks
    BY DaTyped
  <2>2. CASE s = daRegistered
    <3>1. daLink'[s] = [l EXCEPT !.execute = daRow.execute]
      BY <1>2, <2>2 DEF Da!UpdateRegistry, Da!TakeRecord
    <3>. HIDE DEF l
    <3>2. LET k == [l EXCEPT !.execute = daRow.execute] IN
          k \in DaLinks /\ k.st = l.st /\ k.ready = l.ready /\ k.missed = l.missed /\ k.execute = daRow.execute
      BY <1>2, <2>1 DEF DaLinks
    <3>. QED BY <2>2, <3>1, <3>2 DEF l
  <2>3. CASE s # daRegistered
    <3>1. PICK b \in BOOLEAN : b = (l.missed \/ l.st = "checked")
      OBVIOUS
    <3>2. daLink'[s] = [l EXCEPT !.missed = b]
      BY <2>3, <3>1 DEF Da!UpdateRegistry
    <3>. HIDE DEF l
    <3>3. LET k == [l EXCEPT !.missed = b] IN
          k \in DaLinks /\ k.st = l.st /\ k.ready = l.ready /\ k.missed = b
      BY <2>1 DEF DaLinks
    <3>. QED BY <2>3, <3>1, <3>2, <3>3 DEF l
  <2>. QED BY <2>2, <2>3
<1>4. daLink' \in [daSockets -> DaLinks]
  <2>1. daLink' = [s \in daSockets |-> daLink'[s]]
    BY DEF Da!UpdateRegistry
  <2>. QED BY <1>3, <2>1
<1>5. Da!TypeOK' /\ DaFormInv' /\ Da!PendingIsOnTheLine'
  BY <1>1, <1>4 DEF DaIInv, Da!TypeOK, DaFormInv, Da!PendingIsOnTheLine, DaLinks, Da!NoUpdate
<1>6. DaSocketInv'
  BY <1>1, <1>3 DEF DaIInv, DaSocketInv
<1>7. DaRevokeInv' /\ DaEndInv' /\ DaPresenceInv'
  BY <1>1, <1>3 DEF DaIInv, DaRevokeInv, DaEndInv, DaPresenceInv
<1>8. DaPermitInv'
  <2>1. daUpdating'.pc = "none"
    BY <1>1 DEF Da!NoUpdate
  <2>. QED BY <1>1, <1>3, <2>1 DEF DaIInv, DaSocketInv, DaPermitInv
<1>. QED BY <1>5, <1>6, <1>7, <1>8 DEF DaIInv

\* Every step keeps IInv.
LEMMA DaInductive ==
  ASSUME Da!RegistryAssumption, DaIInv, [Da!Next]_(Da!vars)
  PROVE  DaIInv'
<1>1. CASE UNCHANGED Da!vars
  BY <1>1 DEF Da!vars, DaIInv, Da!TypeOK, DaFormInv, DaSocketInv, DaPermitInv, DaRevokeInv,
     DaEndInv, DaPresenceInv, Da!PendingIsOnTheLine
<1>. QED
  BY <1>1, DaUpgradeKeeps, DaAcceptKeeps, DaServerInfoKeeps, DaClosedKeeps,
     DaConnectedWrittenKeeps, DaOfflineSentKeeps,
     DaOfflineWrittenKeeps, DaAskKeeps, DaRevokeRowKeeps, DaRevokeKeeps, DaUpdateRowKeeps, DaUpdateRegistryKeeps DEF Da!Next

LEMMA DaSafe ==
  ASSUME Da!RegistryAssumption, DaIInv
  PROVE  Da!TypeOK /\ Da!PendingIsOnTheLine /\ Da!PresenceIsTrue
<1>1. ASSUME ~daCrossed, daWriteFailures = 0, daRevoking # "written",
             \A s \in daSockets : daUp[s] # "sent" /\ daDown[s] \notin {"waiting", "sent"}
      PROVE  IF daRegistered = None THEN daRow.presence = "offline"
             ELSE daLink[daRegistered].ready /\ daLink[daRegistered].st = "open" => daRow.presence = "connected"
  <2>1. CASE daRegistered = None
    BY <1>1, <2>1 DEF DaIInv, Da!TypeOK, DaPresenceInv
  <2>2. CASE daRegistered # None
    <3>1. daRegistered \in daSockets
      BY <2>2 DEF DaIInv, Da!TypeOK
    <3>2. daLink[daRegistered].ready => daUp[daRegistered] = "done"
      BY <1>1, <3>1 DEF DaIInv, Da!TypeOK, DaSocketInv
    <3>. QED BY <1>1, <2>2, <3>1, <3>2 DEF DaIInv, DaPresenceInv
  <2>. QED BY <2>1, <2>2
<1>2. Da!PresenceIsTrue
  BY <1>1 DEF Da!PresenceIsTrue
<1>. QED BY <1>2 DEF DaIInv

LEMMA DaAsksPermitted ==
  ASSUME Da!RegistryAssumption, DaIInv, [Da!Next]_(Da!vars)
  PROVE  Da!AskedAsPermitted
<1>1. SUFFICES ASSUME NEW q \in daAsks, daAsk[q].st = "free", daAsk'[q].st = "pending",
                      ~daLink[daRegistered].missed, daUpdating = Da!NoUpdate, daLink[daRegistered].st = "open"
               PROVE  daRow.execute /\ daRevoking # "done"
  BY DEF Da!AskedAsPermitted
<1>2. daRegistered \in daSockets /\ daLink[daRegistered].execute
  <2>1. \A s, x : daAsk' = Da!RejectGeneration(s) => daAsk'[q].st # "pending"
    BY <1>1 DEF Da!RejectGeneration
  <2>2. PICK r \in daAsks : Da!Ask(r)
    BY <1>1, <2>1 DEF Da!Next, Da!vars, Da!Upgrade, Da!Accept, Da!ServerInfo, Da!Closed,
       Da!ConnectedWritten, Da!OfflineSent,
         Da!OfflineWritten, Da!Answer, Da!RevokeRow, Da!Revoke, Da!UpdateRow, Da!UpdateRegistry, DaIInv, Da!TypeOK
  <2>. QED BY <2>2 DEF Da!Ask, DaIInv, Da!TypeOK
<1>3. daUpdating.pc = "none"
  BY <1>1 DEF Da!NoUpdate
<1>. QED BY <1>1, <1>2, <1>3 DEF DaIInv, DaPermitInv, DaRevokeInv

LEMMA DaInvariance ==
  ASSUME Da!RegistryAssumption
  PROVE  Da!Spec => []DaIInv
<1>1. Da!Init => DaIInv
  BY DaInitially
<1>2. DaIInv /\ [Da!Next]_(Da!vars) => DaIInv'
  BY DaInductive
<1>. QED BY <1>1, <1>2, PTL DEF Da!Spec

-----------------------------------------------------------------------------
(* The Slack socket *)

CONSTANTS soEvents, soMaxConnections, soMaxFrames, soMaxFailures,
          soMaxChanges
VARIABLES soMode, soStopped, soHandlers, soStatus, soLoop, soStopping,
          soCurrent, soOpen, soFrames, soHead, soTerminalDisconnect,
          soRecorded, soAcked, soSent, soFailures, soChanges

So == INSTANCE SlackSocket WITH
    Events <- soEvents, MaxConnections <- soMaxConnections,
    MaxFrames <- soMaxFrames, MaxFailures <- soMaxFailures,
    MaxChanges <- soMaxChanges, mode <- soMode, stopped <- soStopped,
    handlers <- soHandlers, status <- soStatus, loop <- soLoop,
    stopping <- soStopping, current <- soCurrent, open <- soOpen,
    frames <- soFrames, head <- soHead,
    terminalDisconnect <- soTerminalDisconnect, recorded <- soRecorded,
    acked <- soAcked, sent <- soSent, failures <- soFailures,
    changes <- soChanges

SoFrame == [on : 1..soMaxConnections, what : soEvents \cup {"refresh", "link_disabled"}]

SoFormInv ==
  /\ soFrames \in Seq(SoFrame)
  /\ \A i \in DOMAIN soFrames : soFrames[i].on \in 1..soCurrent

\* The head of the queue is an event while it is handled, and recorded before it is
\* acknowledged.
SoHeadInv ==
  /\ soHead # "waiting" => soFrames # <<>> /\ So!first.what \in soEvents
  /\ soHead = "ack" => soRecorded[So!first.what] = "accepted"

\* A connection is open only while the loop waits for it, and it is the last.
SoOpenInv ==
  /\ soOpen \subseteq {soCurrent}
  /\ soLoop # "open" => soOpen = {}

\* Where there is no loop there is nothing to retry, and none runs before the start.
SoLoopInv ==
  /\ soStatus = "actionNeeded" => soLoop = "none"
  /\ soStopped /\ soStopping = "no" => soLoop = "none"

\* The handlers are there from the start until all is done.
SoHandlersInv ==
  /\ ~soHandlers => soStopped /\ soFrames = <<>> /\ soLoop = "none"
  /\ soStopping = "done" => ~soHandlers
  /\ soStopping # "no" => soStopped

SoIInv == So!TypeOK /\ SoFormInv /\ SoHeadInv /\ SoOpenInv /\ SoLoopInv /\ SoHandlersInv /\ So!AckedIsAccepted

LEMMA SoInitially ==
  ASSUME So!SocketAssumption, So!Init
  PROVE  SoIInv
<1>1. soFrames \in Seq(SoFrame) /\ DOMAIN soFrames = {}
  BY EmptySeq, LenProperties DEF So!Init
<1>2. So!TypeOK
  BY <1>1 DEF So!SocketAssumption, So!Init, So!TypeOK
<1>3. SoFormInv
  BY <1>1 DEF SoFormInv
<1>4. SoHeadInv /\ SoOpenInv /\ SoLoopInv /\ SoHandlersInv
  BY DEF So!Init, SoHeadInv, SoOpenInv, SoLoopInv, SoHandlersInv
<1>5. So!AckedIsAccepted
  BY DEF So!Init, So!SocketAssumption, So!AckedIsAccepted
<1>. QED BY <1>2, <1>3, <1>4, <1>5 DEF SoIInv

\* A frame is put at the end of the queue.
LEMMA SoAppending ==
  ASSUME SoFormInv, NEW x \in SoFrame, x.on <= soCurrent
  PROVE  LET new == Append(soFrames, x) IN
         /\ new \in Seq(SoFrame) /\ new # <<>>
         /\ \A i \in DOMAIN new : new[i].on \in 1..soCurrent
         /\ soFrames # <<>> => Head(new) = So!first
<1>. DEFINE new == Append(soFrames, x)
<1>1. soFrames \in Seq(SoFrame)
  BY DEF SoFormInv
<1>2. /\ new \in Seq(SoFrame) /\ Len(new) = Len(soFrames) + 1
      /\ \A i \in 1..Len(soFrames) : new[i] = soFrames[i]
      /\ new[Len(soFrames) + 1] = x
  BY <1>1
<1>3. /\ Len(soFrames) \in Nat /\ DOMAIN soFrames = 1..Len(soFrames)
      /\ DOMAIN new = 1..(Len(soFrames) + 1)
  BY <1>1, <1>2, LenProperties
<1>4. new # <<>>
  BY <1>2, <1>3, EmptySeq
<1>5. x.on \in 1..soCurrent
  BY DEF SoFrame
<1>6. \A i \in DOMAIN new : new[i].on \in 1..soCurrent
  <2>1. TAKE i \in DOMAIN new
  <2>2. CASE i \in 1..Len(soFrames)
    BY <1>2, <1>3, <2>2 DEF SoFormInv
  <2>3. CASE i = Len(soFrames) + 1
    BY <1>2, <1>5, <2>3
  <2>. QED BY <1>3, <2>1, <2>2, <2>3
<1>7. ASSUME soFrames # <<>> PROVE Head(new) = So!first
  <2>1. Len(soFrames) > 0
    BY <1>1, <1>7, <1>3
  <2>2. Head(new) = new[1] /\ So!first = soFrames[1]
    BY <1>1, <1>2, <1>4, <1>7 DEF So!first
  <2>. QED BY <1>2, <2>1, <2>2, <1>3
<1>. QED BY <1>2, <1>4, <1>6, <1>7

\* ... and taken from its front.
LEMMA SoPopping ==
  ASSUME SoFormInv, soFrames # <<>>
  PROVE  /\ So!first \in SoFrame /\ So!first.on \in 1..soCurrent
         /\ Tail(soFrames) \in Seq(SoFrame)
         /\ \A i \in DOMAIN Tail(soFrames) : Tail(soFrames)[i].on \in 1..soCurrent
<1>1. soFrames \in Seq(SoFrame) /\ Len(soFrames) \in Nat /\ DOMAIN soFrames = 1..Len(soFrames)
  BY LenProperties DEF SoFormInv
<1>2. Len(soFrames) > 0
  BY <1>1
<1>3. So!first = soFrames[1]
  BY <1>1 DEF So!first
<1>4. So!first \in SoFrame
  BY <1>1, HeadTailProperties DEF So!first
<1>5. So!first.on \in 1..soCurrent
  BY <1>1, <1>2, <1>3 DEF SoFormInv
<1>6. Tail(soFrames) \in Seq(SoFrame) /\ Len(Tail(soFrames)) = Len(soFrames) - 1
  BY <1>1, <1>2, HeadTailProperties
<1>7. \A i \in 1..(Len(soFrames) - 1) : Tail(soFrames)[i] = soFrames[i + 1]
  BY <1>1, <1>2
<1>8. DOMAIN Tail(soFrames) = 1..(Len(soFrames) - 1)
  BY <1>6, LenProperties
<1>9. \A i \in 1..(Len(soFrames) - 1) : Tail(soFrames)[i].on \in 1..soCurrent
  BY <1>1, <1>7 DEF SoFormInv
<1>. QED BY <1>4, <1>5, <1>6, <1>8, <1>9

-----------------------------------------------------------------------------
LEMMA SoLoopKeeps ==
  ASSUME So!SocketAssumption, SoIInv,
         So!Start \/ So!Opened \/ So!NotOpened \/ So!Waited \/ So!Closed \/ So!Ended \/ So!Retry \/ So!Stop \/ So!Stopped
  PROVE  SoIInv'
<1>. USE DEF SoIInv
<1>0. UNCHANGED <<So!slack, So!queue>>
  BY DEF So!Start, So!Opened, So!NotOpened, So!Waited, So!Closed, So!Ended, So!Retry, So!Stop,
     So!Stopped
<1>1. /\ soCurrent' \in 0..soMaxConnections /\ soCurrent <= soCurrent'
      /\ soOpen' \subseteq 1..soMaxConnections
  <2>1. /\ soMaxConnections \in Nat /\ soCurrent \in 0..soMaxConnections
        /\ soOpen \subseteq 1..soMaxConnections
    BY DEF So!SocketAssumption, So!TypeOK
  <2>2. CASE So!Opened
    <3>1. /\ soCurrent' = soCurrent + 1 /\ soOpen' = soOpen \cup {soCurrent + 1}
          /\ soCurrent < soMaxConnections
      BY <2>2 DEF So!Opened
    <3>2. soCurrent + 1 \in 1..soMaxConnections
      BY <2>1, <3>1
    <3>. QED BY <2>1, <3>1, <3>2
  <2>3. CASE So!Start \/ So!NotOpened \/ So!Waited \/ So!Closed \/ So!Ended \/ So!Retry \/ So!Stop \/ So!Stopped
    <3>1. UNCHANGED <<soCurrent, soOpen>>
      BY <2>3
         DEF So!Start, So!NotOpened, So!Waited, So!Closed, So!Ended, So!Retry, So!Stop, So!Stopped
    <3>. QED BY <2>1, <3>1
  <2>. QED BY <2>2, <2>3
<1>2. /\ soStatus' \in {"stopped", "running", "actionNeeded"}
      /\ soLoop' \in {"none", "opening", "open", "waiting"}
      /\ soStopping' \in {"no", "under way", "done"}
  BY DEF So!TypeOK, So!Start, So!Opened, So!NotOpened, So!Waited, So!Closed, So!Ended, So!Retry,
     So!Stop, So!Stopped
<1>3. \A i \in DOMAIN soFrames : soFrames[i].on \in 1..soCurrent'
  <2>1. soCurrent \in Int /\ soCurrent' \in Int /\ soCurrent <= soCurrent'
    <3>1. soMaxConnections \in Nat /\ soCurrent \in 0..soMaxConnections
      BY DEF So!SocketAssumption, So!TypeOK
    <3>. QED BY <1>1, <3>1
  <2>2. \A n \in 1..soCurrent : n \in 1..soCurrent'
    BY <2>1
  <2>. QED BY <2>2 DEF SoFormInv
<1>4. So!TypeOK'
  BY <1>0, <1>1, <1>2, <1>3 DEF So!TypeOK, So!slack, So!queue
<1>5. SoFormInv'
  BY <1>0, <1>3 DEF SoFormInv, So!queue
<1>6. SoHeadInv' /\ So!AckedIsAccepted'
  BY <1>0 DEF SoHeadInv, So!AckedIsAccepted, So!first, So!slack, So!queue
<1>7. SoOpenInv' /\ SoLoopInv' /\ SoHandlersInv'
  <2>1. CASE So!Start
    BY <1>0, <2>1 DEF So!TypeOK, SoOpenInv, SoLoopInv, SoHandlersInv, So!Start, So!queue
  <2>2. CASE So!Opened
    BY <1>0, <2>2 DEF So!TypeOK, SoOpenInv, SoLoopInv, SoHandlersInv, So!Opened, So!queue
  <2>3. CASE So!NotOpened
    BY <1>0, <2>3 DEF So!TypeOK, SoOpenInv, SoLoopInv, SoHandlersInv, So!NotOpened, So!queue
  <2>4. CASE So!Waited
    BY <1>0, <2>4 DEF So!TypeOK, SoOpenInv, SoLoopInv, SoHandlersInv, So!Waited, So!queue
  <2>5. CASE So!Closed
    BY <1>0, <2>5
       DEF So!TypeOK, SoOpenInv, SoLoopInv, SoHandlersInv, So!Closed, So!queue, So!CurrentClosed
  <2>6. CASE So!Ended
    BY <1>0, <2>6
       DEF So!TypeOK, SoOpenInv, SoLoopInv, SoHandlersInv, So!Ended, So!queue, So!CurrentClosed
  <2>7. CASE So!Retry
    BY <1>0, <2>7 DEF So!TypeOK, SoOpenInv, SoLoopInv, SoHandlersInv, So!Retry, So!queue
  <2>8. CASE So!Stop
    BY <1>0, <2>8 DEF So!TypeOK, SoOpenInv, SoLoopInv, SoHandlersInv, So!Stop, So!queue
  <2>9. CASE So!Stopped
    BY <1>0, <2>9
       DEF So!TypeOK, SoOpenInv, SoLoopInv, SoHandlersInv, So!Stopped, So!queue, So!Drained
  <2>. QED BY <2>1, <2>2, <2>3, <2>4, <2>5, <2>6, <2>7, <2>8, <2>9
<1>. QED BY <1>4, <1>5, <1>6, <1>7

LEMMA SoQueueKeeps ==
  ASSUME So!SocketAssumption, SoIInv,
         So!HandleDisconnect \/ So!BeginIntake \/ So!Accept \/ So!HandleFails \/ So!Ack
  PROVE  SoIInv'
<1>. USE DEF SoIInv
<1>1. /\ UNCHANGED <<soMode, soStopped, soHandlers, soStatus, soLoop, soStopping, soCurrent>>
      /\ soOpen' \subseteq soOpen
  BY DEF So!HandleDisconnect, So!BeginIntake, So!Accept, So!HandleFails, So!Ack, So!loops
<1>2. soFrames # <<>> /\ soHandlers
  BY DEF So!HandleDisconnect, So!BeginIntake, So!Accept, So!HandleFails, So!Ack, SoHeadInv,
     SoHandlersInv
<1>3. /\ soFrames' \in Seq(SoFrame)
      /\ \A i \in DOMAIN soFrames' : soFrames'[i].on \in 1..soCurrent
  <2>1. CASE soFrames' = soFrames
    BY <2>1 DEF SoFormInv
  <2>2. CASE soFrames' = Tail(soFrames)
    BY <1>2, <2>2, SoPopping
  <2>. QED BY <2>1, <2>2
           DEF So!HandleDisconnect, So!BeginIntake, So!Accept, So!HandleFails, So!Ack, So!loops,
               So!Popped
<1>4. SoFormInv'
  BY <1>1, <1>3 DEF SoFormInv
<1>5. \A i \in DOMAIN soFrames' : soFrames'[i].what \in soEvents \cup {"refresh", "link_disabled"}
  <2>1. DOMAIN soFrames' = 1..Len(soFrames')
    BY <1>3, LenProperties
  <2>2. \A i \in DOMAIN soFrames' : soFrames'[i] \in SoFrame
    BY <1>3, <2>1, ElementOfSeq
  <2>. QED BY <2>2 DEF SoFrame
<1>6. soHead' \in {"waiting", "intake", "ack"}
  BY DEF So!TypeOK, So!HandleDisconnect, So!BeginIntake, So!Accept, So!HandleFails, So!Ack,
     So!Popped
<1>7. /\ soRecorded' \in [soEvents -> {None, "accepted", "dropped"}]
      /\ soAcked' \subseteq soEvents
      /\ SoHeadInv'
      /\ So!AckedIsAccepted'
  <2>1. CASE So!HandleDisconnect \/ So!HandleFails
    <3>1. UNCHANGED <<soRecorded, soAcked>> /\ soHead' = "waiting"
      BY <2>1 DEF So!HandleDisconnect, So!HandleFails, So!Popped
    <3>. QED BY <3>1 DEF So!TypeOK, SoHeadInv, So!AckedIsAccepted
  <2>2. CASE So!BeginIntake
    <3>1. /\ UNCHANGED <<soRecorded, soAcked, soFrames>> /\ soHead' = "intake"
          /\ So!first.what \in soEvents
      BY <2>2 DEF So!BeginIntake
    <3>. QED BY <1>2, <3>1 DEF So!TypeOK, SoHeadInv, So!AckedIsAccepted, So!first
  <2>3. CASE So!Accept
    <3>1. So!first.what \in soEvents /\ soRecorded[So!first.what] \in {None, "accepted"}
      BY <2>3 DEF So!Accept, SoHeadInv, So!AckedIsAccepted, So!TypeOK
    <3>2. soRecorded' = [soRecorded EXCEPT ![So!first.what] = "accepted"]
      BY <1>2, <2>3, <3>1 DEF So!Accept, So!TypeOK, So!SocketAssumption
    <3>3. UNCHANGED <<soAcked, soFrames>> /\ soHead' = "ack"
      BY <2>3 DEF So!Accept, So!loops
    <3>4. soRecorded' \in [soEvents -> {None, "accepted", "dropped"}]
      BY <3>1, <3>2 DEF So!TypeOK
    <3>5. SoHeadInv'
      BY <1>2, <3>1, <3>2, <3>3 DEF SoHeadInv, So!first, So!TypeOK
    <3>6. So!AckedIsAccepted'
      BY <3>1, <3>2, <3>3 DEF So!AckedIsAccepted, So!TypeOK
    <3>. QED BY <3>3, <3>4, <3>5, <3>6 DEF So!TypeOK
  <2>4. CASE So!Ack
    <3>1. /\ So!first.what \in soEvents /\ soRecorded[So!first.what] = "accepted"
          /\ soAcked' \subseteq soAcked \cup {So!first.what}
          /\ soHead' = "waiting" /\ soRecorded' = soRecorded
      BY <2>4 DEF So!Ack, SoHeadInv, So!Popped
    <3>. QED BY <3>1 DEF So!TypeOK, SoHeadInv, So!AckedIsAccepted
  <2>. QED BY <2>1, <2>2, <2>3, <2>4
<1>8. So!TypeOK'
  BY <1>1, <1>3, <1>5, <1>6, <1>7 DEF So!TypeOK
<1>9. SoOpenInv' /\ SoLoopInv' /\ SoHandlersInv'
  BY <1>1, <1>2 DEF SoOpenInv, SoLoopInv, SoHandlersInv
<1>. QED BY <1>4, <1>7, <1>8, <1>9

LEMMA SoOutsideKeeps ==
  ASSUME So!SocketAssumption, SoIInv, So!Send \/ So!CloseConnection \/ So!Turn
  PROVE  SoIInv'
<1>. USE DEF SoIInv
<1>1. /\ UNCHANGED <<soStopped, soHandlers, soStatus, soLoop, soStopping, soCurrent, soHead,
                     soRecorded, soAcked>>
      /\ soOpen' \subseteq soOpen
  BY DEF So!Send, So!CloseConnection, So!Turn, So!queue
<1>2. soFrames' = soFrames \/ \E x \in SoFrame : x.on <= soCurrent /\ soFrames' = Append(soFrames, x) /\ soOpen # {}
  <2>1. CASE So!Send
    <3>1. PICK c \in soOpen, e \in (soEvents \ soAcked) \cup {"refresh"} :
            soFrames' = Append(soFrames, [on |-> c, what |-> e])
      BY <2>1 DEF So!Send
    <3>2. c \in 1..soMaxConnections /\ c = soCurrent
      BY DEF So!TypeOK, SoOpenInv
    <3>3. [on |-> c, what |-> e] \in SoFrame
      BY <3>2 DEF SoFrame
    <3>. QED BY <3>1, <3>2, <3>3
  <2>2. CASE So!CloseConnection
    BY <2>2 DEF So!CloseConnection, So!queue
  <2>3. CASE So!Turn
    <3>1. CASE soMode /\ soOpen # {}
      <4>1. soCurrent \in 1..soMaxConnections
        BY <3>1 DEF So!TypeOK, SoOpenInv
      <4>2. [on |-> soCurrent, what |-> "link_disabled"] \in SoFrame
        BY <4>1 DEF SoFrame
      <4>. QED BY <2>3, <3>1, <4>1, <4>2 DEF So!Turn
    <3>. QED BY <2>3, <3>1 DEF So!Turn
  <2>. QED BY <2>1, <2>2, <2>3
<1>3. /\ soFrames' \in Seq(SoFrame)
      /\ \A i \in DOMAIN soFrames' : soFrames'[i].on \in 1..soCurrent
      /\ soFrames # <<>> => soFrames' # <<>> /\ Head(soFrames') = So!first
      /\ soFrames' # soFrames => soOpen # {}
  <2>1. CASE soFrames' = soFrames
    BY <2>1 DEF SoFormInv, So!first
  <2>2. CASE soFrames' # soFrames
    <3>1. PICK x \in SoFrame : x.on <= soCurrent /\ soFrames' = Append(soFrames, x) /\ soOpen # {}
      BY <1>2, <2>2
    <3>. QED BY <3>1, SoAppending
  <2>. QED BY <2>1, <2>2
<1>4. SoFormInv'
  BY <1>1, <1>3 DEF SoFormInv
<1>5. \A i \in DOMAIN soFrames' : soFrames'[i].what \in soEvents \cup {"refresh", "link_disabled"}
  <2>1. DOMAIN soFrames' = 1..Len(soFrames')
    BY <1>3, LenProperties
  <2>2. \A i \in DOMAIN soFrames' : soFrames'[i] \in SoFrame
    BY <1>3, <2>1, ElementOfSeq
  <2>. QED BY <2>2 DEF SoFrame
<1>6. So!TypeOK'
  BY <1>1, <1>3, <1>5 DEF So!TypeOK
<1>7. SoHeadInv' /\ So!AckedIsAccepted'
  BY <1>1, <1>3 DEF SoHeadInv, So!AckedIsAccepted, So!first
<1>8. SoOpenInv' /\ SoLoopInv' /\ SoHandlersInv'
  BY <1>1, <1>3 DEF SoOpenInv, SoLoopInv, SoHandlersInv
<1>. QED BY <1>4, <1>6, <1>7, <1>8

LEMMA SoInductive ==
  ASSUME So!SocketAssumption, SoIInv, So!Next \/ UNCHANGED So!vars
  PROVE  SoIInv'
<1>1. CASE UNCHANGED So!vars
  BY <1>1 DEF SoIInv, So!TypeOK, SoFormInv, SoHeadInv, So!first, SoOpenInv, SoLoopInv,
     SoHandlersInv, So!AckedIsAccepted, So!vars
<1>2. CASE So!Next
  BY <1>2, SoLoopKeeps, SoQueueKeeps, SoOutsideKeeps DEF So!Next
<1>. QED BY <1>1, <1>2

LEMMA SoCounts == ASSUME NEW T PROVE So!Cardinality(T) = Cardinality(T)
BY DEF So!Cardinality, Cardinality

LEMMA SoSafe ==
  ASSUME SoIInv
  PROVE  So!AckedIsAccepted /\ So!OneConnection
<1>1. So!AckedIsAccepted
  BY DEF SoIInv
<1>2. Cardinality(soOpen) <= 1
  <2>1. IsFiniteSet({soCurrent}) /\ Cardinality({soCurrent}) = 1
    BY FS_Singleton
  <2>2. Cardinality(soOpen) <= Cardinality({soCurrent})
    BY <2>1, FS_Subset DEF SoIInv, SoOpenInv
  <2>3. Cardinality(soOpen) \in Nat
    BY <2>1, FS_Subset, FS_CardinalityType DEF SoIInv, SoOpenInv
  <2>. QED BY <2>1, <2>2, <2>3
<1>3. soStopping = "done" => soOpen = {} /\ soFrames = <<>> /\ soLoop = "none"
  BY DEF SoIInv, SoOpenInv, SoHandlersInv
<1>. QED BY <1>1, <1>2, <1>3, SoCounts DEF So!OneConnection

\* What Slack is told of is accepted, over one connection at a time
\* (createSlackSocketSource, src/src/triggers/slack/source/internal/socket.ts).
THEOREM SoAcknowledgedWhenAccepted ==
  ASSUME So!SocketAssumption
  PROVE  So!Spec => [](So!AckedIsAccepted /\ So!OneConnection)
<1>1. So!Init => SoIInv
  BY SoInitially
<1>2. SoIInv /\ [So!Next]_(So!vars) => SoIInv'
  BY SoInductive
<1>3. SoIInv => So!AckedIsAccepted /\ So!OneConnection
  BY SoSafe
<1>. QED BY <1>1, <1>2, <1>3, PTL DEF So!Spec

-----------------------------------------------------------------------------
(* Linear issues *)

CONSTANTS liProjects, liStates, liLabels, liMaxEvents, liMaxDeliveries
VARIABLES liFilter, liIssue, liEvents, liAfter, liEntered, liHand,
          liReceipts, liRuns, liLate, liDeliveries

Li == INSTANCE LinearIssues WITH
    Projects <- liProjects, States <- liStates, Labels <- liLabels,
    MaxEvents <- liMaxEvents, MaxDeliveries <- liMaxDeliveries,
    filter <- liFilter, issue <- liIssue, events <- liEvents,
    after <- liAfter, entered <- liEntered, hand <- liHand,
    receipts <- liReceipts, runs <- liRuns, late <- liLate,
    deliveries <- liDeliveries

LiNames == liProjects \cup {None} \cup liStates \cup SUBSET liLabels

\* Two issues that look the same, field by field.
LiAlike(i, j) == i.project = j.project /\ i.state = j.state /\ i.labels = j.labels

LiEvent == [action : {"create", "update"}, data : [Li!Fields -> LiNames \cup {Omitted}],
          from : [Li!Fields -> LiNames \cup {Omitted}]]

LiFormInv ==
  /\ liFilter \in [project : liProjects \cup {None}, states : (SUBSET liStates) \cup {None},
                 labels : SUBSET liLabels, exclude : SUBSET liLabels]
  /\ liIssue \in Li!Issues \cup {None}
  /\ liAfter \in Seq(Li!Issues) /\ liEvents \in Seq(LiEvent) /\ Len(liEvents) = Len(liAfter)
  /\ Len(liEvents) > 0 => liIssue \in Li!Issues
  /\ liEntered \subseteq 1..Len(liEvents) /\ liReceipts \subseteq 1..Len(liEvents)
  /\ liLate \subseteq 1..Len(liEvents) /\ liRuns \subseteq liReceipts
  /\ \A it \in liHand : it.of \in 1..Len(liEvents)

\* What an event says of an issue is what it then was.
LiSaidInv ==
  \A k \in 1..Len(liEvents) : \A f \in Li!Fields :
    liEvents[k].data[f] # Omitted => liEvents[k].data[f] = liAfter[k][f]

\* A change enters the scope by what its event tells.
LiEnteredInv ==
  \A k \in 1..Len(liEvents) : k \in liEntered <=> Li!Enters(liEvents[k], liAfter[k])

\* What is handled of an event that is told is the issue as the change left it.
LiHandInv == \A it \in liHand : Li!Told(it.of) => LiAlike(it.issue, liAfter[it.of])

LiIInv == LiFormInv /\ LiSaidInv /\ LiEnteredInv /\ LiHandInv /\ Li!EntriesRun

-----------------------------------------------------------------------------
LEMMA LiFieldNames ==
  /\ Li!Fields = {"project", "state", "labels"}
  /\ \A i \in Li!Issues : /\ DOMAIN i = Li!Fields
                       /\ i.project \in liProjects \cup {None} /\ i.state \in liStates
                       /\ i.labels \in SUBSET liLabels
BY DEF Li!Issues, Li!Fields

LEMMA LiNamesSay ==
  ASSUME Li!IssuesAssumption
  PROVE  Omitted \notin LiNames /\ None \notin Li!Issues
BY DEF Li!IssuesAssumption, LiNames

LEMMA LiIssueFields ==
  ASSUME NEW i \in Li!Issues, NEW f \in Li!Fields
  PROVE  i[f] \in LiNames
BY LiFieldNames DEF LiNames

\* The scope looks at the fields only.
LEMMA LiScopeOfAlike ==
  ASSUME NEW i, NEW j, LiAlike(i, j)
  PROVE  Li!InScope(i) <=> Li!InScope(j)
BY DEF LiAlike, Li!InScope

LEMMA LiEntersAlike ==
  ASSUME NEW e, NEW i, NEW j, LiAlike(i, j)
  PROVE  Li!Enters(e, i) <=> Li!Enters(e, j)
<1>1. Li!InScope(i) <=> Li!InScope(j)
  BY LiScopeOfAlike
<1>2. \A f \in Li!Fields : i[f] = j[f]
  BY DEF LiAlike, Li!Fields
<1>3. Li!Before(e, i) = Li!Before(e, j)
  BY <1>2 DEF Li!Before
<1>. QED BY <1>1, <1>3 DEF Li!Enters

LEMMA LiInitially ==
  ASSUME Li!Init
  PROVE  LiIInv
<1>1. /\ <<>> \in Seq(Li!Issues) /\ <<>> \in Seq(LiEvent) /\ Len(<<>>) = 0
  BY EmptySeq
<1>2. liFilter \in [project : liProjects \cup {None}, states : (SUBSET liStates) \cup {None},
                  labels : SUBSET liLabels, exclude : SUBSET liLabels]
  BY DEF Li!Init
<1>3. LiFormInv
  BY <1>1, <1>2 DEF Li!Init, LiFormInv
<1>4. LiSaidInv /\ LiEnteredInv /\ LiHandInv /\ Li!EntriesRun
  BY <1>1 DEF Li!Init, LiSaidInv, LiEnteredInv, LiHandInv, Li!EntriesRun
<1>. QED BY <1>3, <1>4 DEF LiIInv

-----------------------------------------------------------------------------
LEMMA LiChangesKeeps ==
  ASSUME Li!IssuesAssumption, LiIInv, NEW new \in Li!Issues, Li!Changes(new)
  PROVE  LiIInv'
<1>. DEFINE changed == IF liIssue = None THEN {} ELSE {f \in Li!Fields : new[f] # liIssue[f]}
            n == Len(liEvents) + 1
<1>. USE DEF LiIInv
<1>1. PICK said \in SUBSET Li!Fields :
        /\ changed \subseteq said
        /\ liEvents' = Append(liEvents,
             [action |-> IF liIssue = None THEN "create" ELSE "update",
              data |-> [f \in Li!Fields |-> IF f \in said THEN new[f] ELSE Omitted],
              from |-> [f \in Li!Fields |-> IF f \in changed THEN liIssue[f] ELSE Omitted]])
  BY DEF Li!Changes
<1>. DEFINE e == [action |-> IF liIssue = None THEN "create" ELSE "update",
                  data |-> [f \in Li!Fields |-> IF f \in said THEN new[f] ELSE Omitted],
                  from |-> [f \in Li!Fields |-> IF f \in changed THEN liIssue[f] ELSE Omitted]]
<1>2. liIssue # None => liIssue \in Li!Issues
  BY DEF LiFormInv
<1>3. e \in LiEvent
  <2>1. [f \in Li!Fields |-> IF f \in said THEN new[f] ELSE Omitted] \in [Li!Fields -> LiNames \cup {Omitted}]
    BY LiIssueFields
  <2>2. [f \in Li!Fields |-> IF f \in changed THEN liIssue[f] ELSE Omitted]
           \in [Li!Fields -> LiNames \cup {Omitted}]
    BY <1>2, LiIssueFields
  <2>. QED BY <2>1, <2>2 DEF LiEvent
<1>4. /\ e.action = IF liIssue = None THEN "create" ELSE "update"
      /\ \A f \in Li!Fields : e.data[f] = IF f \in said THEN new[f] ELSE Omitted
      /\ \A f \in Li!Fields : e.from[f] = IF f \in changed THEN liIssue[f] ELSE Omitted
  OBVIOUS
<1>5. /\ liEvents' = Append(liEvents, e) /\ liAfter' = Append(liAfter, new) /\ liIssue' = new
      /\ UNCHANGED <<liFilter, liHand, liReceipts, liRuns, liLate>>
  BY <1>1 DEF Li!Changes
<1>. HIDE DEF e
<1>6. /\ liEvents' \in Seq(LiEvent) /\ liAfter' \in Seq(Li!Issues)
      /\ Len(liEvents') = n /\ Len(liAfter') = n /\ Len(liEvents) \in Nat
      /\ liEvents'[n] = e /\ liAfter'[n] = new
      /\ \A k \in 1..Len(liEvents) : liEvents'[k] = liEvents[k] /\ liAfter'[k] = liAfter[k]
  <2>1. liEvents \in Seq(LiEvent) /\ liAfter \in Seq(Li!Issues) /\ Len(liEvents) = Len(liAfter)
    BY DEF LiFormInv
  <2>. QED BY <1>3, <1>5, <2>1
<1>7. liEntered' = liEntered \cup IF Li!InScope(new) /\ (liIssue = None \/ ~Li!InScope(liIssue)) THEN {n} ELSE {}
  <2>1. liEntered' = liEntered \cup
          IF Li!InScope(new) /\ (liIssue = None \/ ~Li!InScope(liIssue)) THEN {Len(liAfter')} ELSE {}
    BY DEF Li!Changes
  <2>. QED BY <1>6, <2>1
<1>8. LiFormInv'
  <2>1. liEntered' \subseteq 1..n
    <3>1. 1..Len(liEvents) \subseteq 1..n /\ n \in 1..n
      BY <1>6
    <3>2. liEntered' \subseteq liEntered \cup {n}
      BY <1>7
    <3>. QED BY <3>1, <3>2 DEF LiFormInv
  <2>2. /\ liReceipts \subseteq 1..n /\ liLate \subseteq 1..n
        /\ \A it \in liHand : it.of \in 1..n
    BY <1>6 DEF LiFormInv
  <2>. QED BY <1>5, <1>6, <2>1, <2>2 DEF LiFormInv
<1>9. LiSaidInv'
  <2>1. \A f \in Li!Fields : e.data[f] # Omitted => e.data[f] = new[f]
    BY <1>4
  <2>. QED BY <1>6, <2>1 DEF LiSaidInv
<1>10. Li!Enters(e, new) <=> Li!InScope(new) /\ (liIssue = None \/ ~Li!InScope(liIssue))
  <2>1. CASE liIssue = None
    BY <1>4, <2>1 DEF Li!Enters
  <2>2. CASE liIssue # None
    <3>1. e.action # "create"
      BY <1>4, <2>2
    <3>2. liIssue \in Li!Issues /\ \A f \in Li!Fields : liIssue[f] # Omitted
      BY <1>2, <2>2, LiIssueFields, LiNamesSay
    <3>3. \A f \in Li!Fields : Li!Before(e, new)[f] = liIssue[f]
      BY <1>4, <2>2, <3>2 DEF Li!Before
    <3>4. LiAlike(Li!Before(e, new), liIssue)
      BY <3>3, LiFieldNames DEF LiAlike
    <3>5. Li!InScope(Li!Before(e, new)) <=> Li!InScope(liIssue)
      BY <3>4, LiScopeOfAlike
    <3>. QED BY <2>2, <3>1, <3>5 DEF Li!Enters
  <2>. QED BY <2>1, <2>2
<1>11. /\ \A i : Li!InScope(i)' <=> Li!InScope(i)
       /\ \A x, i : Li!Enters(x, i)' <=> Li!Enters(x, i)
  BY <1>5 DEF Li!InScope, Li!Enters, Li!Before
<1>12. LiEnteredInv'
  <2>1. n \notin liEntered /\ n \notin 1..Len(liEvents)
    BY <1>6 DEF LiFormInv
  <2>2. \A k \in 1..Len(liEvents) : k \in liEntered' <=> Li!Enters(liEvents'[k], liAfter'[k])
    BY <1>6, <1>7 DEF LiEnteredInv
  <2>3. n \in liEntered' <=> Li!Enters(liEvents'[n], liAfter'[n])
    BY <1>6, <1>7, <1>10, <2>1
  <2>4. 1..n = 1..Len(liEvents) \cup {n}
    BY <1>6
  <2>5. \A k \in 1..n : k \in liEntered' <=> Li!Enters(liEvents'[k], liAfter'[k])
    BY <2>2, <2>3, <2>4
  <2>6. \A k \in 1..n : Li!Enters(liEvents'[k], liAfter'[k]) <=> Li!Enters(liEvents[k], liAfter[k])'
    BY <1>5 DEF Li!InScope, Li!Enters, Li!Before
  <2>. QED BY <1>6, <2>5, <2>6 DEF LiEnteredInv
<1>13. \A k \in 1..Len(liEvents) : Li!Told(k)' <=> Li!Told(k)
  BY <1>5, <1>6 DEF Li!Told, Li!Hydrates, Li!Normalised
<1>14. LiHandInv'
  BY <1>5, <1>6, <1>13 DEF LiHandInv, LiFormInv, LiAlike
<1>15. Li!EntriesRun'
  <2>1. \A k \in liReceipts : k \in 1..Len(liEvents) /\ (k \in liEntered' <=> k \in liEntered)
    BY <1>6, <1>7 DEF LiFormInv
  <2>. QED BY <1>5, <1>13, <2>1 DEF Li!EntriesRun
<1>. QED BY <1>8, <1>9, <1>12, <1>14, <1>15

LEMMA LiHubMoves ==
  ASSUME UNCHANGED <<liFilter, liIssue, liEvents, liAfter, liEntered>>, LiFormInv,
         liLate \subseteq liLate'
  PROVE  /\ LiSaidInv => LiSaidInv'
         /\ LiEnteredInv => LiEnteredInv'
         /\ \A k : Li!Told(k)' => Li!Told(k)
<1>1. LiSaidInv => LiSaidInv'
  BY DEF LiSaidInv
<1>2. LiEnteredInv => LiEnteredInv'
  <2>1. \A k : Li!Enters(liEvents[k], liAfter[k])' <=> Li!Enters(liEvents[k], liAfter[k])
    BY DEF Li!Enters, Li!InScope, Li!Before
  <2>. QED BY <2>1 DEF LiEnteredInv
<1>3. \A k : Li!Told(k)' => Li!Told(k)
  BY DEF Li!Told, Li!Hydrates, Li!Normalised
<1>. QED BY <1>1, <1>2, <1>3

LEMMA LiReceiveKeeps ==
  ASSUME Li!IssuesAssumption, LiIInv, NEW k \in 1..Len(liEvents), Li!Receive(k)
  PROVE  LiIInv'
<1>. DEFINE data == liEvents[k].data
            read == IF Li!Hydrates(data) THEN liIssue ELSE None
            it == [of |-> k, issue |-> Li!Normalised(data, read)]
<1>. USE DEF LiIInv
<1>1. /\ UNCHANGED <<liFilter, liIssue, liEvents, liAfter, liEntered, liReceipts, liRuns>>
      /\ liHand' = liHand \cup {it}
      /\ liLate' = IF read \notin {None, liAfter[k]} THEN liLate \cup {k} ELSE liLate
  BY DEF Li!Receive
<1>2. LiFormInv' /\ liLate \subseteq liLate'
  <2>1. liLate' \subseteq 1..Len(liEvents) /\ liLate \subseteq liLate'
    BY <1>1 DEF LiFormInv
  <2>2. \A x \in liHand' : x.of \in 1..Len(liEvents)
    BY <1>1 DEF LiFormInv
  <2>. QED BY <1>1, <2>1, <2>2 DEF LiFormInv
<1>3. LiSaidInv' /\ LiEnteredInv' /\ \A j : Li!Told(j)' => Li!Told(j)
  BY <1>1, <1>2, LiHubMoves
<1>4. liAfter[k] \in Li!Issues
  BY ElementOfSeq DEF LiFormInv
<1>5. ASSUME Li!Told(k)' PROVE LiAlike(Li!Normalised(data, read), liAfter[k])
  <2>1. \A f \in Li!Fields : data[f] # Omitted => data[f] = liAfter[k][f]
    BY DEF LiSaidInv
  <2>2. \A f \in Li!Fields : Li!Normalised(data, read)[f] = liAfter[k][f]
    <3>1. CASE \A f \in Li!Fields : data[f] # Omitted
      BY <2>1, <3>1 DEF Li!Normalised
    <3>2. CASE Li!Hydrates(data) /\ k \notin liLate'
      <4>1. liIssue \in Li!Issues /\ liIssue # None
        BY LiNamesSay DEF LiFormInv
      <4>2. read = liAfter[k] /\ read # None
        BY <1>1, <3>2, <4>1
      <4>. QED BY <2>1, <4>2 DEF Li!Normalised
    <3>3. (\A f \in Li!Fields : data[f] # Omitted) \/ (Li!Hydrates(data) /\ k \notin liLate')
      BY <1>1, <1>5 DEF Li!Told, Li!Hydrates, Li!Normalised
    <3>. QED BY <3>1, <3>2, <3>3
  <2>. QED BY <2>2, LiFieldNames DEF LiAlike
<1>6. LiHandInv'
  <2>1. SUFFICES ASSUME NEW x \in liHand', Li!Told(x.of)' PROVE LiAlike(x.issue, liAfter[x.of])
    BY <1>1 DEF LiHandInv, LiAlike
  <2>2. CASE x \in liHand
    BY <1>3, <2>1, <2>2 DEF LiHandInv
  <2>3. CASE x = it
    <3>1. x.of = k /\ x.issue = Li!Normalised(data, read)
      BY <2>3
    <3>. QED BY <1>5, <2>1, <3>1
  <2>. QED BY <1>1, <2>2, <2>3
<1>7. Li!EntriesRun'
  BY <1>1, <1>3 DEF Li!EntriesRun
<1>. QED BY <1>2, <1>3, <1>6, <1>7

LEMMA LiAcceptKeeps ==
  ASSUME LiIInv, NEW it \in liHand, Li!Accept(it) \/ Li!Fail(it)
  PROVE  LiIInv'
<1>. USE DEF LiIInv
<1>1. /\ UNCHANGED <<liFilter, liIssue, liEvents, liAfter, liEntered, liLate>>
      /\ liHand' = liHand \ {it}
  BY DEF Li!Accept, Li!Fail
<1>2. it.of \in 1..Len(liEvents)
  BY DEF LiFormInv
<1>3. LiFormInv'
  BY <1>1, <1>2 DEF LiFormInv, Li!Accept, Li!Fail
<1>4. LiSaidInv' /\ LiEnteredInv' /\ \A j : Li!Told(j)' => Li!Told(j)
  BY <1>1, LiHubMoves
<1>5. LiHandInv'
  BY <1>1, <1>4 DEF LiHandInv, LiAlike
<1>6. Li!EntriesRun'
  <2>1. CASE Li!Fail(it)
    BY <1>1, <1>4, <2>1 DEF Li!EntriesRun, Li!Fail
  <2>2. CASE Li!Accept(it)
    <3>1. /\ liReceipts' = liReceipts \cup {it.of}
          /\ liRuns' = liRuns \cup
               IF it.of \notin liReceipts /\ Li!Enters(liEvents[it.of], it.issue) THEN {it.of} ELSE {}
      BY <2>2 DEF Li!Accept
    <3>2. SUFFICES ASSUME NEW j \in liReceipts', Li!Told(j) PROVE j \in liRuns' <=> j \in liEntered
      BY <1>1, <1>4 DEF Li!EntriesRun
    <3>3. CASE j \in liReceipts
      <4>1. j \in liRuns <=> j \in liEntered
        BY <3>2, <3>3 DEF Li!EntriesRun
      <4>2. j \in liRuns' <=> j \in liRuns
        BY <3>1, <3>3
      <4>. QED BY <4>1, <4>2
    <3>4. CASE j \notin liReceipts
      <4>1. j = it.of
        BY <3>1, <3>2, <3>4
      <4>2. LiAlike(it.issue, liAfter[j])
        BY <3>2, <4>1 DEF LiHandInv
      <4>3. Li!Enters(liEvents[j], it.issue) <=> Li!Enters(liEvents[j], liAfter[j])
        BY <4>2, LiEntersAlike
      <4>4. Li!Enters(liEvents[j], liAfter[j]) <=> j \in liEntered
        BY <1>2, <4>1 DEF LiEnteredInv
      <4>5. j \notin liRuns
        BY <3>4 DEF LiFormInv
      <4>6. j \in liRuns' <=> Li!Enters(liEvents[j], it.issue)
        BY <3>1, <3>4, <4>1, <4>5
      <4>. QED BY <4>3, <4>4, <4>6
    <3>. QED BY <3>3, <3>4
  <2>. QED BY <2>1, <2>2
<1>. QED BY <1>3, <1>4, <1>5, <1>6

LEMMA LiTyped ==
  ASSUME LiIInv
  PROVE  Li!TypeOK
<1>1. DOMAIN liEvents = 1..Len(liEvents) /\ DOMAIN liAfter = 1..Len(liEvents)
  BY LenProperties DEF LiIInv, LiFormInv
<1>2. \A k \in 1..Len(liEvents) : liAfter[k] \in Li!Issues /\ liEvents[k] \in LiEvent
  BY <1>1, ElementOfSeq DEF LiIInv, LiFormInv
<1>3. \A k \in 1..Len(liEvents) : liEvents[k].action \in {"create", "update"}
  BY <1>2 DEF LiEvent
<1>. QED BY <1>1, <1>2, <1>3 DEF LiIInv, LiFormInv, Li!TypeOK

LEMMA LiInductive ==
  ASSUME Li!IssuesAssumption, LiIInv, Li!Next \/ UNCHANGED Li!vars
  PROVE  LiIInv'
<1>1. CASE UNCHANGED Li!vars
  <2>1. /\ UNCHANGED <<liFilter, liIssue, liEvents, liAfter, liEntered, liHand, liReceipts,
                       liRuns, liLate>>
        /\ liLate \subseteq liLate'
    BY <1>1 DEF Li!vars
  <2>2. LiFormInv'
    BY <2>1 DEF LiIInv, LiFormInv
  <2>3. LiSaidInv' /\ LiEnteredInv' /\ \A j : Li!Told(j)' => Li!Told(j)
    BY <2>1, LiHubMoves DEF LiIInv
  <2>. QED BY <2>1, <2>2, <2>3 DEF LiIInv, LiHandInv, Li!EntriesRun, LiAlike
<1>2. CASE Li!Next
  <2>1. DOMAIN liEvents = 1..Len(liEvents)
    BY LenProperties DEF LiIInv, LiFormInv
  <2>. QED BY <1>2, <2>1, LiChangesKeeps, LiReceiveKeeps, LiAcceptKeeps DEF Li!Next
<1>. QED BY <1>1, <1>2

\* The changes of an issue start the runs of its entries into a scope
\* (src/src/triggers/linear/match.ts).
THEOREM LiEntriesStartRuns ==
  ASSUME Li!IssuesAssumption
  PROVE  Li!Spec => [](Li!TypeOK /\ Li!EntriesRun)
<1>1. Li!Init => LiIInv
  BY LiInitially
<1>2. LiIInv /\ [Li!Next]_(Li!vars) => LiIInv'
  BY LiInductive
<1>3. LiIInv => Li!TypeOK /\ Li!EntriesRun
  BY LiTyped DEF LiIInv
<1>. QED BY <1>1, <1>2, <1>3, PTL DEF Li!Spec

-----------------------------------------------------------------------------
(* Routing of events *)

CONSTANTS roAccounts, roThings, roNames, roMaxIds, roMaxChanges,
          roMaxDeploys, roMaxRollbacks
VARIABLES roProvider, roHome, roNaming, roRows, roListed, roRevisions,
          roActive, roRoutes, roWork, roMade, roChanges, roRollbacks

Ro == INSTANCE EventRouting WITH
    Accounts <- roAccounts, Things <- roThings, Names <- roNames,
    MaxIds <- roMaxIds, MaxChanges <- roMaxChanges,
    MaxDeploys <- roMaxDeploys, MaxRollbacks <- roMaxRollbacks,
    provider <- roProvider, home <- roHome, names <- roNaming,
    rows <- roRows, listed <- roListed, revisions <- roRevisions,
    active <- roActive, routes <- roRoutes, work <- roWork, made <- roMade,
    changes <- roChanges, rollbacks <- roRollbacks

RoFilter == [connection : {Ro!Slug(a) : a \in roAccounts} \cup {None},
           resource : Ro!Resources \cup roThings \cup roAccounts \cup {None},
           connectionId : Nat \cup {None}, resourceId : roThings \cup roAccounts \cup {None}]
RoRow == [id : 1..roMade, account : roAccounts]
RoRevision == [authored : Ro!Authored, other : BOOLEAN, filter : RoFilter, at : Ro!Worlds \cup {None}]
RoRoute == [connection : 1..roMade, resource : roThings \cup roAccounts \cup {None}]

\* Names and ids are those of one thing.
RoFormInv ==
  /\ roProvider \in {"github", "slack", "linear"} /\ roMade \in 0..roMaxIds
  /\ roHome \in [roThings -> roAccounts] /\ roNaming \in [roThings -> roNames \cup {None}]
  /\ \A s, t \in roThings : roNaming[s] = roNaming[t] /\ roNaming[s] # None => s = t
  /\ roRows \subseteq RoRow /\ IsFiniteSet(roRows)
  /\ \A r, s \in roRows : r.id = s.id \/ r.account = s.account => r = s
  /\ \A l \in roListed : l.connection \in Ro!Ids /\ l.thing \in roThings
  /\ roRevisions \in Seq(RoRevision) /\ roActive \in 0..Len(roRevisions)
  /\ roRoutes \subseteq RoRoute
  /\ roWork # None => /\ roWork.revision \in 1..Len(roRevisions) /\ roWork.compiled \in BOOLEAN
                    /\ roWork.routes \subseteq RoRoute

\* The filter says what its author did, the connection for its name and the id for the
\* thing's.
RoSaysSo(a, f) ==
  /\ f.connection = a.connection
  /\ a.connection # None => f.connectionId # None
  /\ f.connectionId # None =>
       /\ f.connectionId \in 1..roMade
       /\ \A row \in roRows : row.id = f.connectionId => a.connection \in {None, Ro!Slug(row.account)}
  /\ a.resource = None => f.resource = None /\ f.resourceId = None
  /\ a.resource # None =>
       /\ f.connectionId # None /\ f.resourceId # None
       /\ roProvider = "github" => f.resource = a.resource /\ f.resourceId \in roThings
       /\ roProvider = "slack" => f.resource = f.resourceId /\ f.resource \in roAccounts
                                /\ a.resource = Ro!Slug(f.resource)
       /\ roProvider = "linear" => f.resource = a.resource /\ f.resourceId = a.resource

\* ... and as the world then was, it says it of the right connection.
RoSaidAt(a, f, at) ==
  /\ \A r \in at.rows : r.id \in 1..roMade
  /\ f.connectionId # None => \E r \in at.rows : r.id = f.connectionId
  /\ \A r \in at.rows : r.id = f.connectionId =>
       /\ a.connection \in {None, Ro!Slug(r.account)}
       /\ a.resource # None =>
            /\ roProvider = "github" => roHome[f.resourceId] = r.account
                                      /\ at.names[f.resourceId] = a.resource
            /\ roProvider = "slack" => r.account = f.resourceId
  /\ a.resource # None /\ roProvider = "linear" =>
       \A r \in at.rows : a.connection \in {None, Ro!Slug(r.account)} => r.id = f.connectionId
  /\ a.resource = None /\ a.connection = None => f.connectionId = None

RoRevisionInv ==
  \A k \in 1..Len(roRevisions) :
    LET v == roRevisions[k] IN
    /\ RoSaysSo(v.authored, v.filter)
    /\ v.at # None => RoSaidAt(v.authored, v.filter, v.at)

\* The routes have what the revision needs, while the connections are still there.
RoCarries(v, carried) ==
  v.at # None /\ v.at.rows \subseteq roRows =>
    IF v.authored.resource # None
    THEN [connection |-> v.filter.connectionId, resource |-> v.filter.resourceId] \in carried
    ELSE \A r \in v.at.rows : v.authored.connection \in {None, Ro!Slug(r.account)} =>
           [connection |-> r.id, resource |-> None] \in carried

RoRoutesInv ==
  /\ roActive # 0 => RoCarries(roRevisions[roActive], roRoutes)
  /\ roWork # None /\ roWork.compiled => RoCarries(roRevisions[roWork.revision], roWork.routes)

RoIInv == RoFormInv /\ RoRevisionInv /\ RoRoutesInv

-----------------------------------------------------------------------------
LEMMA RoInitially ==
  ASSUME Ro!RoutingAssumption, Ro!Init
  PROVE  RoIInv
<1>1. <<>> \in Seq(RoRevision) /\ Len(<<>>) = 0
  BY EmptySeq
<1>2. roNaming \in [roThings -> roNames \cup {None}]
  BY DEF Ro!Init
<1>3. \A s, t \in roThings : roNaming[s] = roNaming[t] => s = t
  BY DEF Ro!Init
<1>4. IsFiniteSet(roRows)
  BY FS_EmptySet DEF Ro!Init
<1>5. RoFormInv
  BY <1>1, <1>2, <1>3, <1>4 DEF Ro!Init, RoFormInv, Ro!RoutingAssumption
<1>6. RoRevisionInv /\ RoRoutesInv
  BY <1>1 DEF Ro!Init, RoRevisionInv, RoRoutesInv
<1>. QED BY <1>5, <1>6 DEF RoIInv

\* A filter once compiled is settled or has no resource: compiling it again gives the
\* routes of the same.
LEMMA RoRoutesCarry ==
  ASSUME Ro!RoutingAssumption, RoIInv, NEW k \in 1..Len(roRevisions)
  PROVE  /\ RoCarries(roRevisions[k], Ro!RoutesOf(roRevisions[k].filter))
         /\ Ro!RoutesOf(roRevisions[k].filter) \subseteq RoRoute
<1>. DEFINE v == roRevisions[k]  a == v.authored  f == v.filter
<1>1. v \in RoRevision
  BY ElementOfSeq DEF RoIInv, RoFormInv
<1>2. f \in RoFilter /\ (v.at # None => v.at \in Ro!Worlds)
  BY <1>1 DEF RoRevision
<1>3. RoSaysSo(a, f)
  BY DEF RoIInv, RoRevisionInv
<1>. HIDE DEF v
<1>4. CASE a.resource # None
  <2>1. f.connectionId # None /\ f.resourceId # None /\ f.connectionId \in 1..roMade
    BY <1>3, <1>4 DEF RoSaysSo
  <2>2. Ro!Compiled(f) = f
    BY <2>1 DEF Ro!Compiled, Ro!Settled
  <2>3. Ro!RoutesOf(f) = {[connection |-> f.connectionId, resource |-> f.resourceId]}
    BY <2>1, <2>2 DEF Ro!RoutesOf
  <2>4. f.resourceId \in roThings \cup roAccounts
    BY <1>2, <2>1 DEF RoFilter
  <2>. QED BY <1>4, <2>1, <2>3, <2>4 DEF RoCarries, RoRoute, v
<1>5. CASE a.resource = None
  <2>1. f.resource = None /\ f.resourceId = None /\ f.connection = a.connection
    BY <1>3, <1>5 DEF RoSaysSo
  <2>2. Ro!Compiled(f).resourceId = None
    BY <1>2, <2>1 DEF Ro!Compiled, Ro!Settled, RoFilter
  <2>3. Ro!RoutesOf(f) = {[connection |-> row.id, resource |-> None] : row \in Ro!Candidates(f)}
    BY <2>2 DEF Ro!RoutesOf
  <2>4. Ro!RoutesOf(f) \subseteq RoRoute
    BY <2>3 DEF Ro!Candidates, RoRoute, RoIInv, RoFormInv, RoRow
  <2>5. ASSUME v.at.rows \subseteq roRows, NEW r \in v.at.rows,
               a.connection \in {None, Ro!Slug(r.account)}
        PROVE  [connection |-> r.id, resource |-> None] \in Ro!RoutesOf(f)
    BY <2>1, <2>3, <2>5 DEF Ro!Candidates
  <2>. QED BY <1>5, <2>4, <2>5 DEF RoCarries, v
<1>. QED BY <1>4, <1>5

-----------------------------------------------------------------------------
LEMMA RoCounts == ASSUME NEW T PROVE Ro!Cardinality(T) = Cardinality(T)
BY DEF Ro!Cardinality, Cardinality

\* What a deployment compiles says what its author does.
LEMMA RoCompiledSays ==
  ASSUME Ro!RoutingAssumption, RoFormInv, NEW a \in Ro!Authored, Ro!Compiles(Ro!Unresolved(a))
  PROVE  /\ Ro!Compiled(Ro!Unresolved(a)) \in RoFilter
         /\ RoSaysSo(a, Ro!Compiled(Ro!Unresolved(a)))
         /\ Ro!ListingIsCurrent => RoSaidAt(a, Ro!Compiled(Ro!Unresolved(a)), Ro!World)
<1>. DEFINE u == Ro!Unresolved(a)  f == Ro!Compiled(u)
<1>1. /\ u.connection = a.connection /\ u.resource = a.resource
      /\ u.connectionId = None /\ u.resourceId = None
      /\ a.connection \in {Ro!Slug(x) : x \in roAccounts} \cup {None}
      /\ a.resource \in Ro!Resources \cup {None}
      /\ DOMAIN u = {"connection", "resource", "connectionId", "resourceId"}
  BY DEF Ro!Unresolved, Ro!Authored
<1>2. ~Ro!Settled(u)
  BY <1>1 DEF Ro!Settled
<1>3. /\ u.connection # None => Ro!Candidates(u) # {}
      /\ u.resource # None => Cardinality(Ro!Resolved(u)) = 1
  BY <1>2, RoCounts DEF Ro!Compiles
<1>4. \A r \in Ro!Candidates(u) : /\ r \in roRows /\ r.id \in 1..roMade /\ r.id \in Nat
                               /\ r.account \in roAccounts
                               /\ a.connection \in {None, Ro!Slug(r.account)}
  BY <1>1 DEF Ro!Candidates, RoFormInv, RoRow
<1>5. \A r, s \in roRows : r.id = s.id \/ r.account = s.account => r = s
  BY DEF RoFormInv
<1>6. /\ Ro!World.rows = roRows /\ Ro!World.names = roNaming
      /\ \A r \in Ro!World.rows : r.id \in 1..roMade
  BY DEF Ro!World, RoFormInv, RoRow
<1>. HIDE DEF u
<1>7. CASE a.resource = None
  <2>1. DEFINE chosen == CHOOSE row \in Ro!Candidates(u) : TRUE
  <2>2. f = [u EXCEPT !.connectionId = IF u.connection = None THEN None ELSE chosen.id]
    BY <1>1, <1>2, <1>7 DEF Ro!Compiled
  <2>3. u.connection # None => chosen \in Ro!Candidates(u)
    BY <1>3
  <2>. HIDE DEF chosen, f
  <2>4. /\ f.connection = a.connection /\ f.resource = None /\ f.resourceId = None
        /\ f.connectionId = IF a.connection = None THEN None ELSE chosen.id
    BY <1>1, <1>7, <2>2
  <2>5. a.connection # None => /\ chosen.id \in 1..roMade /\ chosen.id \in Nat /\ chosen \in roRows
                               /\ a.connection = Ro!Slug(chosen.account) /\ chosen.id # None
    BY <1>1, <1>4, <2>3 DEF Ro!RoutingAssumption
  <2>6. f \in RoFilter
    BY <1>1, <2>2, <2>4, <2>5 DEF RoFilter, Ro!Unresolved, u
  <2>7. RoSaysSo(a, f)
    BY <1>5, <1>7, <2>4, <2>5 DEF RoSaysSo
  <2>8. RoSaidAt(a, f, Ro!World)
    BY <1>4, <1>5, <1>6, <1>7, <2>4, <2>5 DEF RoSaidAt, Ro!RoutingAssumption
  <2>. QED BY <2>6, <2>7, <2>8 DEF u, f
<1>8. CASE a.resource # None
  <2>1. DEFINE it == CHOOSE x \in Ro!Resolved(u) : TRUE
  <2>2. it \in Ro!Resolved(u)
    <3>1. Cardinality({}) = 0
      BY FS_EmptySet
    <3>2. Ro!Resolved(u) # {}
      BY <1>1, <1>3, <1>8, <3>1
    <3>. QED BY <3>2
  <2>3. f = [u EXCEPT !.connectionId = it.connectionId, !.resourceId = it.resourceId,
                      !.resource = IF roProvider = "github" THEN @ ELSE it.resourceId]
    BY <1>1, <1>2, <1>8 DEF Ro!Compiled
  <2>. HIDE DEF it, f
  <2>4. /\ f.connection = a.connection
        /\ f.connectionId = it.connectionId /\ f.resourceId = it.resourceId
        /\ f.resource = IF roProvider = "github" THEN a.resource ELSE it.resourceId
    BY <1>1, <2>3
  <2>5. PICK row \in Ro!Candidates(u) : row.id = it.connectionId
    BY <2>2 DEF Ro!Resolved, RoFormInv
  <2>6. /\ it.connectionId \in 1..roMade /\ it.connectionId \in Nat /\ it.connectionId # None
        /\ \A r \in roRows : r.id = it.connectionId => r = row
        /\ row \in roRows /\ a.connection \in {None, Ro!Slug(row.account)}
    BY <1>4, <1>5, <2>5 DEF Ro!RoutingAssumption
  <2>7. CASE roProvider = "github"
    <3>1. PICK l \in roListed : /\ l.name = a.resource
                              /\ it = [connectionId |-> l.connection, resourceId |-> l.thing]
      BY <1>1, <2>2, <2>7 DEF Ro!Resolved
    <3>2. it.resourceId = l.thing /\ it.connectionId = l.connection /\ l.thing \in roThings
      BY <3>1 DEF RoFormInv
    <3>3. it.resourceId # None
      BY <3>2 DEF Ro!RoutingAssumption
    <3>4. f \in RoFilter
      BY <1>1, <1>8, <2>3, <2>4, <2>6, <2>7, <3>2 DEF RoFilter, Ro!Unresolved, u
    <3>5. RoSaysSo(a, f)
      BY <1>8, <2>4, <2>6, <2>7, <3>2, <3>3 DEF RoSaysSo
    <3>6. ASSUME Ro!ListingIsCurrent
          PROVE  roHome[l.thing] = row.account /\ roNaming[l.thing] = a.resource
      <4>1. PICK q \in roRows \X roThings :
              /\ roHome[q[2]] = q[1].account
              /\ l = [connection |-> q[1].id, thing |-> q[2], name |-> roNaming[q[2]]]
        BY <2>7, <3>6 DEF Ro!ListingIsCurrent
      <4>2. /\ q[1] \in roRows /\ q[1].id = it.connectionId /\ q[2] = l.thing
            /\ l.name = roNaming[l.thing]
        BY <3>2, <4>1
      <4>. QED BY <2>6, <3>1, <4>1, <4>2
    <3>7. ASSUME Ro!ListingIsCurrent PROVE RoSaidAt(a, f, Ro!World)
      <4>1. /\ f.connectionId = row.id /\ row \in Ro!World.rows
            /\ \A r \in Ro!World.rows : r.id = f.connectionId => r = row
        BY <1>6, <2>4, <2>5, <2>6
      <4>2. roHome[f.resourceId] = row.account /\ Ro!World.names[f.resourceId] = a.resource
        BY <1>6, <2>4, <3>2, <3>6, <3>7
      <4>. QED BY <1>6, <1>8, <2>6, <2>7, <4>1, <4>2 DEF RoSaidAt
    <3>. QED BY <3>4, <3>5, <3>7 DEF u, f
  <2>8. CASE roProvider = "slack"
    <3>1. PICK r \in Ro!Candidates(u) : /\ Ro!Slug(r.account) = a.resource
                                     /\ it = [connectionId |-> r.id, resourceId |-> r.account]
      BY <1>1, <2>2, <2>8 DEF Ro!Resolved
    <3>2. it.resourceId = r.account /\ r = row
      BY <1>4, <2>6, <3>1
    <3>3. it.resourceId \in roAccounts /\ it.resourceId # None
      BY <1>4, <3>2 DEF Ro!RoutingAssumption
    <3>4. f \in RoFilter
      BY <1>1, <1>8, <2>3, <2>4, <2>6, <2>8, <3>3 DEF RoFilter, Ro!Unresolved, u
    <3>5. RoSaysSo(a, f)
      BY <1>8, <2>4, <2>6, <2>8, <3>1, <3>2, <3>3 DEF RoSaysSo
    <3>6. RoSaidAt(a, f, Ro!World)
      <4>1. /\ f.connectionId = row.id /\ row \in Ro!World.rows
            /\ \A x \in Ro!World.rows : x.id = f.connectionId => x = row
        BY <1>6, <2>4, <2>5, <2>6
      <4>2. f.resourceId = row.account
        BY <2>4, <3>2
      <4>. QED BY <1>6, <1>8, <2>6, <2>8, <4>1, <4>2 DEF RoSaidAt
    <3>. QED BY <3>4, <3>5, <3>6 DEF u, f
  <2>9. CASE roProvider = "linear"
    <3>1. Ro!Resolved(u) = {[connectionId |-> r.id, resourceId |-> u.resource] : r \in Ro!Candidates(u)}
      BY <2>9 DEF Ro!Resolved
    <3>2. it.resourceId = a.resource /\ a.resource \in roThings
      BY <1>1, <1>8, <2>2, <2>9, <3>1 DEF Ro!Resources
    <3>3. \A r \in Ro!Candidates(u) : r.id = it.connectionId
      <4>1. IsFiniteSet(Ro!Candidates(u))
        <5>1. Ro!Candidates(u) \subseteq roRows /\ IsFiniteSet(roRows)
          BY DEF Ro!Candidates, RoFormInv
        <5>. QED BY <5>1, FS_Subset
      <4>2. IsFiniteSet(Ro!Resolved(u))
        <5>1. [r \in Ro!Candidates(u) |-> [connectionId |-> r.id, resourceId |-> u.resource]]
                \in Surjection(Ro!Candidates(u), Ro!Resolved(u))
          BY <3>1 DEF Surjection
        <5>. QED BY <4>1, <5>1, FS_Surjection
      <4>3. Ro!Resolved(u) = {it}
        BY <1>1, <1>3, <1>8, <2>2, <4>2, FS_Singleton
      <4>4. TAKE r \in Ro!Candidates(u)
      <4>5. [connectionId |-> r.id, resourceId |-> u.resource] = it
        BY <3>1, <4>3
      <4>. QED BY <4>5
    <3>4. f \in RoFilter
      BY <1>1, <1>8, <2>3, <2>4, <2>6, <2>9, <3>2 DEF RoFilter, Ro!Unresolved, u
    <3>5. RoSaysSo(a, f)
      BY <1>8, <2>4, <2>6, <2>9, <3>2 DEF RoSaysSo
    <3>6. \A r \in roRows : a.connection \in {None, Ro!Slug(r.account)} => r \in Ro!Candidates(u)
      BY <1>1 DEF Ro!Candidates
    <3>7. RoSaidAt(a, f, Ro!World)
      BY <1>6, <1>8, <2>4, <2>6, <2>9, <3>3, <3>6 DEF RoSaidAt
    <3>. QED BY <3>4, <3>5, <3>7 DEF u, f
  <2>. QED BY <2>7, <2>8, <2>9 DEF RoFormInv
<1>. QED BY <1>7, <1>8

-----------------------------------------------------------------------------
\* Connections only come under new ids, or go.
RoRenews ==
  /\ UNCHANGED <<roProvider, roHome, roRevisions>>
  /\ roMade' \in 0..roMaxIds /\ roMade <= roMade'
  /\ \A r \in roRows' : r \in roRows \/ r.id \notin 1..roMade

LEMMA RoRenewalKeeps ==
  ASSUME Ro!RoutingAssumption, RoIInv, RoRenews
  PROVE  /\ roRevisions' \in Seq(RoRevision') /\ RoRoute \subseteq RoRoute'
         /\ RoRow \subseteq RoRow'
         /\ RoRevisionInv'
         /\ \A carried : \A k \in 1..Len(roRevisions) :
              RoCarries(roRevisions[k], carried) => RoCarries(roRevisions[k], carried)'
<1>1. /\ UNCHANGED <<roProvider, roHome, roRevisions>> /\ 1..roMade \subseteq 1..roMade'
      /\ \A r \in roRows' : r \in roRows \/ r.id \notin 1..roMade
  <2>1. roMade \in Nat /\ roMade' \in Nat /\ roMade <= roMade'
    BY DEF RoRenews, RoIInv, RoFormInv, Ro!RoutingAssumption
  <2>. QED BY <2>1 DEF RoRenews
<1>2. RoRow \subseteq RoRow' /\ RoRoute \subseteq RoRoute'
  BY <1>1 DEF RoRow, RoRoute
<1>4. RoFilter' = RoFilter /\ Ro!Authored' = Ro!Authored
  BY <1>1 DEF RoFilter, Ro!Authored, Ro!Resources
<1>5. RoRevision \subseteq RoRevision'
  BY <1>4 DEF RoRevision
<1>6. roRevisions' \in Seq(RoRevision')
  BY <1>1, <1>5, SeqMonotonic DEF RoIInv, RoFormInv
<1>7. RoRevisionInv'
  <2>1. SUFFICES ASSUME NEW k \in 1..Len(roRevisions)
        PROVE  LET v == roRevisions[k] IN
               /\ RoSaysSo(v.authored, v.filter)'
               /\ v.at # None => RoSaidAt(v.authored, v.filter, v.at)'
    BY <1>1 DEF RoRevisionInv
  <2>. DEFINE v == roRevisions[k]  a == v.authored  f == v.filter
  <2>2. RoSaysSo(a, f) /\ (v.at # None => RoSaidAt(a, f, v.at))
    BY DEF RoIInv, RoRevisionInv
  <2>3. RoSaysSo(a, f)'
    BY <1>1, <2>2 DEF RoSaysSo
  <2>4. v.at # None => RoSaidAt(a, f, v.at)'
    BY <1>1, <2>2 DEF RoSaidAt
  <2>. QED BY <2>3, <2>4
<1>8. ASSUME NEW k \in 1..Len(roRevisions), NEW carried, RoCarries(roRevisions[k], carried)
      PROVE  RoCarries(roRevisions[k], carried)'
  <2>. DEFINE v == roRevisions[k]
  <2>1. SUFFICES ASSUME v.at # None, v.at.rows \subseteq roRows'
                 PROVE  v.at.rows \subseteq roRows
    BY <1>1, <1>8 DEF RoCarries
  <2>3. \A r \in v.at.rows : r.id \in 1..roMade
    BY <2>1 DEF RoIInv, RoRevisionInv, RoSaidAt
  <2>. QED BY <1>1, <2>1, <2>3
<1>. QED BY <1>2, <1>6, <1>7, <1>8

LEMMA RoRoutesStay ==
  ASSUME Ro!RoutingAssumption, RoIInv, RoRenews, UNCHANGED <<roActive, roRoutes, roWork>>
  PROVE  RoRoutesInv'
<1>1. /\ roActive # 0 => roActive \in 1..Len(roRevisions)
      /\ roWork # None => roWork.revision \in 1..Len(roRevisions)
  <2>1. Len(roRevisions) \in Nat /\ roActive \in 0..Len(roRevisions)
    BY LenProperties DEF RoIInv, RoFormInv
  <2>. QED BY <2>1 DEF RoIInv, RoFormInv
<1>2. roActive # 0 => RoCarries(roRevisions[roActive], roRoutes)'
  <2>1. SUFFICES ASSUME roActive # 0 PROVE RoCarries(roRevisions[roActive], roRoutes)'
    OBVIOUS
  <2>2. RoCarries(roRevisions[roActive], roRoutes)
    BY <2>1 DEF RoIInv, RoRoutesInv
  <2>. QED BY <1>1, <2>1, <2>2, RoRenewalKeeps
<1>3. roWork # None /\ roWork.compiled => RoCarries(roRevisions[roWork.revision], roWork.routes)'
  <2>1. SUFFICES ASSUME roWork # None, roWork.compiled
                 PROVE  RoCarries(roRevisions[roWork.revision], roWork.routes)'
    OBVIOUS
  <2>2. RoCarries(roRevisions[roWork.revision], roWork.routes)
    BY <2>1 DEF RoIInv, RoRoutesInv
  <2>. QED BY <1>1, <2>1, <2>2, RoRenewalKeeps
<1>. QED BY <1>2, <1>3 DEF RoRoutesInv

LEMMA RoRefreshKeeps ==
  ASSUME Ro!RoutingAssumption, RoIInv, NEW row \in roRows, Ro!Refresh(row)
  PROVE  RoIInv'
<1>1. UNCHANGED <<roProvider, roHome, roNaming, roRows, roRevisions, roActive, roRoutes, roWork,
                  roMade>>
  BY DEF Ro!Refresh
<1>2. \A l \in roListed' : l.connection \in Ro!Ids /\ l.thing \in roThings
  BY DEF Ro!Refresh, RoIInv, RoFormInv, Ro!Ids
<1>3. RoRenews
  BY <1>1 DEF RoRenews, RoIInv, RoFormInv
<1>4. RoFormInv'
  BY <1>1, <1>2, <1>3, RoRenewalKeeps DEF RoIInv, RoFormInv, Ro!Ids
<1>5. RoRevisionInv' /\ RoRoutesInv'
  BY <1>1, <1>3, RoRenewalKeeps, RoRoutesStay
<1>. QED BY <1>4, <1>5 DEF RoIInv

LEMMA RoRenameKeeps ==
  ASSUME Ro!RoutingAssumption, RoIInv, NEW t \in roThings, NEW n \in roNames \cup {None},
         Ro!Rename(t, n)
  PROVE  RoIInv'
<1>1. UNCHANGED <<roProvider, roHome, roRows, roListed, roRevisions, roActive, roRoutes, roWork,
                  roMade>>
  BY DEF Ro!Rename, Ro!Changed
<1>2. roNaming' \in [roThings -> roNames \cup {None}]
  BY DEF Ro!Rename, RoIInv, RoFormInv
<1>3. \A s, u \in roThings : roNaming'[s] = roNaming'[u] /\ roNaming'[s] # None => s = u
  BY DEF Ro!Rename, RoIInv, RoFormInv
<1>4. RoRenews
  BY <1>1 DEF RoRenews, RoIInv, RoFormInv
<1>5. RoFormInv'
  BY <1>1, <1>2, <1>3, <1>4, RoRenewalKeeps DEF RoIInv, RoFormInv, Ro!Ids
<1>6. RoRevisionInv' /\ RoRoutesInv'
  BY <1>1, <1>4, RoRenewalKeeps, RoRoutesStay
<1>. QED BY <1>5, <1>6 DEF RoIInv

LEMMA RoConnectKeeps ==
  ASSUME Ro!RoutingAssumption, RoIInv, NEW a \in roAccounts, Ro!Connect(a)
  PROVE  RoIInv'
<1>. DEFINE new == [id |-> roMade + 1, account |-> a]
<1>1. /\ UNCHANGED <<roProvider, roHome, roNaming, roListed, roRevisions, roActive, roRoutes,
                     roWork>>
      /\ roMade' = roMade + 1 /\ roRows' = roRows \cup {new}
      /\ \A r \in roRows : r.account # a
  BY DEF Ro!Connect
<1>2. roMade \in Nat /\ roMade + 1 \in 0..roMaxIds
  BY DEF Ro!Connect, Ro!RoutingAssumption, RoIInv, RoFormInv
<1>3. RoRenews
  BY <1>1, <1>2 DEF RoRenews
<1>4. \A r \in roRows : r.id \in 1..roMade
  BY DEF RoIInv, RoFormInv, RoRow
<1>5. roRows' \subseteq RoRow'
  <2>1. new \in RoRow'
    BY <1>1, <1>2 DEF RoRow
  <2>. QED BY <1>1, <1>3, <2>1, RoRenewalKeeps DEF RoIInv, RoFormInv
<1>6. \A r, s \in roRows' : r.id = s.id \/ r.account = s.account => r = s
  <2>1. new.id \notin 1..roMade /\ new.account = a
    BY <1>2
  <2>. QED BY <1>1, <1>4, <2>1 DEF RoIInv, RoFormInv
<1>7. IsFiniteSet(roRows')
  BY <1>1, FS_AddElement DEF RoIInv, RoFormInv
<1>8. \A l \in roListed' : l.connection \in Ro!Ids' /\ l.thing \in roThings
  BY <1>1 DEF RoIInv, RoFormInv, Ro!Ids
<1>9. /\ roRoutes' \subseteq RoRoute'
      /\ roWork' # None => roWork'.routes \subseteq RoRoute'
  BY <1>1, <1>3, RoRenewalKeeps DEF RoIInv, RoFormInv
<1>10. RoFormInv'
  BY <1>1, <1>2, <1>3, <1>5, <1>6, <1>7, <1>8, <1>9, RoRenewalKeeps DEF RoIInv, RoFormInv
<1>11. RoRevisionInv' /\ RoRoutesInv'
  BY <1>1, <1>3, RoRenewalKeeps, RoRoutesStay
<1>. QED BY <1>10, <1>11 DEF RoIInv

LEMMA RoDisconnectKeeps ==
  ASSUME Ro!RoutingAssumption, RoIInv, NEW row \in roRows, Ro!Disconnect(row)
  PROVE  RoIInv'
<1>1. /\ UNCHANGED <<roProvider, roHome, roNaming, roRevisions, roActive, roWork, roMade>>
      /\ roRows' = roRows \ {row}
      /\ roRoutes' = {route \in roRoutes : route.connection # row.id}
      /\ roListed' = {l \in roListed : l.connection # row.id}
  BY DEF Ro!Disconnect, Ro!Changed
<1>2. RoRenews
  BY <1>1 DEF RoRenews, RoIInv, RoFormInv
<1>3. RoRoute' = RoRoute /\ RoRow' = RoRow
  BY <1>1 DEF RoRoute, RoRow
<1>4. IsFiniteSet(roRows')
  BY <1>1, FS_RemoveElement DEF RoIInv, RoFormInv
<1>5. \A l \in roListed' : l.connection \in Ro!Ids' /\ l.thing \in roThings
  BY <1>1 DEF RoIInv, RoFormInv, Ro!Ids
<1>6. RoFormInv'
  <2>1. roRows' \subseteq RoRow' /\ roRoutes' \subseteq RoRoute'
    BY <1>1, <1>3 DEF RoIInv, RoFormInv
  <2>2. \A r, s \in roRows' : r.id = s.id \/ r.account = s.account => r = s
    BY <1>1 DEF RoIInv, RoFormInv
  <2>. QED BY <1>1, <1>2, <1>3, <1>4, <1>5, <2>1, <2>2, RoRenewalKeeps DEF RoIInv, RoFormInv
<1>8. ASSUME roActive # 0, RoCarries(roRevisions[roActive], roRoutes)
      PROVE  RoCarries(roRevisions[roActive], roRoutes)'
  <2>. DEFINE v == roRevisions[roActive]
  <2>1. SUFFICES ASSUME v.at # None, v.at.rows \subseteq roRows'
        PROVE  IF v.authored.resource # None
               THEN [connection |-> v.filter.connectionId, resource |-> v.filter.resourceId] \in roRoutes'
               ELSE \A r \in v.at.rows : v.authored.connection \in {None, Ro!Slug(r.account)} =>
                      [connection |-> r.id, resource |-> None] \in roRoutes'
    BY <1>1 DEF RoCarries
  <2>2. \A r \in v.at.rows : r \in roRows /\ r.id # row.id
    BY <1>1, <2>1 DEF RoIInv, RoFormInv
  <2>3. roActive \in 1..Len(roRevisions)
    BY <1>8 DEF RoIInv, RoFormInv
  <2>4. RoSaysSo(v.authored, v.filter) /\ RoSaidAt(v.authored, v.filter, v.at)
    BY <2>1, <2>3 DEF RoIInv, RoRevisionInv
  <2>5. CASE v.authored.resource # None
    <3>1. v.filter.connectionId # row.id
      BY <2>2, <2>4, <2>5 DEF RoSaysSo, RoSaidAt
    <3>2. [connection |-> v.filter.connectionId, resource |-> v.filter.resourceId] \in roRoutes
      BY <1>1, <1>8, <2>1, <2>5 DEF RoCarries
    <3>. QED BY <1>1, <2>5, <3>1, <3>2
  <2>6. CASE v.authored.resource = None
    <3>1. \A r \in v.at.rows : v.authored.connection \in {None, Ro!Slug(r.account)} =>
                      [connection |-> r.id, resource |-> None] \in roRoutes
      BY <1>1, <1>8, <2>1, <2>6 DEF RoCarries
    <3>. QED BY <1>1, <2>2, <2>6, <3>1
  <2>. QED BY <2>5, <2>6
<1>9. RoRoutesInv'
  BY <1>1, <1>2, <1>8, RoRenewalKeeps DEF RoIInv, RoRoutesInv, RoFormInv
<1>10. RoRevisionInv'
  BY <1>2, RoRenewalKeeps
<1>. QED BY <1>6, <1>9, <1>10 DEF RoIInv

-----------------------------------------------------------------------------
LEMMA RoDeployKeeps ==
  ASSUME Ro!RoutingAssumption, RoIInv, NEW a \in Ro!Authored, NEW other \in BOOLEAN, Ro!Deploy(a,
         other)
  PROVE  RoIInv'
<1>. DEFINE f == Ro!Compiled(Ro!Unresolved(a))
            new == [authored |-> a, other |-> other, filter |-> f,
                    at |-> IF Ro!ListingIsCurrent THEN Ro!World ELSE None]
            n == Len(roRevisions) + 1
<1>1. /\ roWork = None /\ Ro!Compiles(Ro!Unresolved(a))
      /\ roRevisions' = Append(roRevisions, new)
      /\ UNCHANGED <<roProvider, roHome, roNaming, roRows, roListed, roActive, roRoutes, roMade>>
  BY DEF Ro!Deploy
<1>2. roWork' = [revision |-> Len(roRevisions'), compiled |-> FALSE, routes |-> {}]
  BY DEF Ro!Deploy
<1>3. /\ f \in RoFilter /\ RoSaysSo(a, f)
      /\ Ro!ListingIsCurrent => RoSaidAt(a, f, Ro!World)
  BY <1>1, RoCompiledSays DEF RoIInv
<1>. HIDE DEF f
<1>4. Ro!World \in Ro!Worlds
  <2>1. roMade \in 0..roMaxIds /\ roMaxIds \in Nat
    BY DEF RoIInv, RoFormInv, Ro!RoutingAssumption
  <2>2. RoRow \subseteq [id : 1..roMaxIds, account : roAccounts]
    BY <2>1 DEF RoRow
  <2>. QED BY <2>2 DEF Ro!World, Ro!Worlds, RoIInv, RoFormInv
<1>5. new \in RoRevision
  BY <1>3, <1>4 DEF RoRevision
<1>6. /\ new.authored = a /\ new.filter = f
      /\ new.at = IF Ro!ListingIsCurrent THEN Ro!World ELSE None
  OBVIOUS
<1>. HIDE DEF new
<1>7. /\ roRevisions' \in Seq(RoRevision) /\ Len(roRevisions') = n /\ Len(roRevisions) \in Nat
      /\ roRevisions'[n] = new
      /\ \A k \in 1..Len(roRevisions) : roRevisions'[k] = roRevisions[k]
  BY <1>1, <1>5 DEF RoIInv, RoFormInv
<1>8. /\ RoRevision' = RoRevision /\ RoRoute' = RoRoute /\ RoRow' = RoRow
      /\ \A x, y : RoSaysSo(x, y)' <=> RoSaysSo(x, y)
      /\ \A x, y, at : RoSaidAt(x, y, at)' <=> RoSaidAt(x, y, at)
      /\ \A v, carried : RoCarries(v, carried)' <=> RoCarries(v, carried)
  BY <1>1 DEF RoRevision, RoRow, RoRoute, RoFilter, Ro!Authored, Ro!Resources, RoSaysSo,
     RoSaidAt, RoCarries
<1>9. RoFormInv'
  <2>1. roActive' \in 0..n
    BY <1>1, <1>7 DEF RoIInv, RoFormInv
  <2>2. roWork'.revision = n /\ n \in 1..n /\ roWork'.compiled = FALSE /\ roWork'.routes = {}
    BY <1>2, <1>7
  <2>. QED BY <1>1, <1>7, <1>8, <2>1, <2>2 DEF RoIInv, RoFormInv, Ro!Ids
<1>10. RoRevisionInv'
  <2>1. SUFFICES ASSUME NEW k \in 1..n
        PROVE  LET v == roRevisions'[k] IN
               /\ RoSaysSo(v.authored, v.filter)
               /\ v.at # None => RoSaidAt(v.authored, v.filter, v.at)
    BY <1>1, <1>7, <2>1 DEF RoRevisionInv, RoSaysSo, RoSaidAt
  <2>2. CASE k = n
    BY <1>3, <1>6, <1>7, <2>2
  <2>3. CASE k # n
    BY <1>7, <2>3 DEF RoIInv, RoRevisionInv
  <2>. QED BY <2>2, <2>3
<1>11. RoRoutesInv'
  <2>1. roWork'.compiled = FALSE
    BY <1>2
  <2>2. roActive # 0 => roActive \in 1..Len(roRevisions)
    BY <1>7 DEF RoIInv, RoFormInv
  <2>3. roActive # 0 => RoCarries(roRevisions'[roActive], roRoutes)
    BY <1>7, <2>2 DEF RoIInv, RoRoutesInv
  <2>4. roActive' # 0 => RoCarries(roRevisions[roActive], roRoutes)'
    BY <1>1, <2>3 DEF RoCarries
  <2>. QED BY <2>1, <2>4 DEF RoRoutesInv
<1>. QED BY <1>9, <1>10, <1>11 DEF RoIInv

\* What leaves the world and the revisions.
LEMMA RoActivationKeeps ==
  ASSUME Ro!RoutingAssumption, RoIInv, Ro!Rollback \/ Ro!CompileRoutes \/ Ro!Activate
  PROVE  RoIInv'
<1>1. UNCHANGED <<roProvider, roHome, roNaming, roRows, roListed, roRevisions, roMade>>
  BY DEF Ro!Rollback, Ro!CompileRoutes, Ro!Activate
<1>2. /\ RoRevision' = RoRevision /\ RoRoute' = RoRoute /\ RoRow' = RoRow
      /\ RoRevisionInv'
      /\ \A k, carried : RoCarries(roRevisions[k], carried)' <=> RoCarries(roRevisions[k], carried)
  <2>1. RoRenews
    BY <1>1 DEF RoRenews, RoIInv, RoFormInv
  <2>2. RoRevision' = RoRevision /\ RoRoute' = RoRoute /\ RoRow' = RoRow
    BY <1>1 DEF RoRevision, RoRow, RoRoute, RoFilter, Ro!Authored, Ro!Resources
  <2>. QED BY <1>1, <2>1, <2>2, RoRenewalKeeps DEF RoCarries
<1>3. Len(roRevisions) \in Nat
  BY LenProperties DEF RoIInv, RoFormInv
<1>4. SUFFICES /\ roActive' \in 0..Len(roRevisions) /\ roRoutes' \subseteq RoRoute
               /\ roWork' # None => /\ roWork'.revision \in 1..Len(roRevisions)
                                  /\ roWork'.compiled \in BOOLEAN
                                  /\ roWork'.routes \subseteq RoRoute
               /\ roActive' # 0 => RoCarries(roRevisions[roActive'], roRoutes')
               /\ roWork' # None /\ roWork'.compiled => RoCarries(roRevisions[roWork'.revision], roWork'.routes)
  <2>1. RoFormInv'
    BY <1>1, <1>2, <1>4 DEF RoIInv, RoFormInv, Ro!Ids
  <2>2. RoRoutesInv'
    BY <1>1, <1>4 DEF RoRoutesInv, RoCarries
  <2>. QED BY <1>2, <2>1, <2>2 DEF RoIInv
<1>5. CASE Ro!Rollback
  <2>1. /\ roWork' = [revision |-> roActive - 1, compiled |-> FALSE, routes |-> {}]
        /\ roActive > 1 /\ UNCHANGED <<roActive, roRoutes>>
    BY <1>5 DEF Ro!Rollback
  <2>2. roActive - 1 \in 1..Len(roRevisions)
    BY <1>3, <2>1 DEF RoIInv, RoFormInv
  <2>3. roWork'.revision = roActive - 1 /\ roWork'.compiled = FALSE /\ roWork'.routes = {}
    BY <2>1
  <2>. QED BY <2>1, <2>2, <2>3 DEF RoIInv, RoFormInv, RoRoutesInv
<1>6. CASE Ro!CompileRoutes
  <2>. DEFINE of == roRevisions[roWork.revision]
              all == Ro!RoutesOf(of.filter) \cup IF of.other THEN Ro!RoutesOf(Ro!Unresolved(Ro!Everything)) ELSE {}
  <2>1. /\ roWork # None /\ UNCHANGED <<roActive, roRoutes>>
        /\ roWork' = IF Ro!Compiles(of.filter) THEN [roWork EXCEPT !.compiled = TRUE, !.routes = all] ELSE None
    BY <1>6 DEF Ro!CompileRoutes
  <2>2. roWork.revision \in 1..Len(roRevisions)
    BY <2>1 DEF RoIInv, RoFormInv
  <2>3. RoCarries(of, Ro!RoutesOf(of.filter)) /\ Ro!RoutesOf(of.filter) \subseteq RoRoute
    BY <2>2, RoRoutesCarry
  <2>4. Ro!RoutesOf(Ro!Unresolved(Ro!Everything)) \subseteq RoRoute
    BY DEF Ro!RoutesOf, Ro!Unresolved, Ro!Everything, Ro!Compiled, Ro!Settled, Ro!Candidates,
       RoRoute, RoIInv, RoFormInv, RoRow
  <2>5. RoCarries(of, all) /\ all \subseteq RoRoute
    BY <2>3, <2>4 DEF RoCarries
  <2>6. roWork' # None => roWork'.revision = roWork.revision /\ roWork'.routes = all /\ roWork'.compiled = TRUE
    BY <2>1
  <2>. HIDE DEF all
  <2>. QED BY <2>1, <2>2, <2>5, <2>6 DEF RoIInv, RoFormInv, RoRoutesInv
<1>7. CASE Ro!Activate
  BY <1>3, <1>7 DEF Ro!Activate, RoIInv, RoFormInv, RoRoutesInv
<1>. QED BY <1>5, <1>6, <1>7

LEMMA RoInductive ==
  ASSUME Ro!RoutingAssumption, RoIInv, Ro!Next \/ UNCHANGED Ro!vars
  PROVE  RoIInv'
<1>1. CASE UNCHANGED Ro!vars
  <2>1. UNCHANGED <<roProvider, roHome, roNaming, roRows, roListed, roRevisions, roActive,
                    roRoutes, roWork, roMade>>
    BY <1>1 DEF Ro!vars
  <2>2. RoRenews
    BY <2>1 DEF RoRenews, RoIInv, RoFormInv
  <2>3. RoFormInv'
    BY <2>1, <2>2, RoRenewalKeeps DEF RoIInv, RoFormInv, Ro!Ids
  <2>4. RoRevisionInv' /\ RoRoutesInv'
    BY <2>1, <2>2, RoRenewalKeeps, RoRoutesStay
  <2>. QED BY <2>3, <2>4 DEF RoIInv
<1>2. CASE Ro!Next
  BY <1>2, RoRefreshKeeps, RoRenameKeeps, RoConnectKeeps, RoDisconnectKeeps, RoDeployKeeps,
     RoActivationKeeps
  DEF Ro!Next
<1>. QED BY <1>1, <1>2

-----------------------------------------------------------------------------
LEMMA RoNothingIsForeign ==
  ASSUME Ro!RoutingAssumption, RoIInv
  PROVE  Ro!NothingForeign
<1>1. SUFFICES ASSUME roActive # 0, NEW e \in Ro!Events, Ro!Taken(roRevisions[roActive].filter, e)
               PROVE  Ro!Means(roRevisions[roActive].authored, e)
  BY DEF Ro!NothingForeign
<1>. DEFINE v == roRevisions[roActive]  a == v.authored  f == v.filter
<1>2. roActive \in 1..Len(roRevisions)
  BY <1>1 DEF RoIInv, RoFormInv
<1>3. RoSaysSo(a, f)
  BY <1>2 DEF RoIInv, RoRevisionInv
<1>. HIDE DEF v
<1>4. PICK row \in roRows : row.account = e.account /\ Ro!Matches(f, e, row)
  BY <1>1 DEF Ro!Taken, v
<1>5. f.connectionId \in {None, row.id} /\ Ro!Fits(f, e)
  BY <1>4 DEF Ro!Matches
<1>6. a.connection \in {None, Ro!Slug(e.account)}
  BY <1>3, <1>4, <1>5 DEF RoSaysSo
<1>7. a.resource = None \/ a.resource = CASE roProvider = "github" -> roNaming[e.resource]
                                           [] roProvider = "slack" -> Ro!Slug(e.account)
                                           [] roProvider = "linear" -> e.resource
  <2>1. CASE roProvider = "github"
    BY <1>3, <1>5, <2>1 DEF RoSaysSo, Ro!Fits, Ro!MatchesRepository
  <2>2. CASE roProvider = "slack"
    <3>1. e.resource = e.account
      BY <2>2 DEF Ro!Events
    <3>. QED BY <1>3, <1>5, <2>2, <3>1
       DEF RoSaysSo, Ro!Fits, Ro!MatchesWorkspace, Ro!RoutingAssumption
  <2>3. CASE roProvider = "linear"
    BY <1>3, <1>5, <2>3 DEF RoSaysSo, Ro!Fits, Ro!MatchesProject
  <2>. QED BY <2>1, <2>2, <2>3 DEF RoIInv, RoFormInv
<1>. QED BY <1>6, <1>7 DEF Ro!Means, v

LEMMA RoNothingIsMissed ==
  ASSUME Ro!RoutingAssumption, RoIInv
  PROVE  Ro!NothingMissed
<1>1. SUFFICES ASSUME roActive # 0, roRevisions[roActive].at = Ro!World,
                      NEW e \in Ro!Events, Ro!Means(roRevisions[roActive].authored, e),
                      NEW row \in roRows, row.account = e.account
               PROVE  Ro!Taken(roRevisions[roActive].filter, e)
  BY DEF Ro!NothingMissed
<1>. DEFINE v == roRevisions[roActive]  a == v.authored  f == v.filter
<1>2. roActive \in 1..Len(roRevisions)
  BY <1>1 DEF RoIInv, RoFormInv
<1>3. v \in RoRevision
  BY <1>2, ElementOfSeq DEF RoIInv, RoFormInv
<1>4. Ro!World \in Ro!Worlds
  <2>1. roMade \in 0..roMaxIds /\ roMaxIds \in Nat
    BY DEF RoIInv, RoFormInv, Ro!RoutingAssumption
  <2>2. RoRow \subseteq [id : 1..roMaxIds, account : roAccounts]
    BY <2>1 DEF RoRow
  <2>. QED BY <2>2 DEF Ro!World, Ro!Worlds, RoIInv, RoFormInv
<1>5. v.at.rows = roRows /\ v.at.names = roNaming /\ v.at # None
  BY <1>1, <1>4 DEF Ro!World, Ro!RoutingAssumption
<1>6. RoSaysSo(a, f) /\ RoSaidAt(a, f, v.at)
  BY <1>2, <1>5 DEF RoIInv, RoRevisionInv
<1>7. RoCarries(v, roRoutes)
  BY <1>1 DEF RoIInv, RoRoutesInv
<1>8. /\ a.connection \in {None, Ro!Slug(e.account)}
      /\ a.resource \in {None, CASE roProvider = "github" -> roNaming[e.resource]
                                 [] roProvider = "slack" -> Ro!Slug(e.account)
                                 [] roProvider = "linear" -> e.resource}
  BY <1>1 DEF Ro!Means
<1>9. \A r, s \in roRows : r.id = s.id \/ r.account = s.account => r = s
  BY DEF RoIInv, RoFormInv
<1>. HIDE DEF v
<1>10. CASE a.resource = None
  <2>1. f.resource = None /\ f.resourceId = None
    BY <1>6, <1>10 DEF RoSaysSo
  <2>2. [connection |-> row.id, resource |-> None] \in roRoutes
    BY <1>1, <1>5, <1>7, <1>8, <1>10 DEF RoCarries
  <2>3. f.connectionId \in {None, row.id}
    <3>1. CASE a.connection = None
      BY <1>6, <1>10, <3>1 DEF RoSaidAt
    <3>2. CASE a.connection # None
      <4>1. PICK r \in roRows : r.id = f.connectionId /\ a.connection = Ro!Slug(r.account)
        BY <1>5, <1>6, <3>2 DEF RoSaysSo, RoSaidAt
      <4>2. r.account = row.account
        BY <1>1, <1>8, <3>2, <4>1 DEF Ro!Slug
      <4>. QED BY <1>9, <4>1, <4>2
    <3>. QED BY <3>1, <3>2
  <2>4. Ro!Fits(f, e)
    BY <2>1 DEF Ro!Fits, Ro!MatchesRepository, Ro!MatchesWorkspace, Ro!MatchesProject, RoIInv,
       RoFormInv
  <2>5. Ro!Matches(f, e, row)
    BY <2>3, <2>4 DEF Ro!Matches
  <2>. QED BY <1>1, <2>2, <2>5 DEF Ro!Taken, v
<1>11. CASE a.resource # None
  <2>1. [connection |-> f.connectionId, resource |-> f.resourceId] \in roRoutes
    BY <1>5, <1>7, <1>11 DEF RoCarries
  <2>2. PICK r \in roRows : r.id = f.connectionId
    BY <1>5, <1>6, <1>11 DEF RoSaysSo, RoSaidAt
  <2>3. f.resourceId = e.resource /\ Ro!Fits(f, e) /\ r = row
    <3>1. CASE roProvider = "github"
      <4>1. /\ a.resource = roNaming[e.resource] /\ f.resource = a.resource
            /\ f.resourceId \in roThings /\ roNaming[f.resourceId] = a.resource
            /\ roHome[f.resourceId] = r.account
        BY <1>5, <1>6, <1>8, <1>11, <2>2, <3>1 DEF RoSaysSo, RoSaidAt
      <4>2. e.resource \in roThings /\ e.account = roHome[e.resource]
        BY <3>1 DEF Ro!Events
      <4>3. f.resourceId = e.resource
        BY <1>11, <4>1, <4>2 DEF RoIInv, RoFormInv
      <4>4. Ro!Fits(f, e)
        BY <3>1, <4>1, <4>3 DEF Ro!Fits, Ro!MatchesRepository
      <4>. QED BY <1>1, <1>9, <4>1, <4>2, <4>3, <4>4
    <3>2. CASE roProvider = "slack"
      <4>1. /\ a.resource = Ro!Slug(e.account) /\ f.resource = f.resourceId
            /\ a.resource = Ro!Slug(f.resource) /\ r.account = f.resourceId
        BY <1>5, <1>6, <1>8, <1>11, <2>2, <3>2 DEF RoSaysSo, RoSaidAt
      <4>2. e.resource = e.account
        BY <3>2 DEF Ro!Events
      <4>3. f.resource = e.account
        BY <4>1 DEF Ro!Slug
      <4>4. Ro!Fits(f, e)
        BY <3>2, <4>2, <4>3 DEF Ro!Fits, Ro!MatchesWorkspace
      <4>. QED BY <1>1, <1>9, <4>1, <4>2, <4>3, <4>4
    <3>3. CASE roProvider = "linear"
      <4>1. a.resource = e.resource /\ f.resource = a.resource /\ f.resourceId = a.resource
        BY <1>6, <1>8, <1>11, <3>3 DEF RoSaysSo
      <4>2. row.id = f.connectionId
        BY <1>1, <1>5, <1>6, <1>8, <1>11, <3>3 DEF RoSaidAt
      <4>3. Ro!Fits(f, e)
        BY <3>3, <4>1 DEF Ro!Fits, Ro!MatchesProject
      <4>. QED BY <1>9, <2>2, <4>1, <4>2, <4>3
    <3>. QED BY <3>1, <3>2, <3>3 DEF RoIInv, RoFormInv
  <2>4. Ro!Matches(f, e, row)
    BY <2>2, <2>3 DEF Ro!Matches
  <2>. QED BY <1>1, <2>1, <2>2, <2>3, <2>4 DEF Ro!Taken, v
<1>. QED BY <1>10, <1>11

LEMMA RoTyped ==
  ASSUME Ro!RoutingAssumption, RoIInv
  PROVE  Ro!TypeOK
<1>1. \A k \in DOMAIN roRevisions : roRevisions[k].authored \in Ro!Authored
  <2>1. DOMAIN roRevisions = 1..Len(roRevisions)
    BY LenProperties DEF RoIInv, RoFormInv
  <2>2. \A k \in DOMAIN roRevisions : roRevisions[k] \in RoRevision
    BY <2>1, ElementOfSeq DEF RoIInv, RoFormInv
  <2>. QED BY <2>2 DEF RoRevision
<1>. QED BY <1>1 DEF RoIInv, RoFormInv, Ro!TypeOK, RoRow, RoRoute

\* A trigger takes the events its author asked for, and no others, as things are renamed,
\* connected and disconnected (src/src/triggers/*/match.ts).
THEOREM RoRoutedAsAsked ==
  ASSUME Ro!RoutingAssumption
  PROVE  Ro!Spec => [](Ro!TypeOK /\ Ro!NothingForeign /\ Ro!NothingMissed)
<1>1. Ro!Init => RoIInv
  BY RoInitially
<1>2. RoIInv /\ [Ro!Next]_(Ro!vars) => RoIInv'
  BY RoInductive
<1>3. RoIInv => Ro!TypeOK /\ Ro!NothingForeign /\ Ro!NothingMissed
  BY RoTyped, RoNothingIsForeign, RoNothingIsMissed
<1>. QED BY <1>1, <1>2, <1>3, PTL DEF Ro!Spec

-----------------------------------------------------------------------------
(* Migration of triggers *)

CONSTANTS tmHubs, tmOrder, tmNames, tmContents, tmMaxWrites, tmMaxCrashes
VARIABLES tmRevisions, tmActive, tmProjectRoutes, tmMigrations, tmTriggers,
          tmStarts, tmWrites, tmCrashes

Tm == INSTANCE TriggerMigration WITH
    Hubs <- tmHubs, Order <- tmOrder, Names <- tmNames,
    Contents <- tmContents, MaxWrites <- tmMaxWrites,
    MaxCrashes <- tmMaxCrashes, revisions <- tmRevisions, active <- tmActive,
    projectRoutes <- tmProjectRoutes, migrations <- tmMigrations,
    triggers <- tmTriggers, hubs <- tmStarts, writes <- tmWrites,
    crashes <- tmCrashes

TmPiece == STRING \cup Nat

TmItem == [project : Tm!Projects, revision : Nat \ {0}]
TmHub == [at : {"down", "listed", "begun", "up", "failed"}, todo : SUBSET TmItem,
        occupied : SUBSET Seq(TmPiece), since : Nat]
TmTrigger == [id : Nat, name : Seq(TmPiece), from : {<<>>} \cup (Tm!Projects \X tmNames),
            routed : BOOLEAN]

\* The triggers have names and ids of their own.
TmFormInv ==
  /\ tmRevisions \in [Tm!Projects -> Seq(tmContents)] /\ \A p \in Tm!Projects : tmRevisions[p] # <<>>
  /\ tmActive \in [Tm!Projects -> Nat]
  /\ tmProjectRoutes \in [Tm!Projects -> SUBSET tmNames]
  /\ tmMigrations \subseteq Tm!Projects
  /\ IsFiniteSet(tmTriggers)
  /\ tmTriggers \subseteq TmTrigger
  /\ \A t \in tmTriggers : t.id \in 1..Cardinality(tmTriggers)
  /\ \A t, u \in tmTriggers : t.id = u.id \/ t.name = u.name => t = u
  /\ tmStarts \in [tmHubs -> TmHub]
  /\ tmWrites \in 0..tmMaxWrites /\ tmCrashes \in 0..tmMaxCrashes

\* A project that was not migrated has the routes of its last deployment and no trigger of
\* the organization's; one that was has one for each, and no others.
TmByProject(p) ==
  /\ tmActive[p] = Len(tmRevisions[p]) /\ tmProjectRoutes[p] = Tm!Deployed(p)
  /\ \A t \in tmTriggers, n \in tmNames : t.from # <<p, n>>
TmByTriggers(p) ==
  /\ tmActive[p] = 0 /\ tmProjectRoutes[p] = {}
  /\ \A n \in Tm!Deployed(p) : \E t \in tmTriggers : t.from = <<p, n>>
  /\ \A n \in tmNames : \A t, u \in tmTriggers :
       t.from = <<p, n>> => n \in Tm!Deployed(p) /\ (u.from = <<p, n>> => t = u)
TmServedInv ==
  \A p \in Tm!Projects : IF p \in tmMigrations THEN TmByTriggers(p) ELSE TmByProject(p)

\* What is to do at a start: every project that is not migrated, at the revision it has
\* unless somebody deployed since.
TmTodoOf(hub) ==
  /\ hub.since <= tmWrites
  /\ hub.at = "failed" => hub.since < tmWrites
  /\ hub.at \in {"listed", "begun"} =>
       /\ hub.todo # {}
       /\ \A p \in Tm!Projects \ tmMigrations : \E it \in hub.todo : it.project = p
       /\ \A it \in hub.todo : \/ it.project \in tmMigrations
                               \/ tmActive[it.project] = it.revision
                               \/ hub.since < tmWrites

\* A transaction holds its project, and the names it has read are those there are unless
\* somebody saved since.
TmBegunOf(hub) ==
  LET item == Tm!First(hub.todo) IN
  /\ item.project \notin tmMigrations /\ tmActive[item.project] = item.revision
  /\ IsFiniteSet(hub.occupied)
  /\ hub.occupied = Tm!Taken \/ hub.since < tmWrites

TmHubsInv == \A h \in tmHubs : TmTodoOf(tmStarts[h]) /\ (tmStarts[h].at = "begun" => TmBegunOf(tmStarts[h]))

\* There is one transaction at a time.
TmAloneInv ==
  \A g, h \in tmHubs : tmStarts[g].at = "begun" /\ tmStarts[h].at = "begun" => g = h

TmIInv == TmFormInv /\ TmServedInv /\ TmHubsInv /\ TmAloneInv

-----------------------------------------------------------------------------
(* Names *)

LEMMA TmFirstIs ==
  ASSUME Tm!MigrationAssumption, NEW todo, todo # {}, \A x \in todo : x.project \in Tm!Projects
  PROVE  /\ Tm!First(todo) \in todo
         /\ \A x \in todo : Tm!Place(Tm!First(todo).project) <= Tm!Place(x.project)
<1>1. \A p \in Tm!Projects : Tm!Place(p) \in DOMAIN tmOrder /\ tmOrder[Tm!Place(p)] = p
  BY DEF Tm!Projects, Tm!Place
<1>2. DOMAIN tmOrder \subseteq Nat
  BY LenProperties DEF Tm!MigrationAssumption
<1>. DEFINE T == {Tm!Place(x.project) : x \in todo}
<1>3. T \in SUBSET Nat /\ T # {}
  BY <1>1, <1>2
<1>. HIDE DEF T
<1>4. PICK n \in T : \A m \in T : n <= m
  BY <1>3, Least
<1>5. \E it \in todo : \A x \in todo : Tm!Place(it.project) <= Tm!Place(x.project)
  BY <1>4 DEF T
<1>. QED BY <1>5 DEF Tm!First

LEMMA TmPlacesDiffer ==
  ASSUME Tm!MigrationAssumption, NEW p \in Tm!Projects, NEW q \in Tm!Projects,
         Tm!Place(p) <= Tm!Place(q), Tm!Place(q) <= Tm!Place(p)
  PROVE  p = q
<1>1. /\ Tm!Place(p) \in DOMAIN tmOrder /\ tmOrder[Tm!Place(p)] = p
      /\ Tm!Place(q) \in DOMAIN tmOrder /\ tmOrder[Tm!Place(q)] = q
  BY DEF Tm!Projects, Tm!Place
<1>2. DOMAIN tmOrder \subseteq Nat
  BY LenProperties DEF Tm!MigrationAssumption
<1>. QED BY <1>1, <1>2

LEMMA TmPieces ==
  ASSUME NEW S, NEW x \in S
  PROVE  <<x>> \in Seq(S) /\ \A s \in Seq(S) : Append(s, x) \in Seq(S)
OBVIOUS

LEMMA TmCounts == ASSUME NEW T PROVE Tm!Cardinality(T) = Cardinality(T)
BY DEF Tm!Cardinality, Cardinality

\* A name is found, since fewer are taken than are tried.
LEMMA TmAvailable ==
  ASSUME NEW occupied, IsFiniteSet(occupied), NEW slug \in STRING, NEW requested \in Seq(TmPiece)
  PROVE  LET name == Tm!AvailableMigratedTriggerName(occupied, slug, requested) IN
         name \in Seq(TmPiece) /\ name \notin occupied
<1>. DEFINE base == <<slug>> \o requested
            count == Tm!Cardinality(occupied)
            numbered(n) == Append(base, n)
            free == {n \in 2..count + 2 : numbered(n) \notin occupied}
<1>1. base \in Seq(TmPiece)
  <2>1. slug \in TmPiece
    BY DEF TmPiece
  <2>2. <<slug>> \in Seq(TmPiece)
    BY <2>1, TmPieces
  <2>. QED BY <2>2, ConcatProperties
<1>2. count \in Nat /\ count = Cardinality(occupied)
  BY FS_CardinalityType, TmCounts
<1>3. \A n \in Nat : numbered(n) \in Seq(TmPiece)
  <2>1. TAKE n \in Nat
  <2>2. n \in TmPiece
    BY DEF TmPiece
  <2>3. Append(base, n) \in Seq(TmPiece)
    BY <1>1, <2>2, TmPieces
  <2>. QED BY <2>3
<1>4. \A m, n \in Nat : numbered(m) = numbered(n) => m = n
  <2>1. TAKE m, n \in Nat
  <2>2. HAVE numbered(m) = numbered(n)
  <2>3. m \in TmPiece /\ n \in TmPiece
    BY DEF TmPiece
  <2>4. Append(base, m)[Len(base) + 1] = m /\ Append(base, n)[Len(base) + 1] = n
    BY <1>1, <2>3
  <2>. QED BY <2>2, <2>4
<1>. HIDE DEF base, count, numbered
<1>5. free # {}
  <2>1. SUFFICES ASSUME \A n \in 2..count + 2 : numbered(n) \in occupied PROVE FALSE
    OBVIOUS
  <2>. DEFINE S == 2..count + 2  f == [n \in S |-> numbered(n)]
  <2>2. IsFiniteSet(S) /\ Cardinality(S) = count + 1
    <3>1. ASSUME NEW k \in Nat PROVE IsFiniteSet(2..k + 2) /\ Cardinality(2..k + 2) = k + 1
      BY FS_Interval
    <3>. QED BY <1>2, <3>1
  <2>3. f \in [S -> occupied]
    BY <2>1
  <2>4. Cardinality(occupied) < Cardinality(S)
    BY <1>2, <2>2
  <2>5. \A m, n \in S : f[m] = f[n] => m = n
    BY <1>2, <1>4
  <2>. HIDE DEF S, f
  <2>6. \E m, n \in S : m # n /\ f[m] = f[n]
    BY <2>2, <2>3, <2>4, FS_PigeonHole
  <2>. QED BY <2>5, <2>6
<1>6. \E n \in free : \A m \in free : n <= m
  <2>1. free \in SUBSET Nat
    BY <1>2
  <2>. HIDE DEF free
  <2>. QED BY <1>5, <2>1, Least
<1>7. LET n == CHOOSE x \in free : \A m \in free : x <= m IN
      numbered(n) \in Seq(TmPiece) /\ numbered(n) \notin occupied
  <2>. DEFINE n == CHOOSE x \in free : \A m \in free : x <= m
  <2>1. n \in free
    BY <1>6
  <2>2. n \in Nat /\ numbered(n) \notin occupied
    BY <1>2, <2>1
  <2>. HIDE DEF n
  <2>3. numbered(n) \in Seq(TmPiece)
    BY <1>3, <2>2
  <2>. QED BY <2>2, <2>3 DEF n
<1>8. Tm!AvailableMigratedTriggerName(occupied, slug, requested) =
        IF requested \notin occupied THEN requested
        ELSE IF base \notin occupied THEN base
        ELSE numbered(CHOOSE x \in free : \A m \in free : x <= m)
  BY DEF Tm!AvailableMigratedTriggerName, base, numbered, count
<1>. HIDE DEF free
<1>. QED BY <1>1, <1>7, <1>8

\* How the names are given, one after the other.
TmGives(f, n, occupied, slug, requested) ==
  f = [i \in 0..n |-> IF i = 0 THEN <<>>
        ELSE Append(f[i - 1],
               Tm!AvailableMigratedTriggerName(occupied \cup Tm!Elements(f[i - 1]),
                                            slug, requested[i]))]

LEMMA TmNamesAreGiven ==
  ASSUME NEW occupied, NEW slug, NEW requested, Len(requested) \in Nat
  PROVE  \E f : /\ TmGives(f, Len(requested), occupied, slug, requested)
                /\ Tm!Named(occupied, slug, requested) = f[Len(requested)]
<1>. DEFINE next(s, i) == Append(s, Tm!AvailableMigratedTriggerName(occupied \cup Tm!Elements(s),
                                                                 slug, requested[i]))
            T == {n \in Nat : \E f : TmGives(f, n, occupied, slug, requested)}
<1>1. 0 \in T
  <2>. DEFINE f == [i \in 0..0 |-> <<>>]
  <2>1. TmGives(f, 0, occupied, slug, requested)
    BY DEF TmGives
  <2>. QED BY <2>1
<1>2. ASSUME NEW n \in T PROVE n + 1 \in T
  <2>1. PICK f : TmGives(f, n, occupied, slug, requested)
    OBVIOUS
  <2>. DEFINE g == [i \in 0..(n + 1) |-> IF i = n + 1 THEN next(f[n], n + 1) ELSE f[i]]
  <2>2. \A i \in 0..(n + 1) : g[i] = IF i = 0 THEN <<>> ELSE next(g[i - 1], i)
    <3>1. n \in Nat
      OBVIOUS
    <3>2. \A i \in 0..n : f[i] = IF i = 0 THEN <<>> ELSE next(f[i - 1], i)
      BY <2>1 DEF TmGives
    <3>. HIDE DEF next
    <3>3. TAKE i \in 0..(n + 1)
    <3>4. CASE i = n + 1
      <4>1. i - 1 = n /\ i # 0 /\ n \in 0..(n + 1) /\ n # n + 1
        BY <3>1, <3>4
      <4>. QED BY <3>4, <4>1
    <3>5. CASE i # n + 1
      <4>1. i \in 0..n /\ (i # 0 => i - 1 \in 0..(n + 1) /\ i - 1 # n + 1)
        BY <3>1, <3>5
      <4>. QED BY <3>2, <3>5, <4>1
    <3>. QED BY <3>4, <3>5
  <2>3. TmGives(g, n + 1, occupied, slug, requested)
    <3>1. g = [i \in 0..(n + 1) |-> g[i]]
      OBVIOUS
    <3>. HIDE DEF g
    <3>2. [i \in 0..(n + 1) |-> g[i]] = [i \in 0..(n + 1) |-> IF i = 0 THEN <<>> ELSE next(g[i - 1], i)]
      BY <2>2
    <3>. QED BY <3>1, <3>2 DEF TmGives
  <2>. HIDE DEF g
  <2>. QED BY <2>3
<1>3. T = Nat
  <2>1. T \in SUBSET Nat
    OBVIOUS
  <2>. HIDE DEF T
  <2>. QED BY <1>1, <1>2, <2>1, Induction
<1>4. \E f : TmGives(f, Len(requested), occupied, slug, requested)
  BY <1>3
<1>. DEFINE f == CHOOSE h : h = [i \in 0..Len(requested) |-> IF i = 0 THEN <<>>
               ELSE Append(h[i - 1],
                      Tm!AvailableMigratedTriggerName(occupied \cup Tm!Elements(h[i - 1]),
                                                   slug, requested[i]))]
<1>5. TmGives(f, Len(requested), occupied, slug, requested)
  BY <1>4 DEF TmGives
<1>6. Tm!Named(occupied, slug, requested) = f[Len(requested)]
  BY DEF Tm!Named
<1>. HIDE DEF f
<1>. QED BY <1>5, <1>6

\* Each trigger gets one, and no two the same.
LEMMA TmNamesDiffer ==
  ASSUME NEW occupied, IsFiniteSet(occupied), NEW slug \in STRING,
         NEW requested \in Seq(Seq(TmPiece))
  PROVE  LET names == Tm!Named(occupied, slug, requested) IN
         /\ names \in Seq(Seq(TmPiece)) /\ Len(names) = Len(requested)
         /\ \A i \in 1..Len(requested) : names[i] \notin occupied
         /\ \A i, j \in 1..Len(requested) : names[i] = names[j] => i = j
<1>0. Len(requested) \in Nat
  BY LenProperties
<1>1. PICK f : /\ TmGives(f, Len(requested), occupied, slug, requested)
               /\ Tm!Named(occupied, slug, requested) = f[Len(requested)]
  BY <1>0, TmNamesAreGiven
<1>. DEFINE Good(n) ==
       /\ f[n] \in Seq(Seq(TmPiece)) /\ Len(f[n]) = n
       /\ \A i \in 1..n : f[n][i] \notin occupied
       /\ \A i, j \in 1..n : f[n][i] = f[n][j] => i = j
     T == {n \in Nat : n <= Len(requested) => Good(n)}
<1>2. 0 \in T
  <2>1. f[0] = <<>>
    BY <1>0, <1>1 DEF TmGives
  <2>2. f[0] \in Seq(Seq(TmPiece)) /\ Len(f[0]) = 0
    BY <2>1, EmptySeq
  <2>3. \A i \in 1..0 : FALSE
    OBVIOUS
  <2>4. Good(0)
    BY <2>2, <2>3
  <2>. HIDE DEF Good
  <2>. QED BY <2>4
<1>3. ASSUME NEW n \in T PROVE n + 1 \in T
  <2>. HIDE DEF Good
  <2>0. n \in Nat /\ n + 1 \in Nat /\ (n <= Len(requested) => Good(n))
    OBVIOUS
  <2>1. SUFFICES ASSUME n + 1 <= Len(requested) PROVE Good(n + 1)
    BY <2>0
  <2>20. Good(n)
    BY <1>0, <2>0, <2>1
  <2>. USE DEF Good
  <2>2. n \in Nat /\ Good(n)
    BY <2>0, <2>20
  <2>. DEFINE taken == occupied \cup Tm!Elements(f[n])
              name == Tm!AvailableMigratedTriggerName(taken, slug, requested[n + 1])
  <2>3. f[n + 1] = Append(f[n], name)
    <3>1. n + 1 \in 0..Len(requested) /\ n + 1 # 0 /\ (n + 1) - 1 = n
      BY <1>0, <2>1, <2>2
    <3>2. \A i \in 0..Len(requested) : f[i] = IF i = 0 THEN <<>>
            ELSE Append(f[i - 1], Tm!AvailableMigratedTriggerName(occupied \cup Tm!Elements(f[i - 1]),
                                                               slug, requested[i]))
      BY <1>1 DEF TmGives
    <3>. QED BY <3>1, <3>2
  <2>4. DOMAIN f[n] = 1..n
    BY <2>2, LenProperties
  <2>5. IsFiniteSet(taken)
    <3>. DEFINE g == [i \in 1..n |-> f[n][i]]
    <3>1. g \in Surjection(1..n, Tm!Elements(f[n]))
      BY <2>4 DEF Tm!Elements, Surjection
    <3>2. IsFiniteSet(1..n)
      BY <2>2, FS_Interval
    <3>. HIDE DEF g
    <3>3. IsFiniteSet(Tm!Elements(f[n]))
      BY <3>1, <3>2, FS_Surjection
    <3>. QED BY <3>3, FS_Union
  <2>6. requested[n + 1] \in Seq(TmPiece)
    BY <1>0, <2>1, <2>2, ElementOfSeq
  <2>. HIDE DEF taken
  <2>7. name \in Seq(TmPiece) /\ name \notin taken
    BY <2>5, <2>6, TmAvailable
  <2>. HIDE DEF name
  <2>8. name \notin occupied /\ \A i \in 1..n : f[n][i] # name
    BY <2>4, <2>7 DEF taken, Tm!Elements
  <2>9. /\ f[n + 1] \in Seq(Seq(TmPiece)) /\ Len(f[n + 1]) = n + 1
        /\ \A i \in 1..n : f[n + 1][i] = f[n][i]
        /\ f[n + 1][n + 1] = name
    BY <2>2, <2>3, <2>7
  <2>10. \A i \in 1..(n + 1) : i \in 1..n \/ i = n + 1
    BY <2>2
  <2>. QED BY <2>2, <2>8, <2>9, <2>10
<1>4. T = Nat
  <2>1. T \in SUBSET Nat
    OBVIOUS
  <2>. HIDE DEF T
  <2>. QED BY <1>2, <1>3, <2>1, Induction
<1>5. Good(Len(requested))
  BY <1>0, <1>4
<1>. QED BY <1>1, <1>5

-----------------------------------------------------------------------------
(* What is deployed, and what is taken *)

LEMMA TmContentsName ==
  ASSUME Tm!MigrationAssumption, NEW c \in tmContents
  PROVE  /\ c \in Seq(tmNames) /\ Len(c) \in Nat /\ DOMAIN c = 1..Len(c)
         /\ Tm!Elements(c) \subseteq tmNames
<1>1. c \in Seq(tmNames)
  BY DEF Tm!MigrationAssumption
<1>2. Len(c) \in Nat /\ DOMAIN c = 1..Len(c)
  BY <1>1, LenProperties
<1>3. \A i \in 1..Len(c) : c[i] \in tmNames
  BY <1>1, ElementOfSeq
<1>. QED BY <1>1, <1>2, <1>3 DEF Tm!Elements

LEMMA TmLastRevision ==
  ASSUME Tm!MigrationAssumption, TmFormInv, NEW p \in Tm!Projects
  PROVE  /\ tmRevisions[p] \in Seq(tmContents) /\ Len(tmRevisions[p]) \in Nat \ {0}
         /\ tmRevisions[p][Len(tmRevisions[p])] \in tmContents
         /\ Tm!Deployed(p) \subseteq tmNames
<1>1. tmRevisions[p] \in Seq(tmContents) /\ tmRevisions[p] # <<>>
  BY DEF TmFormInv
<1>2. Len(tmRevisions[p]) \in Nat \ {0}
  BY <1>1, EmptySeq
<1>3. tmRevisions[p][Len(tmRevisions[p])] \in tmContents
  BY <1>1, <1>2, ElementOfSeq
<1>. QED BY <1>1, <1>2, <1>3, TmContentsName DEF Tm!Deployed

LEMMA TmTakenIsFinite ==
  ASSUME TmFormInv
  PROVE  IsFiniteSet(Tm!Taken) /\ Tm!Taken \subseteq Seq(TmPiece)
<1>. DEFINE f == [t \in tmTriggers |-> t.name]
<1>1. f \in Surjection(tmTriggers, Tm!Taken)
  BY DEF Tm!Taken, Surjection
<1>2. IsFiniteSet(tmTriggers)
  BY DEF TmFormInv
<1>. HIDE DEF f
<1>3. IsFiniteSet(Tm!Taken)
  BY <1>1, <1>2, FS_Surjection
<1>. QED BY <1>3 DEF TmFormInv, Tm!Taken, TmTrigger

LEMMA TmInitially ==
  ASSUME Tm!MigrationAssumption, Tm!Init
  PROVE  TmIInv
<1>1. \A p \in Tm!Projects : \E c \in tmContents : tmRevisions[p] = <<c>>
  BY DEF Tm!Init
<1>2. \A c \in tmContents : <<c>> \in Seq(tmContents) /\ <<c>> # <<>> /\ Len(<<c>>) = 1 /\ <<c>>[1] = c
  <2>1. TAKE c \in tmContents
  <2>2. <<c>> \in Seq(tmContents)
    BY TmPieces
  <2>. QED BY <2>2
<1>3. /\ tmRevisions \in [Tm!Projects -> Seq(tmContents)]
      /\ \A p \in Tm!Projects : /\ tmRevisions[p] # <<>> /\ Len(tmRevisions[p]) = 1
                             /\ tmRevisions[p][1] \in tmContents
  BY <1>1, <1>2 DEF Tm!Init
<1>4. tmProjectRoutes \in [Tm!Projects -> SUBSET tmNames]
  BY <1>3, TmContentsName DEF Tm!Init
<1>5. IsFiniteSet(tmTriggers) /\ tmTriggers = {}
  BY FS_EmptySet DEF Tm!Init
<1>6. tmStarts \in [tmHubs -> TmHub] /\ \A h \in tmHubs : tmStarts[h] = Tm!Down
  BY DEF Tm!Init, Tm!Down, TmHub
<1>7. TmFormInv
  BY <1>3, <1>4, <1>5, <1>6 DEF Tm!Init, TmFormInv, Tm!MigrationAssumption
<1>8. TmServedInv
  BY <1>3, <1>5 DEF Tm!Init, TmServedInv, TmByProject, TmByTriggers, Tm!Deployed
<1>9. TmHubsInv /\ TmAloneInv
  BY <1>6 DEF Tm!Init, TmHubsInv, TmAloneInv, TmTodoOf, Tm!Down
<1>. QED BY <1>7, <1>8, <1>9 DEF TmIInv

-----------------------------------------------------------------------------
(* The steps of a hub *)

LEMMA TmFirstTodo ==
  ASSUME Tm!MigrationAssumption, NEW hub \in TmHub, hub.todo # {}
  PROVE  /\ Tm!First(hub.todo) \in hub.todo /\ Tm!First(hub.todo) \in TmItem
         /\ Tm!First(hub.todo).project \in Tm!Projects
         /\ \A x \in hub.todo : Tm!Place(Tm!First(hub.todo).project) <= Tm!Place(x.project)
<1>1. \A x \in hub.todo : x \in TmItem /\ x.project \in Tm!Projects
  BY DEF TmHub, TmItem
<1>2. hub.todo # {}
  OBVIOUS
<1>. QED BY <1>1, <1>2, TmFirstIs

\* A step that changes nothing but the hub itself.
LEMMA TmHubKeeps ==
  ASSUME Tm!MigrationAssumption, TmIInv, NEW h \in tmHubs, NEW hub \in TmHub,
         UNCHANGED <<tmRevisions, tmActive, tmProjectRoutes, tmMigrations, tmTriggers, tmWrites>>,
         tmCrashes' \in 0..tmMaxCrashes, tmStarts' = [tmStarts EXCEPT ![h] = hub],
         TmTodoOf(hub),
         hub.at = "begun" => TmBegunOf(hub) /\ \A g \in tmHubs : tmStarts[g].at = "begun" => g = h
  PROVE  TmIInv'
<1>1. /\ tmStarts' \in [tmHubs -> TmHub] /\ tmStarts'[h] = hub
      /\ \A g \in tmHubs : g # h => tmStarts'[g] = tmStarts[g]
  BY DEF TmIInv, TmFormInv
<1>2. TmFormInv'
  BY <1>1 DEF TmIInv, TmFormInv
<1>3. TmServedInv'
  <2>1. \A p : Tm!Deployed(p)' = Tm!Deployed(p)
    BY DEF Tm!Deployed
  <2>2. UNCHANGED <<tmRevisions, tmActive, tmProjectRoutes, tmMigrations, tmTriggers>>
    OBVIOUS
  <2>. QED BY <2>1, <2>2 DEF TmIInv, TmServedInv, TmByProject, TmByTriggers
<1>4. \A x : TmTodoOf(x)' <=> TmTodoOf(x)
  BY DEF TmTodoOf
<1>5. \A x : TmBegunOf(x)' <=> TmBegunOf(x)
  BY DEF TmBegunOf, Tm!Taken
<1>6. \A g \in tmHubs : TmTodoOf(tmStarts'[g]) /\ (tmStarts'[g].at = "begun" => TmBegunOf(tmStarts'[g]))
  BY <1>1 DEF TmIInv, TmHubsInv
<1>7. TmHubsInv'
  BY <1>1, <1>6 DEF TmHubsInv, TmTodoOf, TmBegunOf, Tm!Taken
<1>8. TmAloneInv'
  BY <1>1 DEF TmIInv, TmAloneInv
<1>. QED BY <1>2, <1>3, <1>7, <1>8 DEF TmIInv

LEMMA TmListKeeps ==
  ASSUME Tm!MigrationAssumption, TmIInv, NEW h \in tmHubs, Tm!List(h)
  PROVE  TmIInv'
<1>. DEFINE pending == {p \in Tm!Projects : Tm!Pending(p)}
            todo == {[project |-> p, revision |-> tmActive[p]] : p \in pending}
            hub == [at |-> IF pending = {} THEN "up" ELSE "listed", todo |-> todo,
                    occupied |-> {}, since |-> tmWrites]
<1>1. todo \subseteq TmItem
  BY DEF Tm!Pending, TmItem, TmIInv, TmFormInv
<1>2. tmWrites \in Nat
  BY DEF TmIInv, TmFormInv, Tm!MigrationAssumption
<1>3. hub \in TmHub
  BY <1>1, <1>2 DEF TmHub
<1>4. \A p \in Tm!Projects \ tmMigrations : p \in pending
  <2>1. TAKE p \in Tm!Projects \ tmMigrations
  <2>2. tmActive[p] = Len(tmRevisions[p]) /\ Len(tmRevisions[p]) \in Nat \ {0}
    BY TmLastRevision DEF TmIInv, TmServedInv, TmByProject, TmByTriggers
  <2>. QED BY <2>2 DEF Tm!Pending
<1>5. TmTodoOf(hub)
  <2>1. \A p \in Tm!Projects \ tmMigrations : \E it \in todo : it.project = p
    <3>1. \A p \in pending : [project |-> p, revision |-> tmActive[p]] \in todo
      OBVIOUS
    <3>2. \A p : [project |-> p, revision |-> tmActive[p]].project = p
      OBVIOUS
    <3>. HIDE DEF todo, pending
    <3>. QED BY <1>4, <3>1, <3>2
  <2>2. pending # {} => todo # {}
    OBVIOUS
  <2>3. \A it \in todo : tmActive[it.project] = it.revision
    OBVIOUS
  <2>. QED BY <1>2, <2>1, <2>2, <2>3 DEF TmTodoOf
<1>6. tmStarts' = [tmStarts EXCEPT ![h] = hub]
  BY DEF Tm!List
<1>7. /\ UNCHANGED <<tmRevisions, tmActive, tmProjectRoutes, tmMigrations, tmTriggers, tmWrites>>
      /\ tmCrashes' \in 0..tmMaxCrashes
  BY DEF Tm!List, TmIInv, TmFormInv
<1>8. hub.at # "begun"
  OBVIOUS
<1>. HIDE DEF hub
<1>. QED BY <1>3, <1>5, <1>6, <1>7, <1>8, TmHubKeeps

\* What is left of the list after a project that is migrated.
LEMMA TmPassedHub ==
  ASSUME Tm!MigrationAssumption, NEW hub \in TmHub, hub.todo # {}
  PROVE  /\ Tm!Passed(hub) \in TmHub /\ Tm!Passed(hub).since = hub.since
         /\ Tm!Passed(hub).at \in {"up", "listed"}
         /\ Tm!Passed(hub).at = "listed" => Tm!Passed(hub).todo # {}
         /\ Tm!Passed(hub).todo = hub.todo \ {Tm!First(hub.todo)}
BY DEF Tm!Passed, TmHub

LEMMA TmFailedHub ==
  ASSUME NEW hub \in TmHub
  PROVE  /\ Tm!Failed(hub) \in TmHub /\ Tm!Failed(hub).since = hub.since
         /\ Tm!Failed(hub).at = "failed"
BY DEF Tm!Failed, TmHub

\* Two hubs that begin at once would begin with the same project.
LEMMA TmBeginsAlone ==
  ASSUME Tm!MigrationAssumption, TmIInv, NEW h \in tmHubs, tmStarts[h].at = "listed",
         ~Tm!Locked(Tm!First(tmStarts[h].todo).project), Tm!First(tmStarts[h].todo).project \notin tmMigrations,
         NEW g \in tmHubs, tmStarts[g].at = "begun"
  PROVE  FALSE
<1>. DEFINE p == Tm!First(tmStarts[h].todo).project  q == Tm!First(tmStarts[g].todo).project
<1>1. /\ tmStarts[h] \in TmHub /\ tmStarts[g] \in TmHub /\ tmStarts[h].todo # {}
      /\ tmStarts[g].todo # {}
  BY DEF TmIInv, TmFormInv, TmHubsInv, TmTodoOf
<1>2. p \in Tm!Projects /\ q \in Tm!Projects /\ p \notin tmMigrations /\ q \notin tmMigrations
  BY <1>1, TmFirstTodo DEF TmIInv, TmHubsInv, TmBegunOf
<1>3. /\ \E x \in tmStarts[h].todo : x.project = q
      /\ \E x \in tmStarts[g].todo : x.project = p
  BY <1>2 DEF TmIInv, TmHubsInv, TmTodoOf
<1>4. Tm!Place(p) <= Tm!Place(q) /\ Tm!Place(q) <= Tm!Place(p)
  BY <1>1, <1>3, TmFirstTodo
<1>5. p = q
  BY <1>2, <1>4, TmPlacesDiffer
<1>. QED BY <1>5 DEF Tm!Locked

LEMMA TmBeginKeeps ==
  ASSUME Tm!MigrationAssumption, TmIInv, NEW h \in tmHubs, Tm!Begin(h)
  PROVE  TmIInv'
<1>. DEFINE item == Tm!First(tmStarts[h].todo)
            begun == [tmStarts[h] EXCEPT !.at = "begun", !.occupied = Tm!Taken]
            hub == IF Tm!AlreadyMigrated(item.project) THEN Tm!Passed(tmStarts[h])
                   ELSE IF ~Tm!Unchanged(item) THEN Tm!Failed(tmStarts[h])
                   ELSE begun
<1>1. /\ tmStarts[h] \in TmHub /\ TmTodoOf(tmStarts[h]) /\ tmStarts[h].at = "listed"
      /\ tmStarts[h].todo # {}
  BY DEF TmIInv, TmFormInv, TmHubsInv, Tm!Begin, TmTodoOf
<1>2. item \in tmStarts[h].todo /\ item.project \in Tm!Projects
  BY <1>1, TmFirstTodo
<1>3. tmStarts' = [tmStarts EXCEPT ![h] = hub]
  BY DEF Tm!Begin, TmIInv, TmFormInv
<1>4. /\ UNCHANGED <<tmRevisions, tmActive, tmProjectRoutes, tmMigrations, tmTriggers, tmWrites>>
      /\ tmCrashes' \in 0..tmMaxCrashes
  BY DEF Tm!Begin, TmIInv, TmFormInv
<1>5. CASE Tm!AlreadyMigrated(item.project)
  <2>1. hub = Tm!Passed(tmStarts[h])
    BY <1>5
  <2>2. item.project \in tmMigrations
    BY <1>5 DEF Tm!AlreadyMigrated
  <2>3. TmTodoOf(Tm!Passed(tmStarts[h]))
    BY <1>1, <2>2, TmPassedHub DEF TmTodoOf
  <2>. QED BY <1>1, <1>3, <1>4, <2>1, <2>3, TmPassedHub, TmHubKeeps
<1>6. CASE ~Tm!AlreadyMigrated(item.project) /\ ~Tm!Unchanged(item)
  <2>1. hub = Tm!Failed(tmStarts[h])
    BY <1>6
  <2>2. tmStarts[h].since < tmWrites
    BY <1>1, <1>2, <1>6 DEF TmTodoOf, Tm!AlreadyMigrated, Tm!Unchanged
  <2>3. TmTodoOf(Tm!Failed(tmStarts[h]))
    BY <1>1, <2>2, TmFailedHub DEF TmTodoOf
  <2>. QED BY <1>1, <1>3, <1>4, <2>1, <2>3, TmFailedHub, TmHubKeeps
<1>7. CASE ~Tm!AlreadyMigrated(item.project) /\ Tm!Unchanged(item)
  <2>1. hub = begun
    BY <1>7
  <2>2. /\ begun \in TmHub /\ begun.at = "begun" /\ begun.todo = tmStarts[h].todo
        /\ begun.occupied = Tm!Taken /\ begun.since = tmStarts[h].since
    BY <1>1, TmTakenIsFinite DEF TmHub, TmIInv
  <2>. HIDE DEF begun
  <2>3. TmTodoOf(begun)
    BY <1>1, <2>2 DEF TmTodoOf
  <2>4. IsFiniteSet(Tm!Taken)
    BY TmTakenIsFinite DEF TmIInv
  <2>5. TmBegunOf(begun)
    BY <1>7, <2>2, <2>4 DEF TmBegunOf, Tm!AlreadyMigrated, Tm!Unchanged
  <2>6. \A g \in tmHubs : tmStarts[g].at = "begun" => g = h
    BY <1>1, <1>7, TmBeginsAlone DEF Tm!Begin, Tm!AlreadyMigrated
  <2>. QED BY <1>3, <1>4, <2>1, <2>2, <2>3, <2>5, <2>6, TmHubKeeps
<1>. QED BY <1>5, <1>6, <1>7

LEMMA TmRestartKeeps ==
  ASSUME Tm!MigrationAssumption, TmIInv, NEW h \in tmHubs, Tm!Crash(h) \/ Tm!Restart(h)
  PROVE  TmIInv'
<1>1. tmWrites \in Nat /\ tmCrashes \in 0..tmMaxCrashes /\ tmMaxCrashes \in Nat
  BY DEF TmIInv, TmFormInv, Tm!MigrationAssumption
<1>2. /\ UNCHANGED <<tmRevisions, tmActive, tmProjectRoutes, tmMigrations, tmTriggers, tmWrites>>
      /\ tmCrashes' \in 0..tmMaxCrashes /\ tmStarts' = [tmStarts EXCEPT ![h] = Tm!Down]
  BY <1>1 DEF Tm!Crash, Tm!Restart
<1>3. Tm!Down \in TmHub /\ TmTodoOf(Tm!Down) /\ Tm!Down.at # "begun"
  BY <1>1 DEF Tm!Down, TmHub, TmTodoOf
<1>. QED BY <1>2, <1>3, TmHubKeeps

-----------------------------------------------------------------------------
(* A project is migrated *)

\* What a transaction is about, and what it names it.
LEMMA TmBegun ==
  ASSUME Tm!MigrationAssumption, TmIInv, NEW h \in tmHubs, tmStarts[h].at = "begun"
  PROVE  LET item == Tm!First(tmStarts[h].todo)
             p == item.project
             c == tmRevisions[p][item.revision]
             names == Tm!Named(tmStarts[h].occupied, p, c)
         IN /\ tmStarts[h] \in TmHub /\ tmStarts[h].todo # {}
            /\ p \in Tm!Projects \ tmMigrations /\ c \in tmContents
            /\ Tm!Deployed(p) = Tm!Elements(c)
            /\ names \in Seq(Seq(TmPiece)) /\ DOMAIN names = 1..Len(c)
            /\ \A i \in 1..Len(c) : names[i] \notin tmStarts[h].occupied
            /\ \A i, j \in 1..Len(c) : names[i] = names[j] => i = j
<1>. DEFINE item == Tm!First(tmStarts[h].todo)
            p == item.project
            c == tmRevisions[p][item.revision]
            names == Tm!Named(tmStarts[h].occupied, p, c)
<1>1. tmStarts[h] \in TmHub /\ tmStarts[h].todo # {}
  BY DEF TmIInv, TmFormInv, TmHubsInv, TmTodoOf
<1>2. p \in Tm!Projects
  BY <1>1, TmFirstTodo
<1>3. p \notin tmMigrations /\ tmActive[p] = item.revision /\ IsFiniteSet(tmStarts[h].occupied)
  BY DEF TmIInv, TmHubsInv, TmBegunOf
<1>4. item.revision = Len(tmRevisions[p])
  BY <1>2, <1>3 DEF TmIInv, TmServedInv, TmByProject, TmByTriggers
<1>5. c \in tmContents /\ Tm!Deployed(p) = Tm!Elements(c)
  BY <1>2, <1>4, TmLastRevision DEF TmIInv, Tm!Deployed
<1>6. p \in STRING
  <2>1. tmOrder \in Seq(STRING)
    BY DEF Tm!MigrationAssumption
  <2>2. DOMAIN tmOrder = 1..Len(tmOrder) /\ \A i \in 1..Len(tmOrder) : tmOrder[i] \in STRING
    BY <2>1, LenProperties, ElementOfSeq
  <2>. QED BY <1>2, <2>2 DEF Tm!Projects
<1>7. c \in Seq(Seq(TmPiece)) /\ Len(c) \in Nat
  <2>1. STRING \subseteq TmPiece
    BY DEF TmPiece
  <2>2. \A s \in Seq(STRING) : s \in Seq(TmPiece)
    BY <2>1, SeqMonotonic
  <2>3. tmNames \subseteq Seq(TmPiece)
    BY <2>2 DEF Tm!MigrationAssumption
  <2>4. c \in Seq(tmNames) /\ Len(c) \in Nat
    BY <1>5, TmContentsName
  <2>. QED BY <2>3, <2>4, SeqMonotonic
<1>. HIDE DEF item, p, c
<1>8. /\ names \in Seq(Seq(TmPiece)) /\ Len(names) = Len(c)
      /\ \A i \in 1..Len(c) : names[i] \notin tmStarts[h].occupied
      /\ \A i, j \in 1..Len(c) : names[i] = names[j] => i = j
  BY <1>3, <1>6, <1>7, TmNamesDiffer
<1>9. DOMAIN names = 1..Len(c)
  BY <1>8, LenProperties
<1>. QED BY <1>1, <1>2, <1>3, <1>5, <1>8, <1>9 DEF item, p, c

\* The transaction goes through.
TmMigrates(h, p, c, names) ==
  /\ tmTriggers' = tmTriggers \cup
       {[id |-> Tm!NextId + i, name |-> names[i], from |-> <<p, c[i]>>,
         routed |-> c[i] \in tmProjectRoutes[p]] : i \in 1..Len(c)}
  /\ tmMigrations' = tmMigrations \cup {p}
  /\ tmProjectRoutes' = [tmProjectRoutes EXCEPT ![p] = {}]
  /\ tmActive' = [tmActive EXCEPT ![p] = 0]
  /\ tmStarts' = [tmStarts EXCEPT ![h] = Tm!Passed(tmStarts[h])]
  /\ UNCHANGED <<tmRevisions, tmWrites, tmCrashes>>

LEMMA TmMigratedTriggers ==
  ASSUME Tm!MigrationAssumption, TmIInv, NEW h \in tmHubs, NEW p \in Tm!Projects \ tmMigrations,
         NEW c \in tmContents, Tm!Deployed(p) = Tm!Elements(c), NEW names \in Seq(Seq(TmPiece)),
         DOMAIN names = 1..Len(c), \A i \in 1..Len(c) : names[i] \notin Tm!Taken,
         \A i, j \in 1..Len(c) : names[i] = names[j] => i = j,
         TmMigrates(h, p, c, names)
  PROVE  /\ IsFiniteSet(tmTriggers') /\ tmTriggers' \subseteq TmTrigger
         /\ \A t \in tmTriggers' : t.id \in 1..Cardinality(tmTriggers')
         /\ \A t, u \in tmTriggers' : t.id = u.id \/ t.name = u.name => t = u
         /\ TmServedInv'
<1>. DEFINE K == Cardinality(tmTriggers)
            new(i) == [id |-> K + i, name |-> names[i], from |-> <<p, c[i]>>,
                       routed |-> c[i] \in tmProjectRoutes[p]]
            created == {new(i) : i \in 1..Len(c)}
<1>1. /\ IsFiniteSet(tmTriggers) /\ K \in Nat /\ tmTriggers \subseteq TmTrigger
      /\ \A t \in tmTriggers : t.id \in 1..K
      /\ \A t, u \in tmTriggers : t.id = u.id \/ t.name = u.name => t = u
  BY FS_CardinalityType DEF TmIInv, TmFormInv
<1>2. tmTriggers' = tmTriggers \cup created
  BY TmCounts DEF TmMigrates, Tm!NextId
<1>3. /\ Len(c) \in Nat /\ \A i \in 1..Len(c) : c[i] \in tmNames
      /\ \A i, j \in 1..Len(c) : c[i] = c[j] => i = j
  <2>1. c \in Seq(tmNames) /\ Len(c) \in Nat /\ DOMAIN c = 1..Len(c)
    BY TmContentsName
  <2>2. \A i \in 1..Len(c) : c[i] \in tmNames
    BY <2>1, ElementOfSeq
  <2>. QED BY <2>1, <2>2 DEF Tm!MigrationAssumption
<1>4. \A i \in 1..Len(c) : names[i] \in Seq(TmPiece)
  BY LenProperties
<1>5. \A i : /\ new(i).id = K + i /\ new(i).name = names[i] /\ new(i).from = <<p, c[i]>>
             /\ new(i).routed \in BOOLEAN
  OBVIOUS
<1>6. created \subseteq TmTrigger
  <2>1. SUFFICES ASSUME NEW i \in 1..Len(c) PROVE new(i) \in TmTrigger
    OBVIOUS
  <2>2. K + i \in Nat
    BY <1>1, <1>3
  <2>3. <<p, c[i]>> \in Tm!Projects \X tmNames
    BY <1>3
  <2>4. names[i] \in Seq(TmPiece) /\ (c[i] \in tmProjectRoutes[p]) \in BOOLEAN
    BY <1>4
  <2>. HIDE DEF K
  <2>. QED BY <2>2, <2>3, <2>4 DEF TmTrigger
<1>. HIDE DEF K, new
<1>7. \A i, j \in 1..Len(c) : new(i) = new(j) => i = j
  <2>1. TAKE i, j \in 1..Len(c)
  <2>2. new(i) = new(j) => names[i] = names[j]
    BY <1>5
  <2>. QED BY <2>2
<1>8. IsFiniteSet(created) /\ Cardinality(created) = Len(c)
  <2>. DEFINE f == [i \in 1..Len(c) |-> new(i)]
  <2>1. f \in Bijection(1..Len(c), created)
    <3>1. f \in [1..Len(c) -> created] /\ \A t \in created : \E i \in 1..Len(c) : f[i] = t
      OBVIOUS
    <3>2. \A i, j \in 1..Len(c) : f[i] = f[j] => i = j
      BY <1>7
    <3>. HIDE DEF f, created
    <3>3. f \in Injection(1..Len(c), created)
      BY <3>1, <3>2 DEF Injection, IsInjective
    <3>4. f \in Surjection(1..Len(c), created)
      BY <3>1 DEF Surjection
    <3>. QED BY <3>3, <3>4 DEF Bijection
  <2>2. IsFiniteSet(1..Len(c)) /\ Cardinality(1..Len(c)) = Len(c)
    <3>1. ASSUME NEW n \in Nat PROVE IsFiniteSet(1..n) /\ Cardinality(1..n) = n
      BY FS_Interval
    <3>. QED BY <1>3, <3>1
  <2>3. ExistsBijection(1..Len(c), created)
    BY <2>1 DEF ExistsBijection
  <2>. HIDE DEF created
  <2>. QED BY <2>2, <2>3, FS_Bijection
<1>9. \A t \in created : \E i \in 1..Len(c) : t = new(i)
  OBVIOUS
<1>10. \A i \in 1..Len(c) : new(i) \in created
  OBVIOUS
<1>. HIDE DEF created
<1>11. tmTriggers \cap created = {}
  <2>1. SUFFICES ASSUME NEW t \in tmTriggers, t \in created PROVE FALSE
    OBVIOUS
  <2>2. PICK i \in 1..Len(c) : t = new(i)
    BY <1>9, <2>1
  <2>3. t.id = K + i /\ t.id \in 1..K
    BY <1>1, <1>5, <2>2
  <2>. QED BY <1>1, <1>3, <2>3
<1>12. IsFiniteSet(tmTriggers') /\ Cardinality(tmTriggers') = K + Len(c)
  <2>1. Cardinality({}) = 0
    BY FS_EmptySet
  <2>2. /\ IsFiniteSet(tmTriggers \cup created)
        /\ Cardinality(tmTriggers \cup created) =
             Cardinality(tmTriggers) + Cardinality(created) - Cardinality(tmTriggers \cap created)
    BY <1>1, <1>8, FS_Union
  <2>3. Cardinality(tmTriggers \cup created) = K + Len(c) - 0
    BY <1>8, <1>11, <2>1, <2>2 DEF K
  <2>4. K + Len(c) - 0 = K + Len(c)
    BY <1>1, <1>3
  <2>. QED BY <1>2, <2>2, <2>3, <2>4
<1>13. \A t \in tmTriggers' : t.id \in 1..Cardinality(tmTriggers')
  <2>1. TAKE t \in tmTriggers'
  <2>2. CASE t \in tmTriggers
    BY <1>1, <1>3, <1>12, <2>2
  <2>3. CASE t \in created
    <3>1. PICK i \in 1..Len(c) : t = new(i)
      BY <1>9, <2>3
    <3>2. t.id = K + i
      BY <1>5, <3>1
    <3>. QED BY <1>1, <1>3, <1>12, <3>2
  <2>. QED BY <1>2, <2>2, <2>3
<1>14. \A t, u \in tmTriggers' : t.id = u.id \/ t.name = u.name => t = u
  <2>1. ASSUME NEW t \in tmTriggers, NEW u \in created PROVE t.id # u.id /\ t.name # u.name
    <3>1. PICK i \in 1..Len(c) : u = new(i)
      BY <1>9
    <3>2. u.id = K + i /\ u.name = names[i]
      BY <1>5, <3>1
    <3>3. t.name \in Tm!Taken
      BY DEF Tm!Taken
    <3>. QED BY <1>1, <1>3, <3>2, <3>3
  <2>2. ASSUME NEW t \in created, NEW u \in created, t.id = u.id \/ t.name = u.name PROVE t = u
    <3>1. PICK i \in 1..Len(c) : t = new(i)
      BY <1>9
    <3>2. PICK j \in 1..Len(c) : u = new(j)
      BY <1>9
    <3>3. K + i = K + j \/ names[i] = names[j]
      BY <1>5, <2>2, <3>1, <3>2
    <3>4. i = j
      BY <1>1, <1>3, <3>3
    <3>. QED BY <3>1, <3>2, <3>4
  <2>. QED BY <1>1, <1>2, <2>1, <2>2
<1>15. TmServedInv'
  <2>1. \A q : Tm!Deployed(q)' = Tm!Deployed(q)
    BY DEF Tm!Deployed, TmMigrates
  <2>2. \A q \in Tm!Projects \ {p} : /\ tmActive'[q] = tmActive[q] /\ tmProjectRoutes'[q] = tmProjectRoutes[q]
                                  /\ (q \in tmMigrations' <=> q \in tmMigrations)
    BY DEF TmIInv, TmFormInv, TmMigrates
  <2>3. p \in tmMigrations' /\ tmActive'[p] = 0 /\ tmProjectRoutes'[p] = {}
    BY DEF TmIInv, TmFormInv, TmMigrates
  <2>4. \A t \in created : \E i \in 1..Len(c) : t.from = <<p, c[i]>>
    BY <1>5, <1>9
  <2>5. \A q \in Tm!Projects \ {p}, n \in tmNames, t \in tmTriggers' : t.from = <<q, n>> => t \in tmTriggers
    BY <1>2, <2>4
  <2>6. \A t \in tmTriggers, n \in tmNames : t.from # <<p, n>>
    BY DEF TmIInv, TmServedInv, TmByProject, TmByTriggers
  <2>7. \A n \in Tm!Deployed(p) : \E t \in tmTriggers' : t.from = <<p, n>>
    <3>1. TAKE n \in Tm!Deployed(p)
    <3>2. PICK i \in 1..Len(c) : n = c[i]
      BY <3>1, TmContentsName DEF Tm!Elements
    <3>. QED BY <1>2, <1>5, <1>10, <3>2
  <2>8. ASSUME NEW n \in tmNames, NEW t \in tmTriggers', NEW u \in tmTriggers', t.from = <<p, n>>
        PROVE  n \in Tm!Deployed(p) /\ (u.from = <<p, n>> => t = u)
    <3>1. \A x \in tmTriggers' : x.from = <<p, n>> => x \in created
      BY <1>2, <2>6
    <3>2. PICK i \in 1..Len(c) : t = new(i)
      BY <1>9, <2>8, <3>1
    <3>3. c[i] = n
      BY <1>5, <2>8, <3>2
    <3>4. n \in Tm!Deployed(p)
      BY <3>3, TmContentsName DEF Tm!Elements
    <3>5. ASSUME u.from = <<p, n>> PROVE t = u
      <4>1. PICK j \in 1..Len(c) : u = new(j)
        BY <1>9, <3>1, <3>5
      <4>2. c[j] = n
        BY <1>5, <3>5, <4>1
      <4>. QED BY <1>3, <3>2, <3>3, <4>1, <4>2
    <3>. QED BY <3>4, <3>5
  <2>9. TmByTriggers(p)'
    BY <2>1, <2>3, <2>7, <2>8 DEF TmByTriggers
  <2>10. ASSUME NEW q \in Tm!Projects \ {p}, q \notin tmMigrations PROVE TmByProject(q)'
    <3>1. TmByProject(q) /\ tmRevisions' = tmRevisions
      BY <2>10 DEF TmIInv, TmServedInv, TmMigrates
    <3>2. \A t \in tmTriggers', n \in tmNames : t.from # <<q, n>>
      BY <2>5, <3>1 DEF TmByProject
    <3>. QED BY <2>1, <2>2, <3>1, <3>2 DEF TmByProject
  <2>11. ASSUME NEW q \in Tm!Projects \ {p}, q \in tmMigrations PROVE TmByTriggers(q)'
    <3>1. TmByTriggers(q)
      BY <2>11 DEF TmIInv, TmServedInv
    <3>2. \A n \in Tm!Deployed(q) : \E t \in tmTriggers' : t.from = <<q, n>>
      BY <1>2, <3>1 DEF TmByTriggers
    <3>3. ASSUME NEW n \in tmNames, NEW t \in tmTriggers', NEW u \in tmTriggers', t.from = <<q, n>>
          PROVE  n \in Tm!Deployed(q) /\ (u.from = <<q, n>> => t = u)
      BY <2>5, <3>1, <3>3 DEF TmByTriggers
    <3>4. tmActive'[q] = 0 /\ tmProjectRoutes'[q] = {}
      BY <2>2, <3>1 DEF TmByTriggers
    <3>. QED BY <2>1, <3>2, <3>3, <3>4 DEF TmByTriggers
  <2>12. \A q \in Tm!Projects \ {p} : q \in tmMigrations' <=> q \in tmMigrations
    BY <2>2
  <2>. QED BY <2>3, <2>9, <2>10, <2>11, <2>12 DEF TmServedInv
<1>. QED BY <1>1, <1>2, <1>6, <1>12, <1>13, <1>14, <1>15

LEMMA TmCommitKeeps ==
  ASSUME Tm!MigrationAssumption, TmIInv, NEW h \in tmHubs, Tm!Commit(h)
  PROVE  TmIInv'
<1>. DEFINE item == Tm!First(tmStarts[h].todo)
            p == item.project
            c == tmRevisions[p][item.revision]
            names == Tm!Named(tmStarts[h].occupied, p, c)
<1>1. /\ tmStarts[h].at = "begun" /\ tmStarts[h] \in TmHub /\ tmStarts[h].todo # {}
      /\ p \in Tm!Projects \ tmMigrations /\ c \in tmContents /\ Tm!Deployed(p) = Tm!Elements(c)
      /\ names \in Seq(Seq(TmPiece)) /\ DOMAIN names = 1..Len(c)
      /\ \A i \in 1..Len(c) : names[i] \notin tmStarts[h].occupied
      /\ \A i, j \in 1..Len(c) : names[i] = names[j] => i = j
  BY TmBegun DEF Tm!Commit
<1>2. TmTodoOf(tmStarts[h]) /\ TmBegunOf(tmStarts[h])
  BY <1>1 DEF TmIInv, TmHubsInv
<1>3. CASE Tm!Elements(names) \cap Tm!Taken # {}
  <2>1. /\ UNCHANGED <<tmRevisions, tmActive, tmProjectRoutes, tmMigrations, tmTriggers, tmWrites>>
        /\ tmStarts' = [tmStarts EXCEPT ![h] = Tm!Failed(tmStarts[h])]
        /\ tmCrashes' \in 0..tmMaxCrashes
    BY <1>3 DEF Tm!Commit, TmIInv, TmFormInv
  <2>2. tmStarts[h].occupied # Tm!Taken
    BY <1>1, <1>3 DEF Tm!Elements
  <2>3. tmStarts[h].since < tmWrites
    BY <1>2, <2>2 DEF TmBegunOf
  <2>4. TmTodoOf(Tm!Failed(tmStarts[h]))
    BY <1>1, <1>2, <2>3, TmFailedHub DEF TmTodoOf
  <2>. QED BY <1>1, <2>1, <2>4, TmFailedHub, TmHubKeeps
<1>4. CASE Tm!Elements(names) \cap Tm!Taken = {}
  <2>1. \A i \in 1..Len(c) : names[i] \notin Tm!Taken
    BY <1>1, <1>4 DEF Tm!Elements
  <2>2. TmMigrates(h, p, c, names)
    BY <1>1, <1>4 DEF Tm!Commit, TmMigrates
  <2>. HIDE DEF c, names
  <2>3. /\ IsFiniteSet(tmTriggers') /\ tmTriggers' \subseteq TmTrigger
        /\ \A t \in tmTriggers' : t.id \in 1..Cardinality(tmTriggers')
        /\ \A t, u \in tmTriggers' : t.id = u.id \/ t.name = u.name => t = u
        /\ TmServedInv'
    BY <1>1, <2>1, <2>2, TmMigratedTriggers
  <2>4. /\ Tm!Passed(tmStarts[h]) \in TmHub /\ Tm!Passed(tmStarts[h]).since = tmStarts[h].since
        /\ Tm!Passed(tmStarts[h]).at \in {"up", "listed"}
        /\ Tm!Passed(tmStarts[h]).at = "listed" => Tm!Passed(tmStarts[h]).todo # {}
        /\ Tm!Passed(tmStarts[h]).todo = tmStarts[h].todo \ {item}
    BY <1>1, TmPassedHub
  <2>5. /\ tmStarts' \in [tmHubs -> TmHub] /\ tmStarts'[h] = Tm!Passed(tmStarts[h])
        /\ \A g \in tmHubs \ {h} : tmStarts'[g] = tmStarts[g]
    BY <2>2, <2>4 DEF TmMigrates, TmIInv, TmFormInv
  <2>6. TmFormInv'
    BY <1>1, <2>2, <2>3, <2>5 DEF TmMigrates, TmIInv, TmFormInv
  <2>7. \A g \in tmHubs : tmStarts'[g].at # "begun"
    BY <1>1, <2>4, <2>5 DEF TmIInv, TmAloneInv
  <2>8. tmMigrations' = tmMigrations \cup {p} /\ tmWrites' = tmWrites
    BY <2>2 DEF TmMigrates
  <2>9. \A q \in Tm!Projects : q \in tmMigrations' \/ tmActive'[q] = tmActive[q]
    BY <2>2 DEF TmMigrates, TmIInv, TmFormInv
  <2>10. \A x \in TmHub : TmTodoOf(x) => \A it \in x.todo :
           it.project \in tmMigrations' \/ tmActive'[it.project] = it.revision \/ x.since < tmWrites'
         \/ x.at \notin {"listed", "begun"}
    <3>1. \A x \in TmHub : \A it \in x.todo : it.project \in Tm!Projects
      BY DEF TmHub, TmItem
    <3>. QED BY <2>8, <2>9, <3>1 DEF TmTodoOf
  <2>11. ASSUME NEW g \in tmHubs PROVE TmTodoOf(tmStarts[g])' 
    <3>1. tmStarts[g] \in TmHub /\ TmTodoOf(tmStarts[g])
      BY DEF TmIInv, TmFormInv, TmHubsInv
    <3>2. CASE g # h
      BY <2>5, <2>8, <2>10, <3>1, <3>2 DEF TmTodoOf
    <3>3. CASE g = h
      <4>1. \A q \in Tm!Projects \ tmMigrations' : \E it \in tmStarts'[h].todo : it.project = q
        BY <1>1, <1>2, <2>4, <2>5, <2>8 DEF TmTodoOf
      <4>. QED BY <1>1, <1>2, <2>4, <2>5, <2>8, <2>10, <3>1, <3>3, <4>1 DEF TmTodoOf
    <3>. QED BY <3>2, <3>3
  <2>12. TmHubsInv' /\ TmAloneInv'
    BY <2>7, <2>11 DEF TmHubsInv, TmAloneInv
  <2>. QED BY <2>3, <2>6, <2>12 DEF TmIInv
<1>. QED BY <1>3, <1>4

-----------------------------------------------------------------------------
(* Deployments and saves *)

\* What is written without a transaction that has begun noticing.
LEMMA TmWriteKeepsHubs ==
  ASSUME TmIInv, UNCHANGED <<tmMigrations, tmStarts>>, tmWrites' = tmWrites + 1,
         \A h \in tmHubs : tmStarts[h].at = "begun" =>
           LET p == Tm!First(tmStarts[h].todo).project IN tmActive'[p] = tmActive[p]
  PROVE  TmHubsInv' /\ TmAloneInv'
<1>1. tmWrites \in Nat /\ \A h \in tmHubs : tmStarts[h].since \in Nat
  BY DEF TmIInv, TmFormInv, TmHub
<1>2. TmAloneInv'
  BY DEF TmIInv, TmAloneInv
<1>3. ASSUME NEW h \in tmHubs
      PROVE  TmTodoOf(tmStarts[h])' /\ (tmStarts'[h].at = "begun" => TmBegunOf(tmStarts[h])')
  <2>1. TmTodoOf(tmStarts[h]) /\ (tmStarts[h].at = "begun" => TmBegunOf(tmStarts[h]))
    BY DEF TmIInv, TmHubsInv
  <2>2. tmStarts[h].since <= tmWrites /\ tmStarts[h].since < tmWrites'
    BY <1>1, <2>1 DEF TmTodoOf
  <2>3. TmTodoOf(tmStarts[h])'
    BY <1>1, <2>1, <2>2 DEF TmTodoOf
  <2>4. tmStarts'[h].at = "begun" => TmBegunOf(tmStarts[h])'
    BY <2>1, <2>2 DEF TmBegunOf
  <2>. QED BY <2>3, <2>4
<1>. QED BY <1>2, <1>3 DEF TmHubsInv

LEMMA TmDeployKeeps ==
  ASSUME Tm!MigrationAssumption, TmIInv, NEW p \in Tm!Projects, Tm!Deploy(p)
  PROVE  TmIInv'
<1>1. PICK c \in tmContents :
        /\ tmRevisions' = [tmRevisions EXCEPT ![p] = Append(tmRevisions[p], c)]
        /\ tmActive' = [tmActive EXCEPT ![p] = Len(tmRevisions[p]) + 1]
        /\ tmProjectRoutes' = [tmProjectRoutes EXCEPT ![p] = Tm!Elements(c)]
  BY DEF Tm!Deploy
<1>2. /\ tmActive[p] > 0 /\ ~Tm!Locked(p) /\ tmWrites < tmMaxWrites /\ tmWrites' = tmWrites + 1
      /\ UNCHANGED <<tmMigrations, tmTriggers, tmStarts, tmCrashes>>
  BY DEF Tm!Deploy
<1>3. tmWrites \in Nat /\ tmMaxWrites \in Nat
  BY DEF TmIInv, TmFormInv, Tm!MigrationAssumption
<1>4. tmRevisions[p] \in Seq(tmContents) /\ Len(tmRevisions[p]) \in Nat \ {0}
  BY TmLastRevision DEF TmIInv
<1>5. /\ Append(tmRevisions[p], c) \in Seq(tmContents) /\ Append(tmRevisions[p], c) # <<>>
      /\ Len(Append(tmRevisions[p], c)) = Len(tmRevisions[p]) + 1
      /\ Append(tmRevisions[p], c)[Len(tmRevisions[p]) + 1] = c
  BY <1>4
<1>6. p \notin tmMigrations
  BY <1>2 DEF TmIInv, TmServedInv, TmByProject, TmByTriggers
<1>7. /\ tmRevisions' \in [Tm!Projects -> Seq(tmContents)] /\ \A q \in Tm!Projects : tmRevisions'[q] # <<>>
      /\ tmActive' \in [Tm!Projects -> Nat] /\ tmProjectRoutes' \in [Tm!Projects -> SUBSET tmNames]
  <2>1. Tm!Elements(c) \subseteq tmNames
    BY TmContentsName
  <2>2. Len(tmRevisions[p]) + 1 \in Nat
    BY <1>4
  <2>. QED BY <1>1, <1>5, <2>1, <2>2 DEF TmIInv, TmFormInv
<1>8. TmFormInv'
  <2>1. tmWrites' \in 0..tmMaxWrites
    BY <1>2, <1>3
  <2>. QED BY <1>2, <1>7, <2>1 DEF TmIInv, TmFormInv
<1>9. /\ tmRevisions'[p] = Append(tmRevisions[p], c) /\ tmActive'[p] = Len(tmRevisions[p]) + 1
      /\ tmProjectRoutes'[p] = Tm!Elements(c)
      /\ \A q \in Tm!Projects \ {p} : /\ tmRevisions'[q] = tmRevisions[q] /\ tmActive'[q] = tmActive[q]
                                   /\ tmProjectRoutes'[q] = tmProjectRoutes[q]
  BY <1>1 DEF TmIInv, TmFormInv
<1>10. TmServedInv'
  <2>1. Tm!Deployed(p)' = Tm!Elements(c)
    BY <1>5, <1>9 DEF Tm!Deployed
  <2>2. \A q \in Tm!Projects \ {p} : Tm!Deployed(q)' = Tm!Deployed(q)
    BY <1>9 DEF Tm!Deployed
  <2>3. TmByProject(p)'
    <3>1. tmActive'[p] = Len(tmRevisions'[p]) /\ tmProjectRoutes'[p] = Tm!Deployed(p)'
      BY <1>5, <1>9, <2>1
    <3>2. \A t \in tmTriggers', n \in tmNames : t.from # <<p, n>>
      BY <1>2, <1>6 DEF TmIInv, TmServedInv, TmByProject
    <3>. QED BY <3>1, <3>2 DEF TmByProject
  <2>4. ASSUME NEW q \in Tm!Projects \ {p}
        PROVE  (TmByProject(q) => TmByProject(q)') /\ (TmByTriggers(q) => TmByTriggers(q)')
    <3>1. tmTriggers' = tmTriggers /\ tmRevisions'[q] = tmRevisions[q]
      BY <1>2, <1>9
    <3>2. tmActive'[q] = tmActive[q] /\ tmProjectRoutes'[q] = tmProjectRoutes[q]
      BY <1>9
    <3>3. Tm!Deployed(q)' = Tm!Deployed(q)
      BY <2>2
    <3>4. TmByProject(q) => TmByProject(q)'
      BY <3>1, <3>2, <3>3 DEF TmByProject
    <3>5. TmByTriggers(q) => TmByTriggers(q)'
      BY <3>1, <3>2, <3>3 DEF TmByTriggers
    <3>. QED BY <3>4, <3>5
  <2>5. tmMigrations' = tmMigrations /\ p \notin tmMigrations
    BY <1>2, <1>6
  <2>6. \A q \in Tm!Projects : q = p \/ q \in Tm!Projects \ {p}
    OBVIOUS
  <2>. QED BY <2>3, <2>4, <2>5, <2>6 DEF TmIInv, TmServedInv
<1>11. ASSUME NEW h \in tmHubs, tmStarts[h].at = "begun"
       PROVE  LET q == Tm!First(tmStarts[h].todo).project IN tmActive'[q] = tmActive[q]
  <2>1. tmStarts[h] \in TmHub /\ tmStarts[h].todo # {}
    BY <1>11 DEF TmIInv, TmFormInv, TmHubsInv, TmTodoOf
  <2>2. Tm!First(tmStarts[h].todo).project \in Tm!Projects \ {p}
    BY <1>2, <1>11, <2>1, TmFirstTodo DEF Tm!Locked
  <2>. QED BY <1>9, <2>2
<1>12. TmHubsInv' /\ TmAloneInv'
  BY <1>2, <1>11, TmWriteKeepsHubs
<1>. QED BY <1>8, <1>10, <1>12 DEF TmIInv

LEMMA TmNamesArePieces ==
  ASSUME Tm!MigrationAssumption
  PROVE  tmNames \subseteq Seq(TmPiece)
<1>1. STRING \subseteq TmPiece
  BY DEF TmPiece
<1>2. \A s \in Seq(STRING) : s \in Seq(TmPiece)
  BY <1>1, SeqMonotonic
<1>. QED BY <1>2 DEF Tm!MigrationAssumption

\* A save keeps what is served: it makes no trigger of a project's, and it takes none away.
LEMMA TmSaveKeeps ==
  ASSUME Tm!MigrationAssumption, TmIInv, IsFiniteSet(tmTriggers'), tmTriggers' \subseteq TmTrigger,
         \A t \in tmTriggers' : t.id \in 1..Cardinality(tmTriggers'),
         \A t, u \in tmTriggers' : t.id = u.id \/ t.name = u.name => t = u,
         \A t \in tmTriggers : \E u \in tmTriggers' : u.from = t.from,
         \A u \in tmTriggers' : \/ u.from = <<>>
                              \/ \E t \in tmTriggers : t.from = u.from /\ t.id = u.id,
         tmWrites < tmMaxWrites, tmWrites' = tmWrites + 1,
         UNCHANGED <<tmRevisions, tmActive, tmProjectRoutes, tmMigrations, tmStarts, tmCrashes>>
  PROVE  TmIInv'
<1>1. tmWrites' \in 0..tmMaxWrites
  BY DEF TmIInv, TmFormInv, Tm!MigrationAssumption
<1>2. TmFormInv'
  BY <1>1 DEF TmIInv, TmFormInv
<1>3. \A p \in Tm!Projects, n \in tmNames : <<p, n>> # <<>>
  OBVIOUS
<1>4. TmServedInv'
  <2>1. \A q : Tm!Deployed(q)' = Tm!Deployed(q)
    BY DEF Tm!Deployed
  <2>2. ASSUME NEW p \in Tm!Projects, p \notin tmMigrations PROVE TmByProject(p)'
    <3>1. TmByProject(p)
      BY <2>2 DEF TmIInv, TmServedInv
    <3>2. \A t \in tmTriggers', n \in tmNames : t.from # <<p, n>>
      BY <1>3, <3>1 DEF TmByProject
    <3>. QED BY <2>1, <3>1, <3>2 DEF TmByProject
  <2>3. ASSUME NEW p \in Tm!Projects, p \in tmMigrations PROVE TmByTriggers(p)'
    <3>0. TmByTriggers(p)
      BY <2>3 DEF TmIInv, TmServedInv
    <3>1. /\ \A n \in Tm!Deployed(p) : \E t \in tmTriggers : t.from = <<p, n>>
          /\ \A n \in tmNames : \A t, u \in tmTriggers :
               t.from = <<p, n>> => n \in Tm!Deployed(p) /\ (u.from = <<p, n>> => t = u)
      BY <3>0 DEF TmByTriggers
    <3>2. \A n \in Tm!Deployed(p) : \E t \in tmTriggers' : t.from = <<p, n>>
      <4>1. TAKE n \in Tm!Deployed(p)
      <4>2. PICK t \in tmTriggers : t.from = <<p, n>>
        BY <3>1
      <4>3. PICK u \in tmTriggers' : u.from = t.from
        OBVIOUS
      <4>. QED BY <4>2, <4>3
    <3>3. ASSUME NEW n \in tmNames, NEW t \in tmTriggers', NEW u \in tmTriggers', t.from = <<p, n>>
          PROVE  n \in Tm!Deployed(p) /\ (u.from = <<p, n>> => t = u)
      <4>1. PICK x \in tmTriggers : x.from = t.from /\ x.id = t.id
        BY <1>3, <3>3
      <4>2. n \in Tm!Deployed(p)
        BY <3>1, <3>3, <4>1
      <4>3. ASSUME u.from = <<p, n>> PROVE t = u
        <5>1. PICK y \in tmTriggers : y.from = u.from /\ y.id = u.id
          BY <1>3, <4>3
        <5>2. x = y
          BY <3>1, <3>3, <4>1, <4>3, <5>1
        <5>. QED BY <4>1, <5>1, <5>2
      <4>. QED BY <4>2, <4>3
    <3>4. tmActive' = tmActive /\ tmProjectRoutes' = tmProjectRoutes
      OBVIOUS
    <3>. QED BY <2>1, <3>0, <3>2, <3>3, <3>4 DEF TmByTriggers
  <2>4. tmMigrations' = tmMigrations
    OBVIOUS
  <2>. QED BY <2>2, <2>3, <2>4 DEF TmServedInv
<1>5. TmHubsInv' /\ TmAloneInv'
  BY TmWriteKeepsHubs
<1>. QED BY <1>2, <1>4, <1>5 DEF TmIInv

LEMMA TmSaveNewKeeps ==
  ASSUME Tm!MigrationAssumption, TmIInv, Tm!SaveNew
  PROVE  TmIInv'
<1>. DEFINE K == Cardinality(tmTriggers)
<1>1. /\ IsFiniteSet(tmTriggers) /\ K \in Nat /\ tmTriggers \subseteq TmTrigger
      /\ \A t \in tmTriggers : t.id \in 1..K
      /\ \A t, u \in tmTriggers : t.id = u.id \/ t.name = u.name => t = u
  BY FS_CardinalityType DEF TmIInv, TmFormInv
<1>2. PICK n \in tmNames \ Tm!Taken, enabled \in BOOLEAN : tmTriggers' = tmTriggers \cup
        {[id |-> K + 1, name |-> n, from |-> <<>>, routed |-> enabled]}
  BY TmCounts DEF Tm!SaveNew, Tm!NextId
<1>. DEFINE new == [id |-> K + 1, name |-> n, from |-> <<>>, routed |-> enabled]
<1>3. n \in Seq(TmPiece) /\ K + 1 \in Nat
  BY <1>1, TmNamesArePieces
<1>. HIDE DEF K
<1>4. new \in TmTrigger /\ new.id = K + 1 /\ new.name = n /\ new.from = <<>>
  BY <1>3 DEF TmTrigger
<1>5. tmTriggers' = tmTriggers \cup {new}
  BY <1>2
<1>. HIDE DEF new
<1>6. new \notin tmTriggers
  BY <1>1, <1>4
<1>7. IsFiniteSet(tmTriggers') /\ Cardinality(tmTriggers') = K + 1
  BY <1>1, <1>5, <1>6, FS_AddElement DEF K
<1>8. \A t \in tmTriggers' : t.id \in 1..Cardinality(tmTriggers')
  BY <1>1, <1>4, <1>5, <1>7
<1>9. \A t, u \in tmTriggers' : t.id = u.id \/ t.name = u.name => t = u
  <2>1. \A t \in tmTriggers : t.id # new.id /\ t.name # new.name
    BY <1>1, <1>4 DEF Tm!Taken
  <2>. QED BY <1>1, <1>5, <2>1
<1>10. /\ tmWrites < tmMaxWrites /\ tmWrites' = tmWrites + 1
       /\ UNCHANGED <<tmRevisions, tmActive, tmProjectRoutes, tmMigrations, tmStarts, tmCrashes>>
  BY DEF Tm!SaveNew
<1>11. tmTriggers' \subseteq TmTrigger
  BY <1>1, <1>4, <1>5
<1>12. /\ \A t \in tmTriggers : \E u \in tmTriggers' : u.from = t.from
       /\ \A u \in tmTriggers' : u.from = <<>> \/ \E t \in tmTriggers : t.from = u.from /\ t.id = u.id
  BY <1>4, <1>5
<1>. QED BY <1>7, <1>8, <1>9, <1>10, <1>11, <1>12, TmSaveKeeps

LEMMA TmSaveOldKeeps ==
  ASSUME Tm!MigrationAssumption, TmIInv, Tm!SaveOld
  PROVE  TmIInv'
<1>. DEFINE K == Cardinality(tmTriggers)
<1>1. /\ IsFiniteSet(tmTriggers) /\ K \in Nat /\ tmTriggers \subseteq TmTrigger
      /\ \A t \in tmTriggers : t.id \in 1..K
      /\ \A t, u \in tmTriggers : t.id = u.id \/ t.name = u.name => t = u
  BY FS_CardinalityType DEF TmIInv, TmFormInv
<1>2. PICK t \in tmTriggers, n \in tmNames, enabled \in BOOLEAN :
        /\ \A u \in tmTriggers : u.name = n => u = t
        /\ tmTriggers' = (tmTriggers \ {t}) \cup {[t EXCEPT !.name = n, !.routed = enabled]}
  BY DEF Tm!SaveOld
<1>. DEFINE new == [t EXCEPT !.name = n, !.routed = enabled]
            rest == tmTriggers \ {t}
<1>3. n \in Seq(TmPiece) /\ t \in TmTrigger
  BY <1>1, TmNamesArePieces
<1>4. new \in TmTrigger /\ new.id = t.id /\ new.name = n /\ new.from = t.from
  BY <1>3 DEF TmTrigger
<1>5. tmTriggers' = rest \cup {new}
  BY <1>2
<1>. HIDE DEF new
<1>6. new \notin rest
  BY <1>1, <1>4
<1>7. IsFiniteSet(rest) /\ Cardinality(rest) = K - 1
  BY <1>1, FS_RemoveElement
<1>. HIDE DEF K
<1>8. IsFiniteSet(tmTriggers') /\ Cardinality(tmTriggers') = K
  <2>1. IsFiniteSet(rest \cup {new}) /\ Cardinality(rest \cup {new}) = Cardinality(rest) + 1
    BY <1>6, <1>7, FS_AddElement
  <2>. QED BY <1>1, <1>5, <1>7, <2>1
<1>9. \A u \in tmTriggers' : u.id \in 1..Cardinality(tmTriggers')
  BY <1>1, <1>4, <1>5, <1>8
<1>10. \A u, v \in tmTriggers' : u.id = v.id \/ u.name = v.name => u = v
  <2>1. \A u \in rest : u.id # new.id /\ u.name # new.name
    BY <1>1, <1>2, <1>4
  <2>. QED BY <1>1, <1>5, <2>1
<1>11. /\ tmWrites < tmMaxWrites /\ tmWrites' = tmWrites + 1
       /\ UNCHANGED <<tmRevisions, tmActive, tmProjectRoutes, tmMigrations, tmStarts, tmCrashes>>
  BY DEF Tm!SaveOld
<1>12. tmTriggers' \subseteq TmTrigger
  BY <1>1, <1>4, <1>5
<1>13. \A x \in tmTriggers : \E u \in tmTriggers' : u.from = x.from
  BY <1>4, <1>5
<1>14. \A u \in tmTriggers' : \/ u.from = <<>>
                            \/ \E x \in tmTriggers : x.from = u.from /\ x.id = u.id
  BY <1>4, <1>5
<1>. QED BY <1>8, <1>9, <1>10, <1>11, <1>12, <1>13, <1>14, TmSaveKeeps

-----------------------------------------------------------------------------
LEMMA TmInductive ==
  ASSUME Tm!MigrationAssumption, TmIInv, Tm!Next \/ UNCHANGED Tm!vars
  PROVE  TmIInv'
<1>1. CASE UNCHANGED Tm!vars
  <2>1. UNCHANGED <<tmRevisions, tmActive, tmProjectRoutes, tmMigrations, tmTriggers, tmStarts,
                    tmWrites, tmCrashes>>
    BY <1>1 DEF Tm!vars
  <2>2. (\A p : Tm!Deployed(p)' = Tm!Deployed(p)) /\ Tm!Taken' = Tm!Taken
    BY <2>1 DEF Tm!Deployed, Tm!Taken
  <2>3. TmFormInv' /\ TmAloneInv'
    BY <2>1 DEF TmIInv, TmFormInv, TmAloneInv
  <2>4. TmServedInv'
    BY <2>1, <2>2 DEF TmIInv, TmServedInv, TmByProject, TmByTriggers
  <2>5. TmHubsInv'
    BY <2>1, <2>2 DEF TmIInv, TmHubsInv, TmTodoOf, TmBegunOf
  <2>. QED BY <2>3, <2>4, <2>5 DEF TmIInv
<1>2. CASE Tm!Next
  <2>1. ASSUME NEW h \in tmHubs, Tm!List(h) \/ Tm!Begin(h) \/ Tm!Commit(h) \/ Tm!Crash(h) \/ Tm!Restart(h)
        PROVE  TmIInv'
    BY <2>1, TmListKeeps, TmBeginKeeps, TmCommitKeeps, TmRestartKeeps
  <2>2. ASSUME NEW p \in Tm!Projects, Tm!Deploy(p) PROVE TmIInv'
    BY <2>2, TmDeployKeeps
  <2>. QED BY <1>2, <2>1, <2>2, TmSaveNewKeeps, TmSaveOldKeeps DEF Tm!Next
<1>. QED BY <1>1, <1>2

LEMMA TmSafe ==
  ASSUME Tm!MigrationAssumption, TmIInv
  PROVE  Tm!ServedOnce /\ Tm!FailsOnlyIfDisturbed
<1>1. Tm!FailsOnlyIfDisturbed
  BY DEF TmIInv, TmHubsInv, TmTodoOf, Tm!FailsOnlyIfDisturbed
<1>2. ASSUME NEW p \in Tm!Projects PROVE p \in tmMigrations <=> tmActive[p] = 0
  BY TmLastRevision DEF TmIInv, TmServedInv, TmByProject, TmByTriggers
<1>3. ASSUME NEW p \in Tm!Projects, NEW n \in tmNames
      PROVE  Tm!Serving(p, n) = IF n \in Tm!Deployed(p) THEN 1 ELSE 0
  <2>. DEFINE R == {n} \cap tmProjectRoutes[p]  T == {t \in tmTriggers : t.from = <<p, n>>}
  <2>1. Cardinality({}) = 0 /\ \A x : Cardinality({x}) = 1
    BY FS_EmptySet, FS_Singleton
  <2>2. CASE p \notin tmMigrations
    <3>1. T = {} /\ tmProjectRoutes[p] = Tm!Deployed(p)
      BY <2>2 DEF TmIInv, TmServedInv, TmByProject, TmByTriggers
    <3>2. R = IF n \in Tm!Deployed(p) THEN {n} ELSE {}
      BY <3>1
    <3>3. Cardinality(T) = 0 /\ Cardinality(R) = IF n \in Tm!Deployed(p) THEN 1 ELSE 0
      BY <2>1, <3>1, <3>2
    <3>. QED BY <3>3, TmCounts DEF Tm!Serving
  <2>3. CASE p \in tmMigrations
    <3>1. R = {}
      BY <2>3 DEF TmIInv, TmServedInv, TmByProject, TmByTriggers
    <3>2. CASE n \in Tm!Deployed(p)
      <4>1. PICK t \in tmTriggers : t.from = <<p, n>>
        BY <2>3, <3>2 DEF TmIInv, TmServedInv, TmByProject, TmByTriggers
      <4>2. T = {t}
        BY <2>3, <4>1 DEF TmIInv, TmServedInv, TmByProject, TmByTriggers
      <4>3. Cardinality(T) = 1 /\ Cardinality(R) = 0
        BY <2>1, <3>1, <4>2
      <4>. QED BY <3>2, <4>3, TmCounts DEF Tm!Serving
    <3>3. CASE n \notin Tm!Deployed(p)
      <4>1. T = {}
        BY <2>3, <3>3 DEF TmIInv, TmServedInv, TmByProject, TmByTriggers
      <4>2. Cardinality(T) = 0 /\ Cardinality(R) = 0
        BY <2>1, <3>1, <4>1
      <4>. QED BY <3>3, <4>2, TmCounts DEF Tm!Serving
    <3>. QED BY <3>2, <3>3
  <2>. QED BY <2>2, <2>3
<1>. QED BY <1>1, <1>2, <1>3 DEF Tm!ServedOnce

LEMMA TmTyped ==
  ASSUME Tm!MigrationAssumption, TmIInv
  PROVE  Tm!TypeOK
<1>1. \A p \in Tm!Projects : tmActive[p] \in 0..Len(tmRevisions[p])
  <2>1. TAKE p \in Tm!Projects
  <2>2. Len(tmRevisions[p]) \in Nat
    BY TmLastRevision DEF TmIInv
  <2>. QED BY <2>2 DEF TmIInv, TmServedInv, TmByProject, TmByTriggers
<1>. QED BY <1>1 DEF TmIInv, TmFormInv, TmHub, Tm!TypeOK

\* Whatever the hubs, the projects, their names and the bounds: each trigger of a project's
\* last deployment is served once, before, during and after its migration, and a start fails
\* only when somebody deployed or saved since it listed (migrateLegacyProjectTriggers).
THEOREM TmServedAlways ==
  ASSUME Tm!MigrationAssumption
  PROVE  Tm!Spec => []Tm!TypeOK /\ []Tm!ServedOnce /\ []Tm!FailsOnlyIfDisturbed
<1>1. Tm!Init => TmIInv
  BY TmInitially
<1>2. TmIInv /\ [Tm!Next]_(Tm!vars) => TmIInv'
  BY TmInductive
<1>3. TmIInv => Tm!TypeOK /\ Tm!ServedOnce /\ Tm!FailsOnlyIfDisturbed
  BY TmSafe, TmTyped
<1>. QED BY <1>1, <1>2, <1>3, PTL DEF Tm!Spec

-----------------------------------------------------------------------------
(* Supervision of an agent *)

CONSTANTS suIdle, suHard, suMaxTime, suMaxEvents
VARIABLES suNow, suUp, suConnected, suStatus, suIdleAt, suEnded, suHeard,
          suHandled, suHand, suTimer, suCall, suFaults, suCrossed

Su == INSTANCE AgentSupervision WITH
    Idle <- suIdle, Hard <- suHard, MaxTime <- suMaxTime,
    MaxEvents <- suMaxEvents, now <- suNow, up <- suUp,
    connected <- suConnected, status <- suStatus, idle <- suIdleAt,
    ended <- suEnded, heard <- suHeard, handled <- suHandled, hand <- suHand,
    timer <- suTimer, call <- suCall, faults <- suFaults,
    crossed <- suCrossed

SuKinds == {"activity", "idle", "running", "error"}
SuStatuses == {"spawning", "running", "succeeded", "failed"}
SuRowType == [status : SuStatuses, idle : 0..suHard \cup {None}]
SuCallType == [pc : {"rest", "waiting", "judging", "over", "retrying", "look", "armed", "sending",
                   "before", "completing"},
             row : SuRowType \cup {None}, upto : 0..suMaxEvents]
SuHandType == [pc : {"rest", "reading", "judging"}, row : SuRowType \cup {None}, upto : {0, 1}]
SuTimerType == 0..Su!Later(suHard, suMaxTime) \cup {None}

SuTypeInv ==
  /\ suNow \in 0..suMaxTime /\ suUp \in BOOLEAN /\ suConnected \in BOOLEAN /\ suCrossed \in BOOLEAN
  /\ suStatus \in SuStatuses /\ suIdleAt \in 0..suHard \cup {None} /\ suTimer \in SuTimerType
  /\ suHeard \in Seq([kind : SuKinds, at : Nat]) /\ suHandled \in 0..Len(suHeard)
  /\ suFaults \in Nat /\ Len(suHeard) + suFaults <= suMaxEvents
  /\ suHand \in SuHandType /\ suCall \in [Su!Callers -> SuCallType]

\* Events come one after another.
SuHeardInv ==
  /\ \A k \in 1..Len(suHeard) : suHeard[k].at <= suNow
  /\ \A j, k \in 1..Len(suHeard) : j <= k => suHeard[j].at <= suHeard[k].at

\* An event's handler that reads the row finds the deadline that has passed for it.
SuHandInv ==
  /\ suHand.pc = "rest" => suHand.upto = 0
  /\ suHand.pc # "rest" => suHandled < Len(suHeard) /\ Su!Due(Su!Row) <= suNow
  /\ suHand.pc = "judging" => suHand.row \in SuRowType /\ suHand.row.idle = suIdleAt

\* What is judged was waited for.
SuCallInv ==
  \A c \in Su!Callers :
    /\ suCall[c].pc = "judging" => suCall[c].upto <= suHandled
    /\ suCall[c].pc \in {"judging", "armed"} => suCall[c].row \in SuRowType

\* The row has the deadline that the events say.
SuSeenInv == Su!Live /\ suFaults = 0 => suIdleAt = Su!Told[Su!Seen]

\* A live execution has its timer, or somebody who will arm it or fail the execution.
SuArmed == suTimer # None /\ (suTimer <= Su!Due(Su!Row) \/ suTimer <= suNow + 1)
SuBusy == {"look", "armed", "waiting", "judging", "retrying", "completing"}
SuWatchInv ==
  suUp /\ Su!Live /\ ~suCrossed =>
    SuArmed \/ suHand.pc # "rest" \/ \E c \in Su!Callers : suCall[c].pc \in SuBusy

SuIInv == SuTypeInv /\ SuHeardInv /\ SuHandInv /\ SuCallInv /\ SuSeenInv /\ SuWatchInv /\ Su!IdledOutWasIdle

-----------------------------------------------------------------------------
(* What the events say *)

\* How the deadline is told, one event after another.
SuFollows(f, h) ==
  f = [n \in 0..suMaxEvents |->
         IF n = 0 THEN Su!Earlier(suIdle, suHard)
         ELSE IF n > Len(h) THEN None ELSE Su!Follow(f[n - 1], h[n])]

LEMMA SuFollower ==
  ASSUME Su!SupervisionAssumption, NEW h
  PROVE  SuFollows(CHOOSE f : f = [n \in 0..suMaxEvents |->
                    IF n = 0 THEN Su!Earlier(suIdle, suHard)
                    ELSE IF n > Len(h) THEN None ELSE Su!Follow(f[n - 1], h[n])], h)
<1>. DEFINE next(x, n) == IF n > Len(h) THEN None ELSE Su!Follow(x, h[n])
            Upto(f, m) == f = [n \in 0..m |-> IF n = 0 THEN Su!Earlier(suIdle, suHard) ELSE next(f[n - 1], n)]
            T == {m \in Nat : \E f : Upto(f, m)}
<1>1. 0 \in T
  <2>. DEFINE f == [n \in 0..0 |-> Su!Earlier(suIdle, suHard)]
  <2>1. Upto(f, 0)
    OBVIOUS
  <2>. QED BY <2>1
<1>2. ASSUME NEW m \in T PROVE m + 1 \in T
  <2>1. PICK f : Upto(f, m)
    OBVIOUS
  <2>. DEFINE g == [i \in 0..(m + 1) |-> IF i = m + 1 THEN next(f[m], m + 1) ELSE f[i]]
  <2>. HIDE DEF next
  <2>2. \A i \in 0..(m + 1) : g[i] = IF i = 0 THEN Su!Earlier(suIdle, suHard) ELSE next(g[i - 1], i)
    <3>1. m \in Nat
      OBVIOUS
    <3>2. \A i \in 0..m : f[i] = IF i = 0 THEN Su!Earlier(suIdle, suHard) ELSE next(f[i - 1], i)
      BY <2>1
    <3>3. TAKE i \in 0..(m + 1)
    <3>4. CASE i = m + 1
      <4>1. i - 1 = m /\ i # 0 /\ m \in 0..(m + 1) /\ m # m + 1
        BY <3>1, <3>4
      <4>. QED BY <3>4, <4>1
    <3>5. CASE i # m + 1
      <4>1. i \in 0..m /\ (i # 0 => i - 1 \in 0..(m + 1) /\ i - 1 # m + 1)
        BY <3>1, <3>5
      <4>. QED BY <3>2, <3>5, <4>1
    <3>. QED BY <3>4, <3>5
  <2>3. Upto(g, m + 1)
    <3>1. g = [i \in 0..(m + 1) |-> g[i]]
      OBVIOUS
    <3>. HIDE DEF g
    <3>2. [i \in 0..(m + 1) |-> g[i]] =
            [i \in 0..(m + 1) |-> IF i = 0 THEN Su!Earlier(suIdle, suHard) ELSE next(g[i - 1], i)]
      BY <2>2
    <3>. QED BY <3>1, <3>2
  <2>. HIDE DEF g, Upto
  <2>4. m + 1 \in Nat
    OBVIOUS
  <2>. QED BY <2>3, <2>4
<1>3. T = Nat
  <2>1. T \in SUBSET Nat
    OBVIOUS
  <2>. HIDE DEF T
  <2>. QED BY <1>1, <1>2, <2>1, Induction
<1>4. suMaxEvents \in T
  BY <1>3 DEF Su!SupervisionAssumption
<1>5. \E f : SuFollows(f, h)
  BY <1>4 DEF SuFollows
<1>. QED BY <1>5 DEF SuFollows

LEMMA SuTelling ==
  ASSUME Su!SupervisionAssumption
  PROVE  SuFollows(Su!Told, suHeard) /\ SuFollows(Su!Told, suHeard)'
<1>1. SuFollows(Su!Told, suHeard)
  BY SuFollower DEF Su!Told
<1>2. SuFollows(Su!Told', suHeard')
  BY SuFollower DEF Su!Told
<1>. QED BY <1>1, <1>2 DEF SuFollows

\* One event's turn.
LEMMA SuFollow1 ==
  ASSUME Su!SupervisionAssumption, NEW f, NEW h, SuFollows(f, h), Len(h) \in 0..suMaxEvents
  PROVE  /\ f[0] = Su!Earlier(suIdle, suHard)
         /\ \A n \in 1..Len(h) : f[n] = Su!Follow(f[n - 1], h[n])
<1>1. \A n \in 0..suMaxEvents : f[n] = IF n = 0 THEN Su!Earlier(suIdle, suHard)
                                     ELSE IF n > Len(h) THEN None ELSE Su!Follow(f[n - 1], h[n])
  BY DEF SuFollows
<1>2. suMaxEvents \in Nat
  BY DEF Su!SupervisionAssumption
<1>. QED BY <1>1, <1>2

\* What has been told stays when another event is heard.
LEMMA SuToldKept ==
  ASSUME Su!SupervisionAssumption, NEW e, suHeard \in Seq([kind : SuKinds, at : Nat]),
         e \in [kind : SuKinds, at : Nat],
         suHeard' = Append(suHeard, e), Len(suHeard) + 1 <= suMaxEvents
  PROVE  \A n \in 0..Len(suHeard) : Su!Told'[n] = Su!Told[n]
<1>. DEFINE T == {n \in Nat : n <= Len(suHeard) => Su!Told'[n] = Su!Told[n]}
<1>1. /\ Len(suHeard) \in Nat /\ suMaxEvents \in Nat /\ Len(suHeard') = Len(suHeard) + 1
      /\ \A n \in 1..Len(suHeard) : suHeard'[n] = suHeard[n]
  BY DEF Su!SupervisionAssumption
<1>2. /\ Su!Told[0] = Su!Earlier(suIdle, suHard) /\ Su!Told'[0] = Su!Earlier(suIdle, suHard)
      /\ \A n \in 1..Len(suHeard) : Su!Told[n] = Su!Follow(Su!Told[n - 1], suHeard[n])
      /\ \A n \in 1..Len(suHeard') : Su!Told'[n] = Su!Follow(Su!Told'[n - 1], suHeard'[n])
  <2>1. SuFollows(Su!Told, suHeard) /\ SuFollows(Su!Told', suHeard')
    BY SuTelling DEF SuFollows
  <2>2. Len(suHeard) \in 0..suMaxEvents /\ Len(suHeard') \in 0..suMaxEvents
    BY <1>1
  <2>3. Su!Told[0] = Su!Earlier(suIdle, suHard) /\ \A n \in 1..Len(suHeard) : Su!Told[n] = Su!Follow(Su!Told[n - 1], suHeard[n])
    BY <2>1, <2>2, SuFollow1
  <2>4. /\ Su!Told'[0] = Su!Earlier(suIdle, suHard)
        /\ \A n \in 1..Len(suHeard') : Su!Told'[n] = Su!Follow(Su!Told'[n - 1], suHeard'[n])
    <3>1. ASSUME NEW f, NEW h, SuFollows(f, h), Len(h) \in 0..suMaxEvents
          PROVE  f[0] = Su!Earlier(suIdle, suHard) /\ \A n \in 1..Len(h) : f[n] = Su!Follow(f[n - 1], h[n])
      BY <3>1, SuFollow1
    <3>. QED BY <2>1, <2>2, <3>1
  <2>. QED BY <2>3, <2>4
<1>3. 0 \in T
  BY <1>2
<1>4. ASSUME NEW n \in T PROVE n + 1 \in T
  <2>1. n \in Nat /\ (n <= Len(suHeard) => Su!Told'[n] = Su!Told[n])
    OBVIOUS
  <2>2. ASSUME n + 1 <= Len(suHeard) PROVE Su!Told'[n + 1] = Su!Told[n + 1]
    <3>1. /\ n + 1 \in 1..Len(suHeard) /\ n + 1 \in 1..Len(suHeard') /\ (n + 1) - 1 = n
          /\ n <= Len(suHeard)
      BY <1>1, <2>1, <2>2
    <3>. QED BY <1>1, <1>2, <2>1, <3>1
  <2>. QED BY <2>1, <2>2
<1>5. T = Nat
  <2>1. T \in SUBSET Nat
    OBVIOUS
  <2>. HIDE DEF T
  <2>. QED BY <1>3, <1>4, <2>1, Induction
<1>. QED BY <1>1, <1>5

\* An event that was heard after the deadline has not made it.
LEMMA SuFollowBack ==
  ASSUME Su!SupervisionAssumption, NEW x, NEW e \in [kind : SuKinds, at : Nat], NEW d \in Nat,
         d < suHard, d <= e.at, Su!Follow(x, e) = d
  PROVE  x = d
<1>1. e.at \in Nat /\ suIdle \in Nat \ {0} /\ suHard \in Nat /\ d # None
  BY DEF Su!SupervisionAssumption
<1>2. Su!Earlier(e.at + suIdle, suHard) # d
  BY <1>1 DEF Su!Earlier
<1>. QED BY <1>1, <1>2 DEF Su!Follow

LEMMA SuCounts == ASSUME NEW T PROVE Su!Cardinality(T) = Cardinality(T)
BY DEF Su!Cardinality, Cardinality

\* So what the events say of a deadline is what those say that were heard before it.
LEMMA SuBeforeDeadline ==
  ASSUME Su!SupervisionAssumption, suHeard \in Seq([kind : SuKinds, at : Nat]), SuHeardInv,
         Len(suHeard) <= suMaxEvents, NEW n \in 0..Len(suHeard), NEW d \in Nat, d < suHard, Su!Told[n] = d
  PROVE  Su!Told[Su!Counted(n, d)] = d
<1>. DEFINE L == Len(suHeard)
            before == {k \in DOMAIN suHeard : suHeard[k].at < d}
            after == {k \in 1..L : d <= suHeard[k].at}
<1>1. L \in Nat /\ DOMAIN suHeard = 1..L /\ suMaxEvents \in Nat
  BY LenProperties DEF Su!SupervisionAssumption
<1>2. \A k \in 1..L : suHeard[k] \in [kind : SuKinds, at : Nat] /\ suHeard[k].at \in Nat
  <2>1. TAKE k \in 1..L
  <2>2. suHeard[k] \in [kind : SuKinds, at : Nat]
    BY <1>1, ElementOfSeq
  <2>. QED BY <2>2
<1>3. \A m \in Nat : IsFiniteSet(1..m) /\ Cardinality(1..m) = m
  <2>1. TAKE m \in Nat
  <2>. QED BY FS_Interval
<1>6. Su!Counted(n, d) = Su!Earlier(n, Cardinality(before))
  BY SuCounts DEF Su!Counted
<1>4. CASE after = {}
  <2>1. before = 1..L
    BY <1>1, <1>2, <1>4
  <2>2. Cardinality(before) = L
    BY <1>1, <1>3, <2>1
  <2>. HIDE DEF before
  <2>3. Su!Counted(n, d) = n
    <3>1. Su!Counted(n, d) = Su!Earlier(n, L)
      BY <1>6, <2>2
    <3>. HIDE DEF L
    <3>2. n \in 0..L
      BY DEF L
    <3>. QED BY <1>1, <3>1, <3>2 DEF Su!Earlier
  <2>. QED BY <2>3
<1>5. CASE after # {}
  <2>1. PICK b \in after : \A k \in after : b <= k
    <3>1. after \in SUBSET Nat
      BY <1>1
    <3>. HIDE DEF after
    <3>. QED BY <1>5, <3>1, Least
  <2>2. b \in 1..L /\ d <= suHeard[b].at
    OBVIOUS
  <2>3. before = 1..(b - 1)
    <3>1. \A k \in 1..L : k < b => suHeard[k].at < d
      BY <1>1, <1>2, <2>1, <2>2
    <3>2. \A k \in 1..L : b <= k => d <= suHeard[k].at
      BY <1>2, <2>2 DEF SuHeardInv
    <3>. QED BY <1>1, <1>2, <2>2, <3>1, <3>2
  <2>4. b - 1 \in Nat /\ Cardinality(before) = b - 1
    <3>1. b - 1 \in Nat
      BY <1>1, <2>2
    <3>. QED BY <1>3, <2>3, <3>1
  <2>5. Su!Counted(n, d) = Su!Earlier(n, b - 1)
    BY <1>6, <2>4
  <2>6. \A k \in 1..L : Su!Told[k] = Su!Follow(Su!Told[k - 1], suHeard[k])
    <3>1. L \in 0..suMaxEvents
      BY <1>1
    <3>. QED BY <3>1, SuTelling, SuFollow1
  <2>. DEFINE T == {i \in Nat : b - 1 <= n - i => Su!Told[n - i] = d}
  <2>7. 0 \in T
    BY <1>1
  <2>8. ASSUME NEW i \in T PROVE i + 1 \in T
    <3>1. i \in Nat /\ (b - 1 <= n - i => Su!Told[n - i] = d)
      OBVIOUS
    <3>2. ASSUME b - 1 <= n - (i + 1) PROVE Su!Told[n - (i + 1)] = d
      <4>1. /\ n - i \in 1..L /\ b <= n - i /\ (n - i) - 1 = n - (i + 1) /\ b - 1 <= n - i
        <5>1. n \in 0..L /\ b \in 1..L /\ i \in Nat
          BY <2>2, <3>1
        <5>2. b <= n - i
          BY <1>1, <3>2, <5>1
        <5>. QED BY <1>1, <5>1, <5>2
      <4>2. Su!Told[n - i] = d /\ Su!Told[n - i] = Su!Follow(Su!Told[n - (i + 1)], suHeard[n - i])
        BY <2>6, <3>1, <4>1
      <4>3. d <= suHeard[n - i].at
        <5>1. suHeard[b].at <= suHeard[n - i].at
          BY <2>2, <4>1 DEF SuHeardInv
        <5>2. suHeard[b].at \in Nat /\ suHeard[n - i].at \in Nat /\ d <= suHeard[b].at
          BY <1>2, <2>2, <4>1
        <5>. QED BY <5>1, <5>2
      <4>. QED BY <1>2, <4>1, <4>2, <4>3, SuFollowBack
    <3>. QED BY <3>1, <3>2
  <2>9. T = Nat
    <3>1. T \in SUBSET Nat
      OBVIOUS
    <3>. HIDE DEF T
    <3>. QED BY <2>7, <2>8, <3>1, Induction
  <2>10. CASE n <= b - 1
    BY <1>1, <2>4, <2>5, <2>10 DEF Su!Earlier
  <2>11. CASE ~(n <= b - 1)
    <3>1. n - (b - 1) \in Nat /\ n - (n - (b - 1)) = b - 1
      BY <1>1, <2>4, <2>11
    <3>2. Su!Told[b - 1] = d
      <4>1. \A i \in Nat : b - 1 <= n - i => Su!Told[n - i] = d
        BY <2>9
      <4>2. PICK i \in Nat : i = n - (b - 1)
        BY <3>1
      <4>3. n - i = b - 1 /\ b - 1 <= n - i
        BY <2>4, <3>1, <4>2
      <4>4. Su!Told[n - i] = d
        BY <4>1, <4>3
      <4>. QED BY <4>3, <4>4
    <3>. QED BY <1>1, <2>4, <2>5, <2>11, <3>2 DEF Su!Earlier
  <2>. QED BY <2>10, <2>11
<1>. QED BY <1>4, <1>5

-----------------------------------------------------------------------------
(* Deadlines *)

LEMMA SuDueIs ==
  ASSUME Su!SupervisionAssumption, NEW r \in SuRowType
  PROVE  /\ Su!Due(r) \in 0..suHard /\ Su!Due(r) <= suHard /\ Su!Due(r) \in SuTimerType
         /\ r.idle # None => r.idle \in Nat /\ Su!Due(r) <= r.idle
         /\ Su!Kind(r) = "idle" => r.idle # None /\ Su!Due(r) = r.idle /\ Su!Due(r) < suHard
<1>1. /\ suHard \in Nat \ {0} /\ suMaxTime \in Nat /\ None \notin Int
      /\ r.idle \in 0..suHard \cup {None}
  BY DEF Su!SupervisionAssumption, SuRowType
<1>2. Su!Due(r) \in 0..suHard /\ Su!Due(r) <= suHard
  BY <1>1 DEF Su!Due, Su!Kind
<1>3. Su!Due(r) \in SuTimerType
  BY <1>1, <1>2 DEF SuTimerType, Su!Later
<1>. QED BY <1>1, <1>2, <1>3 DEF Su!Due, Su!Kind

LEMMA SuRowIs ==
  ASSUME SuTypeInv
  PROVE  Su!Row \in SuRowType /\ Su!Row.idle = suIdleAt
BY DEF SuTypeInv, Su!Row, SuRowType

LEMMA SuInitially ==
  ASSUME Su!SupervisionAssumption, Su!Init
  PROVE  SuIInv
<1>1. /\ suIdle \in Nat \ {0} /\ suHard \in Nat \ {0} /\ suMaxTime \in Nat /\ suMaxEvents \in Nat
      /\ None \notin Int
  BY DEF Su!SupervisionAssumption
<1>2. Su!Earlier(suIdle, suHard) \in 0..suHard /\ Su!Earlier(suIdle, suHard) \in SuTimerType
  BY <1>1 DEF Su!Earlier, Su!Later, SuTimerType
<1>3. suCall \in [Su!Callers -> SuCallType] /\ \A c \in Su!Callers : suCall[c].pc \in {"rest", "sending"}
  BY <1>1 DEF Su!Init, Su!Rest, SuCallType
<1>4. suHeard = <<>> /\ suHeard \in Seq([kind : SuKinds, at : Nat]) /\ Len(suHeard) = 0
  BY EmptySeq DEF Su!Init
<1>5. suHand \in SuHandType /\ suHand.pc = "rest" /\ suHand.upto = 0
  BY DEF Su!Init, Su!Rest, SuHandType
<1>6. SuTypeInv
  <2>1. suNow \in 0..suMaxTime /\ suStatus \in SuStatuses /\ suIdleAt \in 0..suHard \cup {None}
    BY <1>1, <1>2 DEF Su!Init, SuStatuses
  <2>2. suTimer \in SuTimerType
    BY <1>2 DEF Su!Init
  <2>3. suHandled \in 0..Len(suHeard) /\ suFaults \in Nat /\ Len(suHeard) + suFaults <= suMaxEvents
    BY <1>1, <1>4 DEF Su!Init
  <2>4. suUp \in BOOLEAN /\ suConnected \in BOOLEAN /\ suCrossed \in BOOLEAN
    BY DEF Su!Init
  <2>. QED BY <1>3, <1>4, <1>5, <2>1, <2>2, <2>3, <2>4 DEF SuTypeInv
<1>7. SuHeardInv
  BY <1>4 DEF SuHeardInv
<1>8. SuHandInv /\ SuCallInv
  BY <1>3, <1>5 DEF SuHandInv, SuCallInv
<1>9. SuSeenInv
  <2>1. Su!Told[0] = Su!Earlier(suIdle, suHard)
    <3>1. Len(suHeard) \in 0..suMaxEvents
      BY <1>1, <1>4
    <3>. QED BY <3>1, SuTelling, SuFollow1
  <2>. QED BY <1>5, <2>1 DEF Su!Init, SuSeenInv, Su!Seen
<1>10. SuWatchInv
  <2>1. suTimer = Su!Due(Su!Row) /\ suTimer # None
    BY <1>1, <1>2 DEF Su!Init, Su!Row, Su!Due, Su!Kind, Su!Earlier
  <2>2. Su!Due(Su!Row) \in Nat
    BY <1>6, SuRowIs, SuDueIs
  <2>. QED BY <2>1, <2>2 DEF SuWatchInv, SuArmed
<1>11. Su!IdledOutWasIdle
  BY DEF Su!Init, Su!IdledOutWasIdle
<1>. QED BY <1>6, <1>7, <1>8, <1>9, <1>10, <1>11 DEF SuIInv

-----------------------------------------------------------------------------
(* The steps of the callers, which move nothing but the timer *)

\* What a caller's step leaves alone.
SuQuiet == UNCHANGED <<suNow, suIdleAt, suEnded, suHeard, suHandled, suHand>>

\* A timer that is armed by a row that promises no more time than the row has.
LEMMA SuArms ==
  ASSUME Su!SupervisionAssumption, SuTypeInv, UNCHANGED <<suNow, suIdleAt>>, NEW r \in SuRowType,
         suTimer' = Su!Due(r), ~Su!Stale(r)
  PROVE  SuArmed'
<1>1. Su!Row \in SuRowType /\ Su!Due(Su!Row) \in Nat /\ Su!Due(r) \in Nat
  BY SuRowIs, SuDueIs
<1>2. Su!Due(Su!Row)' = Su!Due(Su!Row)
  BY DEF Su!Due, Su!Kind, Su!Row
<1>3. Su!Due(r) <= Su!Due(Su!Row) /\ suTimer' # None
  BY <1>1 DEF Su!Stale, Su!SupervisionAssumption
<1>. QED BY <1>2, <1>3 DEF SuArmed

LEMMA SuCallKeeps ==
  ASSUME Su!SupervisionAssumption, SuIInv, Su!Live, SuQuiet, NEW c \in Su!Callers,
         NEW x \in SuCallType,
         suCall' = [suCall EXCEPT ![c] = x], suUp' \in BOOLEAN, suConnected' \in BOOLEAN,
         suStatus' \in SuStatuses, suTimer' \in SuTimerType, suCrossed' \in BOOLEAN,
         suFaults' = suFaults \/ Su!Fault,
         x.pc = "judging" => x.upto <= suHandled,
         x.pc \in {"judging", "armed"} => x.row \in SuRowType,
         \/ x.pc \in SuBusy
         \/ suCrossed'
         \/ SuArmed'
         \/ /\ UNCHANGED <<suUp, suStatus, suTimer, suCrossed>> /\ suCall[c].pc \notin SuBusy
  PROVE  SuIInv'
<1>1. /\ suCall' \in [Su!Callers -> SuCallType] /\ suCall'[c] = x
      /\ \A d \in Su!Callers : d # c => suCall'[d] = suCall[d]
  BY DEF SuIInv, SuTypeInv
<1>2. UNCHANGED <<suNow, suIdleAt, suEnded, suHeard, suHandled, suHand>>
  BY DEF SuQuiet
<1>3. suFaults' \in Nat /\ Len(suHeard) + suFaults' <= suMaxEvents /\ suFaults <= suFaults'
  <2>1. Len(suHeard) \in Nat /\ suFaults \in Nat /\ suMaxEvents \in Nat
    BY LenProperties DEF SuIInv, SuTypeInv, Su!SupervisionAssumption
  <2>. QED BY <2>1 DEF Su!Fault, SuIInv, SuTypeInv
<1>4. SuTypeInv'
  BY <1>1, <1>2, <1>3 DEF SuIInv, SuTypeInv
<1>5. SuHeardInv'
  BY <1>2 DEF SuIInv, SuHeardInv
<1>6. SuHandInv'
  BY <1>2 DEF SuIInv, SuHandInv, Su!Due, Su!Kind, Su!Row
<1>7. SuCallInv'
  BY <1>1, <1>2 DEF SuIInv, SuCallInv
<1>8. SuSeenInv'
  <2>1. suFaults \in Nat /\ (suFaults' = 0 => suFaults = 0)
    BY <1>3 DEF SuIInv, SuTypeInv
  <2>2. Su!Told' = Su!Told
    BY <1>2 DEF Su!Told
  <2>. QED BY <1>2, <2>1, <2>2 DEF SuIInv, SuSeenInv, Su!Seen
<1>9. SuWatchInv'
  <2>1. CASE x.pc \in SuBusy
    BY <1>1, <2>1 DEF SuWatchInv
  <2>2. CASE suCrossed' \/ SuArmed'
    BY <2>2 DEF SuWatchInv
  <2>3. CASE UNCHANGED <<suUp, suStatus, suTimer, suCrossed>> /\ suCall[c].pc \notin SuBusy
    <3>1. Su!Live' <=> Su!Live
      BY <2>3 DEF Su!Live
    <3>2. SuArmed' <=> SuArmed
      BY <1>2, <2>3 DEF SuArmed, Su!Due, Su!Kind, Su!Row
    <3>3. \A d \in Su!Callers : suCall[d].pc \in SuBusy => suCall'[d].pc \in SuBusy
      BY <1>1, <2>3
    <3>. QED BY <1>2, <2>3, <3>1, <3>2, <3>3 DEF SuIInv, SuWatchInv
  <2>. QED BY <2>1, <2>2, <2>3
<1>10. Su!IdledOutWasIdle'
  BY <1>2 DEF SuIInv, Su!IdledOutWasIdle
<1>. QED BY <1>4, <1>5, <1>6, <1>7, <1>8, <1>9, <1>10 DEF SuIInv

\* A record of a caller with another place.
LEMMA SuCallIs ==
  ASSUME Su!SupervisionAssumption, SuTypeInv, NEW c \in Su!Callers
  PROVE  /\ suCall[c] \in SuCallType /\ Su!Rest \in SuCallType
         /\ [Su!Rest EXCEPT !.pc = "over"] \in SuCallType
         /\ [Su!Rest EXCEPT !.pc = "look"] \in SuCallType
         /\ [Su!Rest EXCEPT !.pc = "sending"] \in SuCallType
         /\ [pc |-> "waiting", row |-> None, upto |-> Len(suHeard)] \in SuCallType
         /\ [pc |-> "before", row |-> None, upto |-> Len(suHeard)] \in SuCallType
         /\ \A p \in {"judging", "armed"} :
              LET x == [suCall[c] EXCEPT !.pc = p, !.row = Su!Row] IN
              x \in SuCallType /\ x.pc = p /\ x.row = Su!Row /\ x.upto = suCall[c].upto
         /\ \A p \in {"retrying", "look", "completing"} :
              [suCall[c] EXCEPT !.pc = p] \in SuCallType /\ [suCall[c] EXCEPT !.pc = p].pc = p
<1>1. suMaxEvents \in Nat /\ Len(suHeard) \in Nat /\ suFaults \in Nat
  BY LenProperties DEF Su!SupervisionAssumption, SuTypeInv
<1>2. Len(suHeard) \in 0..suMaxEvents /\ 0 \in 0..suMaxEvents
  BY <1>1 DEF SuTypeInv
<1>3. suCall[c] \in SuCallType /\ Su!Row \in SuRowType
  BY SuRowIs DEF SuTypeInv
<1>. HIDE DEF SuRowType
<1>. QED BY <1>2, <1>3 DEF SuCallType, Su!Rest

LEMMA SuReadDeadlineKeeps ==
  ASSUME Su!SupervisionAssumption, SuIInv, Su!Live, NEW c \in Su!Callers, Su!ReadDeadline(c)
  PROVE  SuIInv'
<1>. DEFINE x == [suCall[c] EXCEPT !.pc = "judging", !.row = Su!Row]
<1>1. /\ x \in SuCallType /\ x.pc = "judging" /\ x.row = Su!Row /\ x.upto = suCall[c].upto
      /\ Su!Row \in SuRowType
  BY SuCallIs, SuRowIs DEF SuIInv
<1>2. suCall' = [suCall EXCEPT ![c] = x] /\ x.upto <= suHandled /\ SuQuiet
  BY <1>1 DEF Su!ReadDeadline, Su!Settled, SuQuiet
<1>3. UNCHANGED <<suUp, suConnected, suStatus, suTimer, suFaults, suCrossed>>
  BY DEF Su!ReadDeadline
<1>4. /\ suUp' \in BOOLEAN /\ suConnected' \in BOOLEAN /\ suStatus' \in SuStatuses
      /\ suTimer' \in SuTimerType
      /\ suCrossed' \in BOOLEAN
  BY <1>3 DEF SuIInv, SuTypeInv
<1>5. x.pc \in SuBusy
  BY <1>1 DEF SuBusy
<1>. HIDE DEF x
<1>. QED BY <1>1, <1>2, <1>3, <1>4, <1>5, SuCallKeeps

LEMMA SuArmMovedKeeps ==
  ASSUME Su!SupervisionAssumption, SuIInv, Su!Live, NEW c \in Su!Callers, Su!ArmMoved(c)
  PROVE  SuIInv'
<1>. DEFINE x == [Su!Rest EXCEPT !.pc = "over"]
<1>1. x \in SuCallType /\ x.pc = "over" /\ suCall' = [suCall EXCEPT ![c] = x]
  BY SuCallIs DEF SuIInv, Su!ArmMoved, Su!Over, Su!Rest
<1>2. SuQuiet /\ UNCHANGED <<suUp, suConnected, suStatus, suFaults>>
  BY DEF Su!ArmMoved, SuQuiet
<1>3. suCall[c].row \in SuRowType /\ Su!Row \in SuRowType
  BY SuRowIs DEF Su!ArmMoved, SuIInv, SuCallInv
<1>4. \/ suTimer' = Su!Due(suCall[c].row) /\ suCrossed' = (suCrossed \/ Su!Stale(suCall[c].row))
      \/ suTimer' = Su!Due(Su!Row) /\ suCrossed' = suCrossed
  BY DEF Su!ArmMoved, Su!Arm
<1>5. suTimer' \in SuTimerType /\ suCrossed' \in BOOLEAN
  BY <1>3, <1>4, SuDueIs DEF SuIInv, SuTypeInv
<1>6. ~Su!Stale(Su!Row)
  BY <1>3, SuDueIs DEF Su!Stale
<1>7. suCrossed' \/ SuArmed'
  BY <1>2, <1>3, <1>4, <1>6, SuArms DEF SuIInv, SuQuiet
<1>8. suUp' \in BOOLEAN /\ suConnected' \in BOOLEAN /\ suStatus' \in SuStatuses
  BY <1>2 DEF SuIInv, SuTypeInv
<1>. HIDE DEF x
<1>. QED BY <1>1, <1>2, <1>5, <1>7, <1>8, SuCallKeeps

LEMMA SuFireKeeps ==
  ASSUME Su!SupervisionAssumption, SuIInv, Su!Live, Su!Fire
  PROVE  SuIInv'
<1>. DEFINE x == [pc |-> "waiting", row |-> None, upto |-> Len(suHeard)]  c == "timer"
<1>1. c \in Su!Callers /\ x \in SuCallType /\ x.pc = "waiting" /\ suCall' = [suCall EXCEPT ![c] = x]
  BY SuCallIs DEF SuIInv, Su!Fire, Su!Wait, Su!Callers
<1>2. SuQuiet /\ UNCHANGED <<suUp, suConnected, suStatus, suFaults, suCrossed>> /\ suTimer' = None
  BY DEF Su!Fire, SuQuiet
<1>3. /\ suUp' \in BOOLEAN /\ suConnected' \in BOOLEAN /\ suStatus' \in SuStatuses
      /\ suCrossed' \in BOOLEAN /\ suTimer' \in SuTimerType
  BY <1>2 DEF SuIInv, SuTypeInv, SuTimerType
<1>4. x.pc \in SuBusy
  BY DEF SuBusy
<1>. HIDE DEF x, c
<1>. QED BY <1>1, <1>2, <1>3, <1>4, SuCallKeeps

LEMMA SuTimerQueryFailsKeeps ==
  ASSUME Su!SupervisionAssumption, SuIInv, Su!Live, Su!TimerQueryFails
  PROVE  SuIInv'
<1>. DEFINE c == "timer"  x == [suCall[c] EXCEPT !.pc = "retrying"]
<1>1. c \in Su!Callers
  BY DEF Su!Callers
<1>2. x \in SuCallType /\ x.pc = "retrying"
  BY <1>1, SuCallIs DEF SuIInv
<1>3. suCall' = [suCall EXCEPT ![c] = x] /\ SuQuiet /\ Su!Fault /\ UNCHANGED <<suUp, suConnected,
                                                                               suStatus, suTimer,
                                                                               suCrossed>>
  BY DEF Su!TimerQueryFails, SuQuiet
<1>4. /\ suUp' \in BOOLEAN /\ suConnected' \in BOOLEAN /\ suStatus' \in SuStatuses
      /\ suCrossed' \in BOOLEAN /\ suTimer' \in SuTimerType
  BY <1>3 DEF SuIInv, SuTypeInv
<1>5. x.pc \in SuBusy
  BY <1>2 DEF SuBusy
<1>. HIDE DEF x, c
<1>. QED BY <1>1, <1>2, <1>3, <1>4, <1>5, SuCallKeeps

LEMMA SuRetryTimerKeeps ==
  ASSUME Su!SupervisionAssumption, SuIInv, Su!Live, Su!RetryTimer
  PROVE  SuIInv'
<1>. DEFINE c == "timer"  x == [Su!Rest EXCEPT !.pc = "over"]
<1>1. c \in Su!Callers
  BY DEF Su!Callers
<1>2. x \in SuCallType /\ x.pc = "over" /\ suCall' = [suCall EXCEPT ![c] = x]
  BY <1>1, SuCallIs DEF SuIInv, Su!RetryTimer, Su!Over, Su!Rest
<1>3. SuQuiet /\ UNCHANGED <<suUp, suConnected, suStatus>>
  BY DEF Su!RetryTimer, SuQuiet
<1>4. \/ suTimer' = Su!Earlier(suNow + 1, suMaxTime) /\ UNCHANGED <<suFaults, suCrossed>>
      \/ Su!Fault /\ suCrossed' = TRUE /\ UNCHANGED suTimer
  BY DEF Su!RetryTimer
<1>5. suNow \in 0..suMaxTime /\ suMaxTime \in Nat /\ suHard \in Nat /\ None \notin Int
  BY DEF SuIInv, SuTypeInv, Su!SupervisionAssumption
<1>6. Su!Earlier(suNow + 1, suMaxTime) \in SuTimerType
  BY <1>5 DEF Su!Earlier, Su!Later, SuTimerType
<1>7. suCrossed' \/ SuArmed'
  <2>1. ASSUME suTimer' = Su!Earlier(suNow + 1, suMaxTime) PROVE SuArmed'
    <3>1. suTimer' # None /\ suTimer' <= suNow' + 1
      BY <1>3, <1>5, <2>1 DEF Su!Earlier, SuQuiet
    <3>. QED BY <3>1 DEF SuArmed
  <2>. QED BY <1>4, <2>1
<1>8. /\ suUp' \in BOOLEAN /\ suConnected' \in BOOLEAN /\ suStatus' \in SuStatuses
      /\ suCrossed' \in BOOLEAN /\ suTimer' \in SuTimerType /\ (suFaults' = suFaults \/ Su!Fault)
  BY <1>3, <1>4, <1>6 DEF SuIInv, SuTypeInv
<1>. HIDE DEF x, c
<1>. QED BY <1>1, <1>2, <1>3, <1>7, <1>8, SuCallKeeps

LEMMA SuLookKeeps ==
  ASSUME Su!SupervisionAssumption, SuIInv, Su!Live, NEW c \in Su!Callers, Su!Look(c)
  PROVE  SuIInv'
<1>. DEFINE x == [suCall[c] EXCEPT !.pc = "armed", !.row = Su!Row]
<1>1. x \in SuCallType /\ x.pc = "armed" /\ x.row \in SuRowType
  BY SuCallIs, SuRowIs DEF SuIInv
<1>2. suCall' = [suCall EXCEPT ![c] = x] /\ SuQuiet /\ UNCHANGED <<suUp, suConnected, suStatus,
                                                                   suTimer, suFaults, suCrossed>>
  BY DEF Su!Look, SuQuiet
<1>3. /\ suUp' \in BOOLEAN /\ suConnected' \in BOOLEAN /\ suStatus' \in SuStatuses
      /\ suCrossed' \in BOOLEAN /\ suTimer' \in SuTimerType
  BY <1>2 DEF SuIInv, SuTypeInv
<1>4. x.pc \in SuBusy
  BY <1>1 DEF SuBusy
<1>. HIDE DEF x
<1>. QED BY <1>1, <1>2, <1>3, <1>4, SuCallKeeps

LEMMA SuArmLookedKeeps ==
  ASSUME Su!SupervisionAssumption, SuIInv, Su!Live, NEW c \in Su!Callers, Su!ArmLooked(c)
  PROVE  SuIInv'
<1>. DEFINE r == suCall[c].row
<1>1. r \in SuRowType /\ SuQuiet /\ UNCHANGED <<suUp, suConnected, suStatus, suFaults>>
  BY DEF Su!ArmLooked, SuIInv, SuCallInv, SuQuiet
<1>2. suUp' \in BOOLEAN /\ suConnected' \in BOOLEAN /\ suStatus' \in SuStatuses
  BY <1>1 DEF SuIInv, SuTypeInv
<1>3. CASE Su!Wait(c) /\ UNCHANGED <<suTimer, suCrossed>>
  <2>. DEFINE x == [pc |-> "waiting", row |-> None, upto |-> Len(suHeard)]
  <2>1. /\ x \in SuCallType /\ x.pc = "waiting" /\ suCall' = [suCall EXCEPT ![c] = x]
        /\ x.pc \in SuBusy
    BY <1>3, SuCallIs DEF SuIInv, Su!Wait, SuBusy
  <2>2. suTimer' \in SuTimerType /\ suCrossed' \in BOOLEAN
    BY <1>3 DEF SuIInv, SuTypeInv
  <2>. HIDE DEF x
  <2>. QED BY <1>1, <1>2, <2>1, <2>2, SuCallKeeps
<1>4. CASE Su!Arm(r) /\ suCrossed' = (suCrossed \/ Su!Stale(r)) /\ Su!Over(c)
  <2>. DEFINE x == [Su!Rest EXCEPT !.pc = "over"]
  <2>1. x \in SuCallType /\ x.pc = "over" /\ suCall' = [suCall EXCEPT ![c] = x]
    BY <1>4, SuCallIs DEF SuIInv, Su!Over, Su!Rest
  <2>2. suTimer' = Su!Due(r) /\ suTimer' \in SuTimerType /\ suCrossed' \in BOOLEAN
    BY <1>1, <1>4, SuDueIs DEF Su!Arm, SuIInv, SuTypeInv
  <2>3. suCrossed' \/ SuArmed'
    BY <1>1, <1>4, <2>2, SuArms DEF SuIInv, SuQuiet
  <2>. HIDE DEF x
  <2>. QED BY <1>1, <1>2, <2>1, <2>2, <2>3, SuCallKeeps
<1>. QED BY <1>3, <1>4 DEF Su!ArmLooked

LEMMA SuSentKeeps ==
  ASSUME Su!SupervisionAssumption, SuIInv, Su!Live, Su!Sent
  PROVE  SuIInv'
<1>. DEFINE c == "dispatch"  x == [Su!Rest EXCEPT !.pc = "look"]
<1>1. c \in Su!Callers
  BY DEF Su!Callers
<1>2. x \in SuCallType /\ x.pc = "look" /\ suCall' = [suCall EXCEPT ![c] = x] /\ x.pc \in SuBusy
  BY <1>1, SuCallIs DEF SuIInv, Su!Sent, Su!Rest, SuBusy
<1>3. SuQuiet /\ UNCHANGED <<suUp, suConnected, suTimer, suFaults, suCrossed>>
  BY DEF Su!Sent, SuQuiet
<1>4. /\ suUp' \in BOOLEAN /\ suConnected' \in BOOLEAN /\ suStatus' \in SuStatuses
      /\ suCrossed' \in BOOLEAN /\ suTimer' \in SuTimerType
  BY <1>3 DEF SuIInv, SuTypeInv, Su!Sent, SuStatuses
<1>. HIDE DEF x, c
<1>. QED BY <1>1, <1>2, <1>3, <1>4, SuCallKeeps

LEMMA SuFinishKeeps ==
  ASSUME Su!SupervisionAssumption, SuIInv, Su!Live, Su!Finish
  PROVE  SuIInv'
<1>. DEFINE c == "finish"  x == [pc |-> "before", row |-> None, upto |-> Len(suHeard)]
<1>1. c \in Su!Callers
  BY DEF Su!Callers
<1>2. /\ x \in SuCallType /\ x.pc = "before" /\ suCall' = [suCall EXCEPT ![c] = x]
      /\ suCall[c].pc \notin SuBusy
  BY <1>1, SuCallIs DEF SuIInv, Su!Finish, SuBusy
<1>3. SuQuiet /\ UNCHANGED <<suUp, suConnected, suStatus, suTimer, suFaults, suCrossed>>
  BY DEF Su!Finish, SuQuiet
<1>4. /\ suUp' \in BOOLEAN /\ suConnected' \in BOOLEAN /\ suStatus' \in SuStatuses
      /\ suCrossed' \in BOOLEAN /\ suTimer' \in SuTimerType
  BY <1>3 DEF SuIInv, SuTypeInv
<1>. HIDE DEF x, c
<1>. QED BY <1>1, <1>2, <1>3, <1>4, SuCallKeeps

LEMMA SuReadFinishKeeps ==
  ASSUME Su!SupervisionAssumption, SuIInv, Su!Live, Su!ReadFinish
  PROVE  SuIInv'
<1>. DEFINE c == "finish"
<1>1. c \in Su!Callers
  BY DEF Su!Callers
<1>2. SuQuiet /\ UNCHANGED <<suUp, suConnected, suStatus, suFaults, suCrossed>>
  BY DEF Su!ReadFinish, SuQuiet
<1>3. suTimer' \in SuTimerType
  BY DEF Su!ReadFinish, SuIInv, SuTypeInv, SuTimerType
<1>4. \E x \in SuCallType : x.pc \in {"waiting", "completing"} /\ suCall' = [suCall EXCEPT ![c] = x]
  <2>1. CASE Su!Wait(c)
    BY <1>1, <2>1, SuCallIs DEF SuIInv, Su!Wait
  <2>2. CASE suCall' = [suCall EXCEPT ![c].pc = "completing"]
    <3>1. [suCall[c] EXCEPT !.pc = "completing"] \in SuCallType
      BY <1>1, SuCallIs DEF SuIInv
    <3>2. [suCall[c] EXCEPT !.pc = "completing"].pc = "completing"
      BY <1>1 DEF SuIInv, SuTypeInv, SuCallType
    <3>. QED BY <2>2, <3>1, <3>2
  <2>. QED BY <2>1, <2>2 DEF Su!ReadFinish
<1>5. PICK x \in SuCallType : x.pc \in {"waiting", "completing"} /\ suCall' = [suCall EXCEPT ![c] = x]
  BY <1>4
<1>6. x.pc \in SuBusy /\ x.pc \notin {"judging", "armed"}
  BY <1>5 DEF SuBusy
<1>7. /\ suUp' \in BOOLEAN /\ suConnected' \in BOOLEAN /\ suStatus' \in SuStatuses
      /\ suCrossed' \in BOOLEAN
  BY <1>2 DEF SuIInv, SuTypeInv
<1>. HIDE DEF c
<1>. QED BY <1>1, <1>2, <1>3, <1>5, <1>6, <1>7, SuCallKeeps

LEMMA SuFinishFailsKeeps ==
  ASSUME Su!SupervisionAssumption, SuIInv, Su!Live, Su!FinishFails
  PROVE  SuIInv'
<1>. DEFINE c == "finish"  x == [Su!Rest EXCEPT !.pc = "over"]
<1>1. c \in Su!Callers
  BY DEF Su!Callers
<1>2. x \in SuCallType /\ x.pc = "over" /\ suCall' = [suCall EXCEPT ![c] = x]
  BY <1>1, SuCallIs DEF SuIInv, Su!FinishFails, Su!Over, Su!Rest
<1>3. SuQuiet /\ UNCHANGED <<suUp, suConnected, suStatus, suTimer>> /\ Su!Fault /\ suCrossed' = TRUE
  BY DEF Su!FinishFails, SuQuiet
<1>4. /\ suUp' \in BOOLEAN /\ suConnected' \in BOOLEAN /\ suStatus' \in SuStatuses
      /\ suCrossed' \in BOOLEAN /\ suTimer' \in SuTimerType
  BY <1>3 DEF SuIInv, SuTypeInv
<1>. HIDE DEF x, c
<1>. QED BY <1>1, <1>2, <1>3, <1>4, SuCallKeeps

LEMMA SuStartKeeps ==
  ASSUME Su!SupervisionAssumption, SuIInv, Su!Live, Su!Start
  PROVE  SuIInv'
<1>. DEFINE c == "start"  x == [suCall[c] EXCEPT !.pc = "look"]
<1>1. c \in Su!Callers
  BY DEF Su!Callers
<1>2. x \in SuCallType /\ x.pc = "look" /\ suCall' = [suCall EXCEPT ![c] = x] /\ x.pc \in SuBusy
  BY <1>1, SuCallIs DEF SuIInv, Su!Start, SuBusy
<1>3. SuQuiet /\ UNCHANGED <<suConnected, suStatus, suTimer, suFaults, suCrossed>> /\ suUp' = TRUE
  BY DEF Su!Start, SuQuiet
<1>4. /\ suUp' \in BOOLEAN /\ suConnected' \in BOOLEAN /\ suStatus' \in SuStatuses
      /\ suCrossed' \in BOOLEAN /\ suTimer' \in SuTimerType
  BY <1>3 DEF SuIInv, SuTypeInv
<1>. HIDE DEF x, c
<1>. QED BY <1>1, <1>2, <1>3, <1>4, SuCallKeeps

LEMMA SuReconnectKeeps ==
  ASSUME Su!SupervisionAssumption, SuIInv, Su!Live, Su!Reconnect
  PROVE  SuIInv'
<1>. DEFINE c == "dispatch"
<1>1. c \in Su!Callers
  BY DEF Su!Callers
<1>2. SuQuiet /\ UNCHANGED <<suUp, suStatus, suTimer, suFaults, suCrossed>> /\ suConnected' = TRUE
  BY DEF Su!Reconnect, SuQuiet
<1>3. /\ suUp' \in BOOLEAN /\ suConnected' \in BOOLEAN /\ suStatus' \in SuStatuses
      /\ suCrossed' \in BOOLEAN /\ suTimer' \in SuTimerType
  BY <1>2 DEF SuIInv, SuTypeInv
<1>4. CASE suCall[c].pc \in {"rest", "over"}
  <2>. DEFINE x == [Su!Rest EXCEPT !.pc = "sending"]
  <2>1. /\ x \in SuCallType /\ x.pc = "sending" /\ suCall' = [suCall EXCEPT ![c] = x]
        /\ suCall[c].pc \notin SuBusy
    BY <1>1, <1>4, SuCallIs DEF SuIInv, Su!Reconnect, Su!Rest, SuBusy
  <2>. HIDE DEF x, c
  <2>. QED BY <1>1, <1>2, <1>3, <2>1, SuCallKeeps
<1>5. CASE suCall[c].pc \notin {"rest", "over"}
  <2>1. UNCHANGED <<suNow, suUp, suStatus, suIdleAt, suEnded, suHeard, suHandled, suHand,
                    suTimer, suCall, suFaults, suCrossed>>
    BY <1>2, <1>5 DEF Su!Reconnect, SuQuiet
  <2>2. Su!Told' = Su!Told
    BY <2>1 DEF Su!Told
  <2>. QED BY <1>3, <2>1, <2>2
     DEF SuIInv, SuTypeInv, SuHeardInv, SuHandInv, SuCallInv, SuSeenInv, SuWatchInv,
                                 Su!IdledOutWasIdle, Su!Live, Su!Seen, SuArmed, Su!Due, Su!Kind, Su!Row
<1>. QED BY <1>4, <1>5

-----------------------------------------------------------------------------
(* The events *)

LEMMA SuReceiveKeeps ==
  ASSUME Su!SupervisionAssumption, SuIInv, Su!Live, NEW kind \in SuKinds, Su!Receive(kind)
  PROVE  SuIInv'
<1>. DEFINE e == [kind |-> kind, at |-> suNow]
<1>1. suHeard' = Append(suHeard, e) /\ Len(suHeard) + suFaults < suMaxEvents
  BY DEF Su!Receive
<1>2. UNCHANGED <<suNow, suUp, suConnected, suStatus, suIdleAt, suEnded, suHandled, suHand,
                  suTimer, suCall, suFaults, suCrossed>>
  BY DEF Su!Receive
<1>3. /\ suNow \in Nat /\ suMaxEvents \in Nat /\ suFaults \in Nat /\ Len(suHeard) \in Nat
      /\ suHeard \in Seq([kind : SuKinds, at : Nat]) /\ suHandled \in 0..Len(suHeard)
  BY LenProperties DEF SuIInv, SuTypeInv, Su!SupervisionAssumption
<1>4. e \in [kind : SuKinds, at : Nat] /\ e.at = suNow
  BY <1>3
<1>. HIDE DEF e
<1>5. /\ suHeard' \in Seq([kind : SuKinds, at : Nat]) /\ Len(suHeard') = Len(suHeard) + 1
      /\ \A k \in 1..Len(suHeard) : suHeard'[k] = suHeard[k]
      /\ suHeard'[Len(suHeard) + 1] = e
  BY <1>1, <1>3, <1>4
<1>6. SuTypeInv'
  <2>1. suHandled' \in 0..Len(suHeard') /\ Len(suHeard') + suFaults' <= suMaxEvents
    BY <1>1, <1>2, <1>3, <1>5
  <2>. QED BY <1>2, <1>5, <2>1 DEF SuIInv, SuTypeInv
<1>7. SuHeardInv'
  <2>1. \A k \in 1..Len(suHeard') : k \in 1..Len(suHeard) \/ k = Len(suHeard) + 1
    BY <1>3, <1>5
  <2>2. /\ \A k \in 1..Len(suHeard) : suHeard[k].at <= suNow
        /\ \A j, k \in 1..Len(suHeard) : j <= k => suHeard[j].at <= suHeard[k].at
    BY DEF SuIInv, SuHeardInv
  <2>3. \A k \in 1..Len(suHeard') : suHeard'[k].at <= suNow
    BY <1>3, <1>4, <1>5, <2>1, <2>2
  <2>4. ASSUME NEW j \in 1..Len(suHeard'), NEW k \in 1..Len(suHeard'), j <= k
        PROVE  suHeard'[j].at <= suHeard'[k].at
    <3>1. CASE k = Len(suHeard) + 1
      BY <1>4, <1>5, <2>3, <3>1
    <3>2. CASE k \in 1..Len(suHeard)
      <4>1. j \in 1..Len(suHeard)
        BY <1>3, <1>5, <2>4, <3>2
      <4>. QED BY <1>5, <2>2, <2>4, <3>2, <4>1
    <3>. QED BY <2>1, <3>1, <3>2
  <2>. QED BY <1>2, <2>3, <2>4 DEF SuHeardInv
<1>8. SuHandInv'
  <2>1. suHandled < Len(suHeard) => suHandled < Len(suHeard')
    BY <1>3, <1>5
  <2>. QED BY <1>2, <2>1 DEF SuIInv, SuHandInv, Su!Due, Su!Kind, Su!Row
<1>9. SuCallInv' /\ SuWatchInv' /\ Su!IdledOutWasIdle'
  BY <1>2 DEF SuIInv, SuCallInv, SuWatchInv, Su!IdledOutWasIdle, Su!Live, SuArmed, Su!Due,
     Su!Kind, Su!Row
<1>10. SuSeenInv'
  <2>1. Su!Seen \in 0..Len(suHeard)
    BY <1>3 DEF SuIInv, SuTypeInv, SuHandType, SuHandInv, Su!Seen
  <2>2. Su!Told'[Su!Seen] = Su!Told[Su!Seen]
    <3>1. Len(suHeard) + 1 <= suMaxEvents
      BY <1>1, <1>3
    <3>. QED BY <1>1, <1>3, <1>4, <2>1, <3>1, SuToldKept
  <2>3. Su!Seen' = Su!Seen /\ (Su!Live' <=> Su!Live)
    BY <1>2 DEF Su!Seen, Su!Live
  <2>. QED BY <1>2, <2>2, <2>3 DEF SuIInv, SuSeenInv
<1>. QED BY <1>6, <1>7, <1>8, <1>9, <1>10 DEF SuIInv

\* A step of the handler: the row follows the events that are seen, and has its timer.
LEMMA SuHandKeeps ==
  ASSUME Su!SupervisionAssumption, SuIInv, Su!Live, UNCHANGED <<suNow, suUp, suConnected,
         suEnded, suHeard, suCall, suFaults, suCrossed>>,
         suStatus' \in {"spawning", "running"}, suIdleAt' \in 0..suHard \cup {None}, suTimer' \in SuTimerType,
         suHand' \in SuHandType, suHandled' \in 0..Len(suHeard), suHandled <= suHandled', SuHandInv',
         suFaults = 0 => suIdleAt' = Su!Told[Su!Seen'],
         SuArmed' \/ suHand'.pc # "rest" \/ (UNCHANGED <<suIdleAt, suTimer>> /\ suHand.pc = "rest")
  PROVE  SuIInv'
<1>1. SuTypeInv'
  BY DEF SuIInv, SuTypeInv, SuStatuses
<1>2. SuHeardInv' /\ Su!IdledOutWasIdle'
  BY DEF SuIInv, SuHeardInv, Su!IdledOutWasIdle
<1>3. SuCallInv'
  <2>1. suHandled \in Nat /\ suHandled' \in Nat /\ \A c \in Su!Callers : suCall[c].upto \in Nat
    BY LenProperties DEF SuIInv, SuTypeInv, SuCallType
  <2>. QED BY <2>1 DEF SuIInv, SuCallInv
<1>4. SuSeenInv'
  <2>1. Su!Told' = Su!Told
    BY DEF Su!Told
  <2>. QED BY <2>1 DEF SuSeenInv
<1>5. SuWatchInv'
  <2>1. CASE SuArmed' \/ suHand'.pc # "rest"
    BY <2>1 DEF SuWatchInv
  <2>2. CASE UNCHANGED <<suIdleAt, suTimer>> /\ suHand.pc = "rest"
    <3>1. SuArmed' <=> SuArmed
      BY <2>2 DEF SuArmed, Su!Due, Su!Kind, Su!Row
    <3>. QED BY <2>2, <3>1 DEF SuIInv, SuWatchInv
  <2>. QED BY <2>1, <2>2
<1>. QED BY <1>1, <1>2, <1>3, <1>4, <1>5 DEF SuIInv

\* What the next event says of the deadline the row has.
LEMMA SuNextEvent ==
  ASSUME Su!SupervisionAssumption, SuIInv, Su!Live, suHand.pc = "rest", suHandled < Len(suHeard)
  PROVE  /\ Su!Event \in [kind : SuKinds, at : Nat] /\ Su!Event.at <= suNow
         /\ suHandled + 1 \in 0..Len(suHeard) /\ Su!Seen = suHandled
         /\ suFaults = 0 => Su!Told[suHandled + 1] = Su!Follow(suIdleAt, Su!Event)
<1>1. /\ suHeard \in Seq([kind : SuKinds, at : Nat]) /\ Len(suHeard) \in Nat /\ suHandled \in 0..Len(suHeard)
      /\ suFaults \in Nat /\ Len(suHeard) + suFaults <= suMaxEvents /\ suMaxEvents \in Nat
  BY LenProperties DEF SuIInv, SuTypeInv, Su!SupervisionAssumption
<1>2. suHandled + 1 \in 1..Len(suHeard) /\ (suHandled + 1) - 1 = suHandled
  BY <1>1
<1>3. Su!Event \in [kind : SuKinds, at : Nat]
  BY <1>1, <1>2, ElementOfSeq DEF Su!Event
<1>4. Su!Event.at <= suNow
  BY <1>2 DEF SuIInv, SuHeardInv, Su!Event
<1>5. Su!Seen = suHandled
  BY <1>1 DEF SuIInv, SuHandInv, Su!Seen
<1>6. ASSUME suFaults = 0 PROVE Su!Told[suHandled + 1] = Su!Follow(suIdleAt, Su!Event)
  <2>1. Len(suHeard) \in 0..suMaxEvents
    BY <1>1
  <2>2. Su!Told[suHandled + 1] = Su!Follow(Su!Told[(suHandled + 1) - 1], suHeard[suHandled + 1])
    BY <1>2, <2>1, SuTelling, SuFollow1
  <2>3. suIdleAt = Su!Told[suHandled]
    BY <1>5, <1>6 DEF SuIInv, SuSeenInv
  <2>. QED BY <1>2, <2>2, <2>3 DEF Su!Event
<1>. QED BY <1>2, <1>3, <1>4, <1>5, <1>6

LEMMA SuHandleEventKeeps ==
  ASSUME Su!SupervisionAssumption, SuIInv, Su!Live, Su!HandleEvent
  PROVE  SuIInv'
<1>1. /\ UNCHANGED <<suNow, suUp, suConnected, suEnded, suHeard, suCall, suFaults, suCrossed>>
      /\ suHand.pc = "rest" /\ suHandled < Len(suHeard)
  BY DEF Su!HandleEvent
<1>2. /\ Su!Event \in [kind : SuKinds, at : Nat] /\ Su!Event.at <= suNow
      /\ suHandled + 1 \in 0..Len(suHeard) /\ Su!Seen = suHandled
      /\ suFaults = 0 => Su!Told[suHandled + 1] = Su!Follow(suIdleAt, Su!Event)
  BY <1>1, SuNextEvent
<1>3. /\ suHand \in SuHandType /\ suHand.upto = 0 /\ Su!Event.at \in Nat /\ suNow \in Nat
      /\ suHard \in Nat \ {0}
      /\ suIdle \in Nat \ {0} /\ None \notin Int /\ suHandled \in 0..Len(suHeard)
      /\ suIdleAt \in 0..suHard \cup {None} /\ Len(suHeard) \in Nat
  BY <1>1, <1>2, LenProperties DEF SuIInv, SuTypeInv, SuHandInv, Su!SupervisionAssumption
<1>4. Su!Rest \in SuHandType /\ Su!Rest.pc = "rest" /\ Su!Rest.upto = 0
  BY DEF SuHandType, Su!Rest
<1>5. suStatus \in {"spawning", "running"} /\ suTimer \in SuTimerType
  BY DEF Su!Live, SuIInv, SuTypeInv
<1>6. CASE Su!Overran /\ suHand' = [suHand EXCEPT !.pc = "reading"] /\ UNCHANGED <<suHandled,
                                                                                   suStatus,
                                                                                   suIdleAt,
                                                                                   suTimer>>
  <2>1. suHand' \in SuHandType /\ suHand'.pc = "reading" /\ suHand'.upto = 0
    BY <1>3, <1>6 DEF SuHandType
  <2>2. Su!Due(Su!Row) <= suNow
    BY <1>2, <1>3, <1>6 DEF Su!Overran, Su!Due, Su!Kind, Su!Row
  <2>3. Su!Due(Su!Row)' = Su!Due(Su!Row)
    BY <1>1, <1>6 DEF Su!Due, Su!Kind, Su!Row
  <2>4. SuHandInv'
    BY <1>1, <1>6, <2>1, <2>2, <2>3 DEF SuHandInv
  <2>5. Su!Seen' = Su!Seen
    BY <1>3, <1>6, <2>1 DEF Su!Seen
  <2>. QED BY <1>1, <1>3, <1>5, <1>6, <2>1, <2>4, <2>5, SuHandKeeps DEF SuIInv, SuSeenInv
<1>7. CASE /\ ~Su!Overran /\ Su!Event.kind = "activity" /\ suIdleAt = None /\ Su!Done
           /\ UNCHANGED <<suStatus, suIdleAt, suTimer>>
  <2>1. suHand' = Su!Rest /\ suHandled' = suHandled + 1
    BY <1>7 DEF Su!Done
  <2>2. suFaults = 0 => suIdleAt' = Su!Told[suHandled + 1]
    BY <1>2, <1>3, <1>7 DEF Su!Follow
  <2>3. Su!Seen' = suHandled + 1 /\ SuHandInv'
    BY <1>3, <1>4, <2>1 DEF Su!Seen, SuHandInv
  <2>. QED BY <1>1, <1>2, <1>3, <1>4, <1>5, <1>7, <2>1, <2>2, <2>3, SuHandKeeps
<1>8. CASE /\ ~Su!Overran /\ (Su!Event.kind = "activity" => suIdleAt # None)
           /\ suStatus' = IF Su!Event.kind # "activity" THEN "running" ELSE suStatus
           /\ suIdleAt' = IF Su!MaySet THEN Su!NewIdle ELSE suIdleAt
           /\ Su!ArmOrExpire([status |-> suStatus', idle |-> suIdleAt'])
  <2>. DEFINE r == [status |-> suStatus', idle |-> suIdleAt']
  <2>1. Su!Refreshed \in 0..suHard
    BY <1>3 DEF Su!Refreshed, Su!Earlier
  <2>2. Su!MaySet
    BY <1>3, <1>8 DEF Su!MaySet, Su!Overran
  <2>3. suIdleAt' = Su!NewIdle /\ suIdleAt' \in 0..suHard \cup {None}
    BY <1>8, <2>1, <2>2 DEF Su!NewIdle
  <2>4. Su!NewIdle = Su!Follow(suIdleAt, Su!Event)
    BY <1>3, <1>8 DEF Su!NewIdle, Su!Refreshed, Su!Follow, Su!Overran
  <2>5. suStatus' \in {"spawning", "running"}
    BY <1>5, <1>8
  <2>6. r \in SuRowType
    BY <2>3, <2>5 DEF SuRowType, SuStatuses
  <2>7. Su!Due(Su!Row)' = Su!Due(r)
    BY DEF Su!Row, Su!Due, Su!Kind
  <2>. HIDE DEF r
  <2>8. Su!Due(r) \in SuTimerType /\ Su!Due(r) \in Nat
    BY <2>6, SuDueIs, <1>3
  <2>9. CASE Su!Due(r) <= suNow
    <3>1. /\ suHand' = [suHand EXCEPT !.pc = "reading", !.upto = 1] /\ suHandled' = suHandled
          /\ suTimer' = suTimer
      BY <1>8, <2>9 DEF Su!ArmOrExpire, r
    <3>2. suHand' \in SuHandType /\ suHand'.pc = "reading" /\ suHand'.upto = 1
      BY <1>3, <3>1 DEF SuHandType
    <3>3. SuHandInv'
      BY <1>1, <2>7, <2>9, <3>1, <3>2 DEF SuHandInv
    <3>4. Su!Seen' = suHandled + 1
      BY <3>1, <3>2 DEF Su!Seen
    <3>. QED BY <1>1, <1>2, <1>3, <1>5, <2>3, <2>4, <2>5, <3>1, <3>2, <3>3, <3>4, SuHandKeeps
  <2>10. CASE ~(Su!Due(r) <= suNow)
    <3>1. suHand' = Su!Rest /\ suHandled' = suHandled + 1 /\ suTimer' = Su!Due(r)
      BY <1>8, <2>10 DEF Su!ArmOrExpire, Su!Done, Su!Arm, r
    <3>2. Su!Seen' = suHandled + 1 /\ SuHandInv'
      BY <1>3, <1>4, <3>1 DEF Su!Seen, SuHandInv
    <3>3. SuArmed'
      BY <1>3, <2>7, <2>8, <3>1 DEF SuArmed
    <3>. QED BY <1>1, <1>2, <1>3, <1>4, <2>3, <2>4, <2>5, <2>8, <3>1, <3>2, <3>3, SuHandKeeps
  <2>. QED BY <2>9, <2>10
<1>. QED BY <1>6, <1>7, <1>8 DEF Su!HandleEvent

LEMMA SuReadByEventKeeps ==
  ASSUME Su!SupervisionAssumption, SuIInv, Su!Live, Su!ReadByEvent
  PROVE  SuIInv'
<1>1. /\ UNCHANGED <<suNow, suUp, suConnected, suStatus, suIdleAt, suEnded, suHeard, suHandled,
                     suTimer, suCall, suFaults, suCrossed>>
      /\ suHand.pc = "reading" /\ suHand' = [suHand EXCEPT !.pc = "judging", !.row = Su!Row]
  BY DEF Su!ReadByEvent
<1>2. Su!Row \in SuRowType /\ Su!Row.idle = suIdleAt /\ suHand \in SuHandType /\ None \notin Int
  BY SuRowIs DEF SuIInv, SuTypeInv, Su!SupervisionAssumption
<1>3. /\ suHand' \in SuHandType /\ suHand'.pc = "judging" /\ suHand'.row = Su!Row
      /\ suHand'.upto = suHand.upto
  <2>. HIDE DEF SuRowType
  <2>1. Su!Row \in SuRowType /\ suHand \in SuHandType
    BY <1>2
  <2>. HIDE DEF Su!Row
  <2>. QED BY <1>1, <2>1 DEF SuHandType
<1>4. SuHandInv'
  <2>1. suHandled < Len(suHeard) /\ Su!Due(Su!Row) <= suNow
    BY <1>1 DEF SuIInv, SuHandInv
  <2>2. Su!Due(Su!Row)' = Su!Due(Su!Row)
    BY <1>1 DEF Su!Due, Su!Kind, Su!Row
  <2>. QED BY <1>1, <1>2, <1>3, <2>1, <2>2 DEF SuHandInv
<1>5. Su!Seen' = Su!Seen
  BY <1>1, <1>3 DEF Su!Seen
<1>6. /\ suStatus' \in {"spawning", "running"} /\ suIdleAt' \in 0..suHard \cup {None}
      /\ suTimer' \in SuTimerType
      /\ suHandled' \in 0..Len(suHeard) /\ suHandled <= suHandled'
  <2>1. suHandled \in 0..Len(suHeard) /\ Len(suHeard) \in Nat
    BY LenProperties DEF SuIInv, SuTypeInv
  <2>. QED BY <1>1, <2>1 DEF SuIInv, SuTypeInv, Su!Live
<1>7. suFaults = 0 => suIdleAt' = Su!Told[Su!Seen']
  BY <1>1, <1>5 DEF SuIInv, SuSeenInv
<1>. QED BY <1>1, <1>3, <1>4, <1>6, <1>7, SuHandKeeps

\* The row has the deadline that has passed, so there is nothing to arm the timer for.
LEMMA SuNeverArmedByEvent ==
  ASSUME Su!SupervisionAssumption, SuIInv
  PROVE  ~Su!ArmByEvent
<1>1. SUFFICES ASSUME suHand.pc = "judging" PROVE Su!Due(suHand.row) <= suNow /\ Su!StillDue(suHand.row)
  <2>1. suHand.pc = "judging" => suHand.row \in SuRowType /\ suNow \in Nat
    BY DEF SuIInv, SuHandInv, SuTypeInv
  <2>2. suHand.pc = "judging" => Su!Due(suHand.row) \in Nat
    BY <2>1, SuDueIs
  <2>. QED BY <1>1, <2>1, <2>2 DEF Su!ArmByEvent
<1>2. suHand.row.idle = suIdleAt /\ Su!Due(Su!Row) <= suNow
  BY <1>1 DEF SuIInv, SuHandInv
<1>3. Su!Due(suHand.row) = Su!Due(Su!Row)
  BY <1>2 DEF Su!Due, Su!Kind, Su!Row
<1>. QED BY <1>2, <1>3 DEF Su!StillDue

-----------------------------------------------------------------------------
(* The end of an execution, and of a process *)

\* Nobody follows an execution that is over, or one whose process has gone.
LEMMA SuEmptied ==
  ASSUME Su!SupervisionAssumption, SuIInv,
         suHeard' = <<>>, suHandled' = 0, suHand' = Su!Rest, suTimer' = None, suCall' = [c \in Su!Callers |-> Su!Rest],
         suNow' = suNow, suUp' \in BOOLEAN, suConnected' \in BOOLEAN, suCrossed' \in BOOLEAN, suStatus' \in SuStatuses,
         suIdleAt' \in 0..suHard \cup {None}, suFaults' \in 0..suMaxEvents,
         Su!Live' => ~suUp' /\ suFaults' # 0,
         Su!IdledOutWasIdle'
  PROVE  SuIInv'
<1>1. suMaxEvents \in Nat /\ None \notin Int
  BY DEF Su!SupervisionAssumption
<1>2. suHeard' \in Seq([kind : SuKinds, at : Nat]) /\ Len(suHeard') = 0
  BY EmptySeq
<1>3. suHand' \in SuHandType /\ suHand'.pc = "rest" /\ suHand'.upto = 0
  BY DEF SuHandType, Su!Rest
<1>4. suCall' \in [Su!Callers -> SuCallType] /\ \A c \in Su!Callers : suCall'[c].pc = "rest"
  BY <1>1 DEF SuCallType, Su!Rest
<1>5. SuTypeInv'
  <2>1. /\ suHandled' \in 0..Len(suHeard') /\ suFaults' \in Nat
        /\ Len(suHeard') + suFaults' <= suMaxEvents
    <3>1. Len(suHeard') = 0 /\ suFaults' \in Nat /\ suFaults' <= suMaxEvents
      BY <1>1, <1>2
    <3>2. ASSUME NEW l, l = 0, NEW f \in Nat, f <= suMaxEvents PROVE 0 \in 0..l /\ l + f <= suMaxEvents
      BY <1>1, <3>2
    <3>. QED BY <3>1, <3>2
  <2>. QED BY <1>2, <1>3, <1>4, <2>1 DEF SuIInv, SuTypeInv, SuTimerType
<1>6. SuHeardInv' /\ SuHandInv' /\ SuCallInv'
  BY <1>2, <1>3, <1>4 DEF SuHeardInv, SuHandInv, SuCallInv
<1>7. SuSeenInv' /\ SuWatchInv'
  BY DEF SuSeenInv, SuWatchInv
<1>. QED BY <1>5, <1>6, <1>7 DEF SuIInv

LEMMA SuEndKeeps ==
  ASSUME Su!SupervisionAssumption, SuIInv, NEW s \in {"succeeded", "failed"}, Su!End(s),
         Su!IdledOutWasIdle'
  PROVE  SuIInv'
<1>1. /\ suHeard' = <<>> /\ suHandled' = 0 /\ suHand' = Su!Rest /\ suTimer' = None
      /\ suCall' = [c \in Su!Callers |-> Su!Rest]
      /\ UNCHANGED <<suNow, suUp, suConnected, suFaults, suCrossed>> /\ suStatus' = s
      /\ suIdleAt' = None
  BY DEF Su!End
<1>2. suFaults' \in 0..suMaxEvents
  <2>1. /\ suFaults \in Nat /\ Len(suHeard) \in Nat /\ suMaxEvents \in Nat
        /\ Len(suHeard) + suFaults <= suMaxEvents
    BY LenProperties DEF SuIInv, SuTypeInv, Su!SupervisionAssumption
  <2>. QED BY <1>1, <2>1
<1>3. ~Su!Live' /\ suStatus' \in SuStatuses
  BY <1>1 DEF Su!Live, SuStatuses
<1>. QED BY <1>1, <1>2, <1>3, SuEmptied DEF SuIInv, SuTypeInv

\* An execution that fails as idle fails at the deadline that the events say, which those
\* say too that count.
LEMMA SuExpireKeeps ==
  ASSUME Su!SupervisionAssumption, SuIInv, Su!Live, NEW r \in SuRowType, Su!Expire(r, Su!Seen)
  PROVE  SuIInv'
<1>1. /\ Su!End("failed") /\ Su!Due(r) <= suNow /\ (Su!Kind(r) = "idle" => suIdleAt = r.idle)
      /\ suEnded' = IF Su!Kind(r) = "idle" /\ suFaults = 0
                  THEN [due |-> Su!Due(r), told |-> Su!Told[Su!Counted(Su!Seen, Su!Due(r))]] ELSE None
  BY DEF Su!Expire, Su!StillDue
<1>2. Su!Seen \in 0..Len(suHeard) /\ Len(suHeard) <= suMaxEvents
  <2>1. /\ suHeard \in Seq([kind : SuKinds, at : Nat]) /\ Len(suHeard) \in Nat /\ suHandled \in 0..Len(suHeard)
        /\ suFaults \in Nat /\ suMaxEvents \in Nat /\ Len(suHeard) + suFaults <= suMaxEvents
        /\ suHand.upto \in {0, 1}
    BY LenProperties DEF SuIInv, SuTypeInv, SuHandType, Su!SupervisionAssumption
  <2>2. suHand.upto = 1 => suHandled < Len(suHeard)
    BY DEF SuIInv, SuHandInv
  <2>. QED BY <2>1, <2>2 DEF Su!Seen
<1>3. Su!IdledOutWasIdle'
  <2>1. CASE Su!Kind(r) = "idle" /\ suFaults = 0
    <3>1. Su!Due(r) \in Nat /\ Su!Due(r) < suHard /\ suIdleAt = Su!Due(r)
      BY <1>1, <2>1, SuDueIs
    <3>2. Su!Told[Su!Seen] = Su!Due(r)
      BY <2>1, <3>1 DEF SuIInv, SuSeenInv
    <3>3. Su!Told[Su!Counted(Su!Seen, Su!Due(r))] = Su!Due(r)
      BY <1>2, <3>1, <3>2, SuBeforeDeadline DEF SuIInv, SuTypeInv
    <3>. QED BY <1>1, <2>1, <3>3 DEF Su!IdledOutWasIdle
  <2>2. CASE ~(Su!Kind(r) = "idle" /\ suFaults = 0)
    BY <1>1, <2>2 DEF Su!IdledOutWasIdle
  <2>. QED BY <2>1, <2>2
<1>. QED BY <1>1, <1>3, SuEndKeeps

LEMMA SuExpireAtDeadlineKeeps ==
  ASSUME Su!SupervisionAssumption, SuIInv, Su!Live, NEW c \in Su!Callers, Su!ExpireAtDeadline(c)
  PROVE  SuIInv'
<1>1. suCall[c].row \in SuRowType /\ suCall[c].upto <= suHandled
  BY DEF Su!ExpireAtDeadline, SuIInv, SuCallInv
<1>2. Su!Later(suCall[c].upto, Su!Seen) = Su!Seen
  <2>1. suCall[c].upto \in Nat /\ suHandled \in Nat /\ suHand.upto \in {0, 1}
    BY LenProperties DEF SuIInv, SuTypeInv, SuCallType, SuHandType
  <2>. QED BY <1>1, <2>1 DEF Su!Later, Su!Seen
<1>3. Su!Expire(suCall[c].row, Su!Seen)
  BY <1>2 DEF Su!ExpireAtDeadline
<1>. QED BY <1>1, <1>3, SuExpireKeeps

LEMMA SuExpireByEventKeeps ==
  ASSUME Su!SupervisionAssumption, SuIInv, Su!Live, Su!ExpireByEvent
  PROVE  SuIInv'
<1>1. suHand.row \in SuRowType /\ Su!Expire(suHand.row, Su!Seen)
  BY DEF Su!ExpireByEvent, SuIInv, SuHandInv
<1>. QED BY <1>1, SuExpireKeeps

LEMMA SuEndedKeeps ==
  ASSUME Su!SupervisionAssumption, SuIInv,
         Su!HandleError \/ Su!DispatchFails \/ Su!CompleteFinish \/ Su!Poll
  PROVE  SuIInv'
<1>1. (Su!End("failed") \/ Su!End("succeeded")) /\ suEnded' = suEnded
  BY DEF Su!HandleError, Su!DispatchFails, Su!CompleteFinish, Su!Poll
<1>2. Su!IdledOutWasIdle'
  BY <1>1 DEF SuIInv, Su!IdledOutWasIdle
<1>. QED BY <1>1, <1>2, SuEndKeeps

LEMMA SuCrashKeeps ==
  ASSUME Su!SupervisionAssumption, SuIInv, Su!Crash
  PROVE  SuIInv'
<1>1. /\ suHeard' = <<>> /\ suHandled' = 0 /\ suHand' = Su!Rest /\ suTimer' = None
      /\ suCall' = [c \in Su!Callers |-> Su!Rest]
      /\ suUp' = FALSE /\ suConnected' = FALSE /\ suCrossed' = FALSE /\ Su!Fault
      /\ UNCHANGED <<suNow, suStatus, suIdleAt, suEnded>>
  BY DEF Su!Crash
<1>2. suFaults' \in 0..suMaxEvents /\ suFaults' # 0
  <2>1. suFaults \in Nat /\ Len(suHeard) \in Nat /\ suMaxEvents \in Nat
    BY LenProperties DEF SuIInv, SuTypeInv, Su!SupervisionAssumption
  <2>. QED BY <1>1, <2>1 DEF Su!Fault
<1>3. Su!IdledOutWasIdle'
  BY <1>1 DEF SuIInv, Su!IdledOutWasIdle
<1>4. suStatus' \in SuStatuses /\ suIdleAt' \in 0..suHard \cup {None} /\ suNow' = suNow
  BY <1>1 DEF SuIInv, SuTypeInv
<1>. QED BY <1>1, <1>2, <1>3, <1>4, SuEmptied

LEMMA SuTickKeeps ==
  ASSUME Su!SupervisionAssumption, SuIInv, Su!Tick
  PROVE  SuIInv'
<1>1. /\ suNow < suMaxTime /\ suNow' = suNow + 1
      /\ UNCHANGED <<suUp, suConnected, suStatus, suIdleAt, suEnded, suHeard, suHandled, suHand,
                     suTimer, suCall, suFaults, suCrossed>>
  BY DEF Su!Tick
<1>2. suNow \in 0..suMaxTime /\ suMaxTime \in Nat /\ suNow' \in 0..suMaxTime /\ suNow <= suNow'
  BY <1>1 DEF SuIInv, SuTypeInv, Su!SupervisionAssumption
<1>3. SuTypeInv'
  BY <1>1, <1>2 DEF SuIInv, SuTypeInv
<1>4. SuHeardInv'
  <2>1. \A k \in 1..Len(suHeard) : suHeard[k].at \in Nat
    <3>1. TAKE k \in 1..Len(suHeard)
    <3>2. suHeard[k] \in [kind : SuKinds, at : Nat]
      BY ElementOfSeq DEF SuIInv, SuTypeInv
    <3>. QED BY <3>2
  <2>2. \A k \in 1..Len(suHeard) : suHeard[k].at <= suNow
    BY DEF SuIInv, SuHeardInv
  <2>3. \A k \in 1..Len(suHeard) : suHeard[k].at <= suNow'
    BY <1>2, <2>1, <2>2
  <2>. QED BY <1>1, <2>3 DEF SuIInv, SuHeardInv
<1>5. Su!Row' = Su!Row /\ Su!Due(Su!Row)' = Su!Due(Su!Row) /\ Su!Due(Su!Row) \in Nat
  <2>1. Su!Due(Su!Row) \in Nat
    BY SuRowIs, SuDueIs DEF SuIInv
  <2>. QED BY <1>1, <2>1 DEF Su!Row, Su!Due, Su!Kind
<1>6. SuHandInv'
  BY <1>1, <1>2, <1>5 DEF SuIInv, SuHandInv
<1>7. SuCallInv' /\ Su!IdledOutWasIdle'
  BY <1>1 DEF SuIInv, SuCallInv, Su!IdledOutWasIdle
<1>8. SuSeenInv'
  <2>1. Su!Told' = Su!Told
    BY <1>1 DEF Su!Told
  <2>. QED BY <1>1, <2>1 DEF SuIInv, SuSeenInv, Su!Seen, Su!Live
<1>9. SuWatchInv'
  <2>1. suTimer # None => suTimer \in Nat
    BY DEF Su!SupervisionAssumption, SuIInv, SuTypeInv, SuTimerType, Su!Later
  <2>2. SuArmed => SuArmed'
    BY <1>1, <1>2, <1>5, <2>1 DEF SuArmed
  <2>. QED BY <1>1, <2>2 DEF SuIInv, SuWatchInv, Su!Live
<1>. QED BY <1>3, <1>4, <1>6, <1>7, <1>8, <1>9 DEF SuIInv

LEMMA SuInductive ==
  ASSUME Su!SupervisionAssumption, SuIInv, [Su!Next]_(Su!vars)
  PROVE  SuIInv'
<1>1. CASE Su!Live /\ Su!Work
  <2>1. ASSUME NEW c \in Su!Callers,
               Su!ReadDeadline(c) \/ Su!ExpireAtDeadline(c) \/ Su!ArmMoved(c) \/ Su!Look(c) \/ Su!ArmLooked(c)
        PROVE  SuIInv'
    BY <1>1, <2>1, SuReadDeadlineKeeps, SuExpireAtDeadlineKeeps, SuArmMovedKeeps, SuLookKeeps,
       SuArmLookedKeeps
  <2>2. CASE Su!Fire \/ Su!RetryTimer \/ Su!Sent \/ Su!ReadFinish \/ Su!Start \/ Su!Reconnect
    BY <1>1, <2>2, SuFireKeeps, SuRetryTimerKeeps, SuSentKeeps, SuReadFinishKeeps, SuStartKeeps,
       SuReconnectKeeps
  <2>3. CASE Su!HandleEvent \/ Su!ReadByEvent \/ Su!ExpireByEvent
    BY <1>1, <2>3, SuHandleEventKeeps, SuReadByEventKeeps, SuExpireByEventKeeps
  <2>4. CASE Su!HandleError \/ Su!CompleteFinish
    BY <2>4, SuEndedKeeps
  <2>. QED BY <1>1, <2>1, <2>2, <2>3, <2>4, SuNeverArmedByEvent DEF Su!Work
<1>2. CASE Su!Live /\ Su!Ask
  <2>1. CASE Su!Tick \/ Su!Poll \/ Su!DispatchFails \/ Su!Crash
    BY <2>1, SuTickKeeps, SuEndedKeeps, SuCrashKeeps
  <2>2. CASE Su!Finish \/ Su!FinishFails \/ Su!TimerQueryFails
    BY <1>2, <2>2, SuFinishKeeps, SuFinishFailsKeeps, SuTimerQueryFailsKeeps
  <2>3. CASE \E kind \in {"activity", "idle", "running", "error"} : Su!Receive(kind)
    BY <1>2, <2>3, SuReceiveKeeps DEF SuKinds
  <2>. QED BY <1>2, <2>1, <2>2, <2>3 DEF Su!Ask
<1>3. CASE UNCHANGED Su!vars
  <2>1. Su!Told' = Su!Told
    BY <1>3 DEF Su!vars, Su!Told
  <2>. QED BY <1>3, <2>1
     DEF Su!vars, SuIInv, SuTypeInv, SuHeardInv, SuHandInv, SuCallInv, SuSeenInv, SuWatchInv,
                             Su!IdledOutWasIdle, Su!Live, Su!Seen, SuArmed, Su!Due, Su!Kind, Su!Row
<1>. QED BY <1>1, <1>2, <1>3 DEF Su!Next

LEMMA SuSafe ==
  ASSUME SuIInv
  PROVE  Su!IdledOutWasIdle /\ Su!ArmedWhenQuiet
<1>1. ASSUME \A c \in Su!Callers : suCall[c].pc \in {"rest", "over", "sending"}
      PROVE  ~\E c \in Su!Callers : suCall[c].pc \in SuBusy
  BY <1>1 DEF SuBusy
<1>. QED BY <1>1 DEF SuIInv, SuWatchInv, SuArmed, Su!ArmedWhenQuiet

LEMMA SuTyped ==
  ASSUME Su!SupervisionAssumption, SuIInv
  PROVE  Su!TypeOK
<1>1. \A c \in Su!Callers : suCall[c].upto \in 0..suMaxEvents
  BY DEF SuIInv, SuTypeInv, SuCallType
<1>2. suFaults \in 0..suMaxEvents /\ Len(suHeard) <= suMaxEvents
  <2>1. /\ Len(suHeard) \in Nat /\ suFaults \in Nat /\ suMaxEvents \in Nat
        /\ Len(suHeard) + suFaults <= suMaxEvents
    BY LenProperties DEF SuIInv, SuTypeInv, Su!SupervisionAssumption
  <2>. QED BY <2>1
<1>. QED BY <1>1, <1>2 DEF SuIInv, SuTypeInv, SuHandType, SuTimerType, SuStatuses, Su!TypeOK

\* However the steps of a hub interleave, an execution that it fails as idle was idle by what
\* the agent's events say, and a live one whose watch is at rest has its timer
\* (lifecycle.ts, expireExecutionAtCurrentDeadline and armExecutionDeadline).
THEOREM SuWatchedAlways ==
  ASSUME Su!SupervisionAssumption
  PROVE  Su!Spec => []Su!TypeOK /\ []Su!IdledOutWasIdle /\ []Su!ArmedWhenQuiet
<1>1. Su!Init => SuIInv
  BY SuInitially
<1>2. SuIInv /\ [Su!Next]_(Su!vars) => SuIInv'
  BY SuInductive
<1>3. SuIInv => Su!TypeOK /\ Su!IdledOutWasIdle /\ Su!ArmedWhenQuiet
  BY SuSafe, SuTyped
<1>. QED BY <1>1, <1>2, <1>3, PTL DEF Su!Spec

-----------------------------------------------------------------------------
(* Lifecycle of an installation *)

CONSTANTS ghWorkers, ghMaxEvents, ghMaxSends, ghMaxOutages, ghMaxDeaths
VARIABLES ghWorld, ghStatus, ghEvents, ghClaimed, ghWorker, ghAnswered,
          ghOverlapped, ghOrphans, ghSent, ghOutages, ghDeaths

Gh == INSTANCE GitHubLifecycle WITH
    Workers <- ghWorkers, MaxEvents <- ghMaxEvents, MaxSends <- ghMaxSends,
    MaxOutages <- ghMaxOutages, MaxDeaths <- ghMaxDeaths, world <- ghWorld,
    status <- ghStatus, events <- ghEvents, claimed <- ghClaimed,
    worker <- ghWorker, answered <- ghAnswered, overlapped <- ghOverlapped,
    orphans <- ghOrphans, sent <- ghSent, outages <- ghOutages,
    deaths <- ghDeaths

GhKinds == {"installation_repositories", "installation"}
GhWorkerType == [pc : {"idle", "claimed", "fetched"}, of : Nat, evidence : Gh!States \cup {None}]

GhEventsInv ==
  /\ \E n \in Nat : ghEvents \in [1..n -> GhKinds]
  /\ ghWorld \in Gh!States /\ ghStatus \in {"none", "active", "suspended"}
  /\ ghOverlapped \in BOOLEAN
  /\ ghClaimed \cup ghAnswered \cup ghOrphans \subseteq Gh!Deliveries

\* Requests have claims of their own, and no claim is without a request that works on it but
\* those that are answered or left behind.
GhClaimsInv ==
  /\ ghWorker \in [ghWorkers -> GhWorkerType]
  /\ \A w \in ghWorkers :
       /\ ghWorker[w].pc = "fetched" <=> ghWorker[w].evidence # None
       /\ ghWorker[w].of # 0 => ghWorker[w].pc # "idle" /\ ghWorker[w].of \in ghClaimed
  /\ \A v, w \in ghWorkers : ghWorker[v].of = ghWorker[w].of => v = w \/ ghWorker[v].of = 0
  /\ \A d \in ghClaimed : d \in ghAnswered \cup ghOrphans \/ \E w \in ghWorkers : ghWorker[w].of = d

\* The event of the last change at GitHub.
GhLastChange ==
  {d \in Gh!Deliveries :
    /\ ghEvents[d] = "installation"
    /\ \A e \in Gh!Deliveries : ghEvents[e] = "installation" => e <= d}

\* Evidence that is older than the last change is alone, and the event of that change is still
\* to be answered; when it is answered the binding is as GitHub says.
GhEvidenceInv ==
  ~ghOverlapped /\ ghOrphans = {} =>
    /\ \A v, w \in Gh!Busy : v = w
    /\ \A w \in Gh!Busy : ghWorker[w].evidence # ghWorld =>
         \E d \in GhLastChange : d \notin ghAnswered /\ ghWorker[w].of # d
    /\ GhLastChange \subseteq ghAnswered => Gh!Current

GhIInv == GhEventsInv /\ GhClaimsInv /\ GhEvidenceInv

LEMMA GhInitially ==
  ASSUME Gh!LifecycleAssumption, Gh!Init
  PROVE  GhIInv
<1>1. ghEvents \in [1..0 -> GhKinds] /\ Gh!Deliveries = {}
  BY DEF Gh!Init, Gh!Deliveries
<1>2. GhEventsInv
  BY <1>1 DEF GhEventsInv, Gh!Init, Gh!States
<1>3. \A w \in ghWorkers : ghWorker[w] = Gh!Resting
  BY DEF Gh!Init
<1>4. ghWorker \in [ghWorkers -> GhWorkerType]
  BY DEF Gh!Init, GhWorkerType, Gh!Resting
<1>5. GhClaimsInv
  BY <1>3, <1>4 DEF GhClaimsInv, Gh!Resting, Gh!Init
<1>6. GhEvidenceInv
  BY <1>1, <1>3 DEF GhEvidenceInv, Gh!Resting, Gh!Init, Gh!Busy, Gh!Current, GhLastChange
<1>. QED BY <1>2, <1>5, <1>6 DEF GhIInv

LEMMA GhCounts == ASSUME NEW T PROVE Gh!Cardinality(T) = Cardinality(T)
BY DEF Gh!Cardinality, Cardinality

\* The event that is sent is a new one, and the last change if it is one.
LEMMA GhSending ==
  ASSUME Gh!LifecycleAssumption, GhIInv, NEW state \in Gh!States, Gh!Happens(state)
  PROVE  \E n \in Nat :
           /\ Gh!Deliveries = 1..n /\ Gh!Deliveries' = 1..(n + 1)
           /\ ghEvents' \in [1..(n + 1) -> GhKinds]
           /\ \A d \in 1..n : ghEvents'[d] = ghEvents[d]
           /\ ghEvents'[n + 1] = IF state = ghWorld THEN "installation_repositories" ELSE "installation"
<1>1. PICK n \in Nat : ghEvents \in [1..n -> GhKinds]
  BY DEF GhIInv, GhEventsInv
<1>2. Gh!Deliveries = 1..n
  BY <1>1 DEF Gh!Deliveries
<1>3. Cardinality(Gh!Deliveries) = n
  <2>1. \A m \in Nat : Cardinality(1..m) = m
    <3>1. TAKE m \in Nat
    <3>. QED BY FS_Interval
  <2>. QED BY <1>2, <2>1
<1>4. ghEvents' = [d \in 1..(n + 1) |->
          IF d \in 1..n THEN ghEvents[d]
          ELSE IF state = ghWorld THEN "installation_repositories" ELSE "installation"]
  BY <1>2, <1>3, GhCounts DEF Gh!Happens
<1>5. n + 1 \notin 1..n /\ n + 1 \in 1..(n + 1) /\ \A d \in 1..n : d \in 1..(n + 1)
  OBVIOUS
<1>6. \A d \in 1..(n + 1) : d \notin 1..n => d = n + 1
  OBVIOUS
<1>7. ghEvents' \in [1..(n + 1) -> GhKinds]
  BY <1>1, <1>4 DEF GhKinds
<1>8. Gh!Deliveries' = 1..(n + 1)
  BY <1>4 DEF Gh!Deliveries
<1>. QED BY <1>2, <1>4, <1>5, <1>7, <1>8

LEMMA GhHappensKeeps ==
  ASSUME Gh!LifecycleAssumption, GhIInv, NEW state \in Gh!States, Gh!Happens(state)
  PROVE  GhIInv'
<1>1. PICK n \in Nat :
           /\ Gh!Deliveries = 1..n /\ Gh!Deliveries' = 1..(n + 1)
           /\ ghEvents' \in [1..(n + 1) -> GhKinds]
           /\ \A d \in 1..n : ghEvents'[d] = ghEvents[d]
           /\ ghEvents'[n + 1] = IF state = ghWorld THEN "installation_repositories" ELSE "installation"
  BY GhSending
<1>2. /\ UNCHANGED <<ghStatus, ghClaimed, ghWorker, ghAnswered, ghOverlapped, ghOrphans>>
      /\ ghWorld' = state
  BY DEF Gh!Happens
<1>3. GhEventsInv'
  <2>1. n + 1 \in Nat /\ Gh!Deliveries \subseteq Gh!Deliveries'
    BY <1>1
  <2>. QED BY <1>1, <1>2, <2>1 DEF GhIInv, GhEventsInv
<1>4. GhClaimsInv'
  BY <1>2 DEF GhIInv, GhClaimsInv
<1>5. Gh!Busy' = Gh!Busy /\ n + 1 \notin Gh!Deliveries
  BY <1>1, <1>2 DEF Gh!Busy
<1>6. CASE state = ghWorld
  <2>1. GhLastChange' = GhLastChange
    <3>1. \A d \in Gh!Deliveries' : ghEvents'[d] = "installation" => d \in Gh!Deliveries
      BY <1>1, <1>6
    <3>2. \A d \in Gh!Deliveries : d \in Gh!Deliveries' /\ ghEvents'[d] = ghEvents[d]
      BY <1>1
    <3>. QED BY <3>1, <3>2 DEF GhLastChange
  <2>2. GhEvidenceInv'
    BY <1>2, <1>5, <1>6, <2>1 DEF GhIInv, GhEvidenceInv, Gh!Current
  <2>. QED BY <1>3, <1>4, <2>2 DEF GhIInv
<1>7. CASE state # ghWorld
  <2>1. n + 1 \in GhLastChange'
    <3>1. n + 1 \in Gh!Deliveries' /\ ghEvents'[n + 1] = "installation" /\ \A e \in Gh!Deliveries' : e <= n + 1
      BY <1>1, <1>7
    <3>. QED BY <3>1 DEF GhLastChange
  <2>2. n + 1 \notin ghAnswered' /\ \A w \in ghWorkers : ghWorker'[w].of # n + 1
    <3>1. \A w \in ghWorkers : ghWorker[w].of = 0 \/ ghWorker[w].of \in Gh!Deliveries
      BY DEF GhIInv, GhClaimsInv, GhEventsInv
    <3>2. n + 1 # 0
      OBVIOUS
    <3>. QED BY <1>2, <1>5, <3>1, <3>2 DEF GhIInv, GhEventsInv
  <2>3. GhEvidenceInv'
    BY <1>2, <1>5, <2>1, <2>2 DEF GhIInv, GhEvidenceInv, Gh!Busy
  <2>. QED BY <1>3, <1>4, <2>3 DEF GhIInv
<1>. QED BY <1>6, <1>7

\* A step that sends nothing leaves the events as they are.
LEMMA GhSameEvents ==
  ASSUME GhIInv, UNCHANGED <<ghWorld, ghEvents>>, ghStatus' \in {"none", "active", "suspended"},
         ghOverlapped' \in BOOLEAN, ghClaimed' \cup ghAnswered' \cup ghOrphans' \subseteq Gh!Deliveries
  PROVE  GhEventsInv' /\ GhLastChange' = GhLastChange /\ Gh!Deliveries' = Gh!Deliveries
<1>1. Gh!Deliveries' = Gh!Deliveries
  BY DEF Gh!Deliveries
<1>. QED BY <1>1 DEF GhIInv, GhEventsInv, GhLastChange

LEMMA GhClaimKeeps ==
  ASSUME Gh!LifecycleAssumption, GhIInv, NEW w \in ghWorkers, NEW d \in Gh!Deliveries,
         Gh!Claim(w, d)
  PROVE  GhIInv'
<1>1. ghWorker[w].pc = "idle" /\ UNCHANGED <<ghWorld, ghStatus, ghEvents, ghOrphans>>
  BY DEF Gh!Claim
<1>2. d # 0 /\ d \in Nat
  BY DEF GhIInv, GhEventsInv, Gh!Deliveries
<1>3. CASE /\ ghStatus = "none" \/ d \in ghClaimed
           /\ ghAnswered' = ghAnswered \cup {d}
           /\ ghOverlapped' = (ghOverlapped \/ \E v \in ghWorkers : ghWorker[v].pc # "idle")
           /\ UNCHANGED <<ghWorker, ghClaimed>>
  <2>1. GhEventsInv' /\ GhLastChange' = GhLastChange
    <3>1. /\ ghOverlapped' \in BOOLEAN
          /\ ghClaimed' \cup ghAnswered' \cup ghOrphans' \subseteq Gh!Deliveries
      BY <1>1, <1>3 DEF GhIInv, GhEventsInv
    <3>2. ghStatus' \in {"none", "active", "suspended"}
      BY <1>1 DEF GhIInv, GhEventsInv
    <3>. QED BY <1>1, <3>1, <3>2, GhSameEvents
  <2>2. ASSUME ~ghOverlapped' PROVE ~ghOverlapped /\ \A v \in ghWorkers : ghWorker[v].pc = "idle" /\ ghWorker[v].of = 0 /\ ghWorker[v].evidence = None
    BY <1>3, <2>2 DEF GhIInv, GhClaimsInv
  <2>3. GhClaimsInv'
    BY <1>1, <1>3 DEF GhIInv, GhClaimsInv
  <2>4. GhEvidenceInv'
    <3>1. SUFFICES ASSUME ~ghOverlapped', ghOrphans' = {}
                   PROVE  /\ \A u, v \in Gh!Busy' : u = v
                          /\ \A v \in Gh!Busy' : ghWorker'[v].evidence # ghWorld' =>
                               \E e \in GhLastChange' : e \notin ghAnswered' /\ ghWorker'[v].of # e
                          /\ GhLastChange' \subseteq ghAnswered' => Gh!Current'
      BY DEF GhEvidenceInv
    <3>2. Gh!Busy' = {}
      BY <1>3, <2>2, <3>1 DEF Gh!Busy
    <3>3. Gh!Current' <=> Gh!Current
      BY <1>1 DEF Gh!Current
    <3>4. CASE ghStatus = "none"
      BY <1>1, <3>2, <3>4 DEF Gh!Current
    <3>5. CASE d \in ghClaimed
      <4>1. d \in ghAnswered
        BY <1>1, <1>2, <2>2, <3>1, <3>5 DEF GhIInv, GhClaimsInv
      <4>2. ghAnswered' = ghAnswered
        BY <1>3, <4>1
      <4>. QED BY <1>1, <2>1, <2>2, <3>1, <3>2, <3>3, <4>2 DEF GhIInv, GhEvidenceInv
    <3>. QED BY <1>3, <3>4, <3>5
  <2>. QED BY <2>1, <2>3, <2>4 DEF GhIInv
<1>4. CASE /\ ghStatus # "none" /\ d \notin ghClaimed
           /\ ghClaimed' = ghClaimed \cup {d}
           /\ ghWorker' = [ghWorker EXCEPT ![w] = [pc |-> "claimed", of |-> d, evidence |-> None]]
           /\ UNCHANGED <<ghAnswered, ghOverlapped>>
  <2>. DEFINE x == [pc |-> "claimed", of |-> d, evidence |-> None]
  <2>1. GhEventsInv' /\ GhLastChange' = GhLastChange
    <3>1. /\ ghOverlapped' \in BOOLEAN
          /\ ghClaimed' \cup ghAnswered' \cup ghOrphans' \subseteq Gh!Deliveries
      BY <1>1, <1>4 DEF GhIInv, GhEventsInv
    <3>2. ghStatus' \in {"none", "active", "suspended"}
      BY <1>1 DEF GhIInv, GhEventsInv
    <3>. QED BY <1>1, <3>1, <3>2, GhSameEvents
  <2>2. x \in GhWorkerType /\ x.pc = "claimed" /\ x.of = d /\ x.evidence = None
    BY <1>2 DEF GhWorkerType
  <2>. HIDE DEF x
  <2>3. ghWorker' \in [ghWorkers -> GhWorkerType] /\ ghWorker'[w] = x /\ \A v \in ghWorkers \ {w} : ghWorker'[v] = ghWorker[v]
    BY <1>4, <2>2 DEF GhIInv, GhClaimsInv, x
  <2>4. ghWorker[w].of = 0 /\ ghWorker[w].evidence = None
    BY <1>1 DEF GhIInv, GhClaimsInv
  <2>5. GhClaimsInv'
    <3>1. \A v \in ghWorkers : ghWorker[v].of # d
      BY <1>2, <1>4 DEF GhIInv, GhClaimsInv
    <3>2. \A v \in ghWorkers :
            /\ ghWorker'[v].pc = "fetched" <=> ghWorker'[v].evidence # None
            /\ ghWorker'[v].of # 0 => ghWorker'[v].pc # "idle" /\ ghWorker'[v].of \in ghClaimed'
      BY <1>4, <2>2, <2>3 DEF GhIInv, GhClaimsInv
    <3>4. \A u, v \in ghWorkers : ghWorker'[u].of = ghWorker'[v].of => u = v \/ ghWorker'[u].of = 0
      BY <2>2, <2>3, <3>1 DEF GhIInv, GhClaimsInv
    <3>5. \A e \in ghClaimed' : e \in ghAnswered' \cup ghOrphans' \/ \E v \in ghWorkers : ghWorker'[v].of = e
      <4>1. TAKE e \in ghClaimed'
      <4>2. CASE e = d
        BY <2>2, <2>3, <4>2
      <4>3. CASE e # d
        <5>1. e \in ghClaimed /\ e # 0
          BY <1>4, <4>1, <4>3 DEF GhIInv, GhEventsInv, Gh!Deliveries
        <5>2. e \in ghAnswered \cup ghOrphans \/ \E v \in ghWorkers \ {w} : ghWorker[v].of = e
          BY <2>4, <5>1 DEF GhIInv, GhClaimsInv
        <5>. QED BY <1>1, <1>4, <2>3, <5>2
      <4>. QED BY <4>2, <4>3
    <3>. QED BY <2>3, <3>2, <3>4, <3>5 DEF GhClaimsInv
  <2>6. Gh!Busy' = Gh!Busy /\ \A v \in Gh!Busy : ghWorker'[v] = ghWorker[v]
    BY <2>2, <2>3, <2>4 DEF Gh!Busy
  <2>7. GhEvidenceInv'
    BY <1>1, <1>4, <2>1, <2>6 DEF GhIInv, GhEvidenceInv, Gh!Current
  <2>. QED BY <2>1, <2>5, <2>7 DEF GhIInv
<1>. QED BY <1>3, <1>4 DEF Gh!Claim

\* A request that is done leaves the claims of the others.
LEMMA GhRested ==
  ASSUME GhIInv, NEW w \in ghWorkers, ghWorker' = [ghWorker EXCEPT ![w] = Gh!Resting],
         ghAnswered \subseteq ghAnswered', ghOrphans \subseteq ghOrphans', ghClaimed' \subseteq ghClaimed,
         ghClaimed \ {ghWorker[w].of} \subseteq ghClaimed',
         ghWorker[w].of \in ghClaimed' => ghWorker[w].of \in ghAnswered' \cup ghOrphans'
  PROVE  GhClaimsInv' /\ Gh!Busy' = Gh!Busy \ {w} /\ \A v \in Gh!Busy \ {w} : ghWorker'[v] = ghWorker[v]
<1>1. /\ Gh!Resting \in GhWorkerType /\ Gh!Resting.pc = "idle" /\ Gh!Resting.of = 0
      /\ Gh!Resting.evidence = None
  BY DEF Gh!Resting, GhWorkerType
<1>2. ghWorker' \in [ghWorkers -> GhWorkerType] /\ ghWorker'[w] = Gh!Resting /\ \A v \in ghWorkers \ {w} : ghWorker'[v] = ghWorker[v]
  BY <1>1 DEF GhIInv, GhClaimsInv
<1>3. \A v \in ghWorkers :
        /\ ghWorker'[v].pc = "fetched" <=> ghWorker'[v].evidence # None
        /\ ghWorker'[v].of # 0 => ghWorker'[v].pc # "idle" /\ ghWorker'[v].of \in ghClaimed'
  BY <1>1, <1>2 DEF GhIInv, GhClaimsInv
<1>4. \A u, v \in ghWorkers : ghWorker'[u].of = ghWorker'[v].of => u = v \/ ghWorker'[u].of = 0
  BY <1>1, <1>2 DEF GhIInv, GhClaimsInv
<1>5. \A e \in ghClaimed' : e \in ghAnswered' \cup ghOrphans' \/ \E v \in ghWorkers : ghWorker'[v].of = e
  <2>1. TAKE e \in ghClaimed'
  <2>2. CASE e = ghWorker[w].of
    BY <2>2
  <2>3. CASE e # ghWorker[w].of
    <3>1. e \in ghAnswered \cup ghOrphans \/ \E v \in ghWorkers : ghWorker[v].of = e
      BY <2>1 DEF GhIInv, GhClaimsInv
    <3>. QED BY <1>2, <2>3, <3>1
  <2>. QED BY <2>2, <2>3
<1>6. Gh!Busy' = Gh!Busy \ {w} /\ \A v \in Gh!Busy \ {w} : ghWorker'[v] = ghWorker[v]
  BY <1>1, <1>2 DEF Gh!Busy
<1>. QED BY <1>2, <1>3, <1>4, <1>5, <1>6 DEF GhClaimsInv

LEMMA GhFetchKeeps ==
  ASSUME Gh!LifecycleAssumption, GhIInv, NEW w \in ghWorkers, Gh!Fetch(w)
  PROVE  GhIInv'
<1>. DEFINE x == [ghWorker[w] EXCEPT !.pc = "fetched", !.evidence = ghWorld]
<1>1. /\ ghWorker[w].pc = "claimed" /\ ghWorker' = [ghWorker EXCEPT ![w] = x]
      /\ ghOverlapped' = (ghOverlapped \/ Gh!Busy # {})
      /\ UNCHANGED <<ghWorld, ghStatus, ghEvents, ghClaimed, ghAnswered, ghOrphans>>
  BY DEF Gh!Fetch
<1>2. /\ ghWorker[w] \in GhWorkerType /\ ghWorld \in Gh!States /\ ghWorld # None
      /\ ghWorker[w].evidence = None
  BY <1>1 DEF GhIInv, GhClaimsInv, GhEventsInv, Gh!LifecycleAssumption
<1>3. x \in GhWorkerType /\ x.pc = "fetched" /\ x.of = ghWorker[w].of /\ x.evidence = ghWorld
  BY <1>2 DEF GhWorkerType
<1>. HIDE DEF x
<1>4. ghWorker' \in [ghWorkers -> GhWorkerType] /\ ghWorker'[w] = x /\ \A v \in ghWorkers \ {w} : ghWorker'[v] = ghWorker[v]
  BY <1>1, <1>3 DEF GhIInv, GhClaimsInv
<1>5. GhEventsInv' /\ GhLastChange' = GhLastChange
  <2>1. /\ ghOverlapped' \in BOOLEAN
        /\ ghClaimed' \cup ghAnswered' \cup ghOrphans' \subseteq Gh!Deliveries
    BY <1>1 DEF GhIInv, GhEventsInv
  <2>2. ghStatus' \in {"none", "active", "suspended"}
    BY <1>1 DEF GhIInv, GhEventsInv
  <2>. QED BY <1>1, <2>1, <2>2, GhSameEvents
<1>6. GhClaimsInv'
  <2>1. \A v \in ghWorkers : ghWorker'[v].of = ghWorker[v].of
    BY <1>3, <1>4
  <2>2. \A v \in ghWorkers :
          /\ ghWorker'[v].pc = "fetched" <=> ghWorker'[v].evidence # None
          /\ ghWorker'[v].of # 0 => ghWorker'[v].pc # "idle"
    <3>1. TAKE v \in ghWorkers
    <3>2. CASE v = w
      BY <1>2, <1>3, <1>4, <3>2
    <3>3. CASE v # w
      BY <1>4, <3>3 DEF GhIInv, GhClaimsInv
    <3>. QED BY <3>2, <3>3
  <2>. QED BY <1>1, <1>4, <2>1, <2>2 DEF GhIInv, GhClaimsInv
<1>7. GhEvidenceInv'
  <2>1. ASSUME ~ghOverlapped' PROVE Gh!Busy' = {w} /\ ~ghOverlapped
    BY <1>1, <1>2, <1>3, <1>4, <2>1 DEF Gh!Busy
  <2>. QED BY <1>1, <1>3, <1>4, <1>5, <2>1 DEF GhIInv, GhEvidenceInv, Gh!Current
<1>. QED BY <1>5, <1>6, <1>7 DEF GhIInv

\* What evidence makes of the binding.
LEMMA GhEvident ==
  ASSUME ghStatus \in {"none", "active", "suspended"}, NEW e \in Gh!States, NEW kind \in GhKinds
  PROVE  /\ Gh!Evidence(ghStatus, e, kind) \in {"none", "active", "suspended"}
         /\ e = ghWorld /\ kind = "installation" => Gh!Evidence(ghStatus, e, kind) \in {"none", ghWorld}
         /\ e = ghWorld /\ Gh!Current => Gh!Evidence(ghStatus, e, kind) \in {"none", ghWorld}
BY DEF Gh!Evidence, Gh!Current, Gh!States

LEMMA GhApplyKeeps ==
  ASSUME Gh!LifecycleAssumption, GhIInv, NEW w \in ghWorkers, Gh!Apply(w)
  PROVE  GhIInv'
<1>. DEFINE d == ghWorker[w].of  ev == ghWorker[w].evidence
<1>1. /\ ghWorker[w].pc = "fetched" /\ d # 0
      /\ ghStatus' = IF d \in ghClaimed THEN Gh!Evidence(ghStatus, ev, ghEvents[d]) ELSE ghStatus
      /\ ghAnswered' = ghAnswered \cup {d} /\ ghWorker' = [ghWorker EXCEPT ![w] = Gh!Resting]
      /\ UNCHANGED <<ghWorld, ghEvents, ghClaimed, ghOverlapped, ghOrphans>>
  BY DEF Gh!Apply
<1>2. d \in ghClaimed /\ d \in Gh!Deliveries /\ ev \in Gh!States /\ w \in Gh!Busy
  BY <1>1 DEF GhIInv, GhClaimsInv, GhEventsInv, GhWorkerType, Gh!Busy
<1>3. ghEvents[d] \in GhKinds /\ ghStatus \in {"none", "active", "suspended"}
  BY <1>2 DEF GhIInv, GhEventsInv, Gh!Deliveries
<1>4. ghStatus' = Gh!Evidence(ghStatus, ev, ghEvents[d])
  BY <1>1, <1>2
<1>5. GhClaimsInv' /\ Gh!Busy' = Gh!Busy \ {w} /\ \A v \in Gh!Busy \ {w} : ghWorker'[v] = ghWorker[v]
  BY <1>1, GhRested
<1>6. GhEventsInv' /\ GhLastChange' = GhLastChange
  <2>1. /\ ghOverlapped' \in BOOLEAN
        /\ ghClaimed' \cup ghAnswered' \cup ghOrphans' \subseteq Gh!Deliveries
    BY <1>1, <1>2 DEF GhIInv, GhEventsInv
  <2>2. ghStatus' \in {"none", "active", "suspended"}
    BY <1>2, <1>3, <1>4, GhEvident
  <2>. QED BY <1>1, <2>1, <2>2, GhSameEvents
<1>7. GhEvidenceInv'
  <2>1. SUFFICES ASSUME ~ghOverlapped, ghOrphans = {}
                 PROVE  Gh!Busy' = {} /\ (GhLastChange \subseteq ghAnswered' => Gh!Current')
    BY <1>1, <1>6, <2>1 DEF GhEvidenceInv
  <2>2. Gh!Busy = {w}
    BY <1>2, <2>1 DEF GhIInv, GhEvidenceInv
  <2>3. ASSUME GhLastChange \subseteq ghAnswered' PROVE ghStatus' \in {"none", ghWorld}
    <3>1. ev = ghWorld
      BY <1>1, <1>2, <2>1, <2>3 DEF GhIInv, GhEvidenceInv
    <3>2. CASE GhLastChange \subseteq ghAnswered
      BY <1>2, <1>3, <1>4, <2>1, <3>1, <3>2, GhEvident DEF GhIInv, GhEvidenceInv
    <3>3. CASE ~(GhLastChange \subseteq ghAnswered)
      <4>1. d \in GhLastChange
        BY <1>1, <2>3, <3>3
      <4>2. ghEvents[d] = "installation"
        BY <4>1 DEF GhLastChange
      <4>. QED BY <1>2, <1>3, <1>4, <3>1, <4>2, GhEvident
    <3>. QED BY <3>2, <3>3
  <2>. QED BY <1>1, <1>5, <2>2, <2>3 DEF Gh!Current
<1>. QED BY <1>5, <1>6, <1>7 DEF GhIInv

\* A step that answers nothing and leaves the binding as it is, or a current one, or one whose
\* last change is to come.
LEMMA GhDoneKeeps ==
  ASSUME Gh!LifecycleAssumption, GhIInv, NEW w \in ghWorkers,
         ghWorker' = [ghWorker EXCEPT ![w] = Gh!Resting],
         UNCHANGED <<ghWorld, ghEvents, ghAnswered, ghOverlapped>>,
         ghStatus' \in {"none", "active", "suspended"},
         ghClaimed' \subseteq ghClaimed, ghClaimed \ {ghWorker[w].of} \subseteq ghClaimed',
         ghOrphans \subseteq ghOrphans', ghOrphans' \subseteq ghOrphans \cup ({ghWorker[w].of} \ {0}),
         ghWorker[w].of \in ghClaimed' => ghWorker[w].of \in ghOrphans',
         ghStatus' = ghStatus \/ (w \in Gh!Busy /\ ghStatus' = ghWorker[w].evidence)
  PROVE  GhIInv'
<1>1. GhClaimsInv' /\ Gh!Busy' = Gh!Busy \ {w} /\ \A v \in Gh!Busy \ {w} : ghWorker'[v] = ghWorker[v]
  BY GhRested
<1>2. GhEventsInv' /\ GhLastChange' = GhLastChange
  <2>1. /\ ghOverlapped' \in BOOLEAN
        /\ ghClaimed' \cup ghAnswered' \cup ghOrphans' \subseteq Gh!Deliveries
    BY DEF GhIInv, GhEventsInv, GhClaimsInv
  <2>. QED BY <2>1, GhSameEvents
<1>3. GhEvidenceInv'
  <2>1. SUFFICES ASSUME ~ghOverlapped, ghOrphans = {}, ghOrphans' = {}
                 PROVE  /\ \A u, v \in Gh!Busy' : u = v
                        /\ \A v \in Gh!Busy' : ghWorker'[v].evidence # ghWorld =>
                             \E e \in GhLastChange : e \notin ghAnswered /\ ghWorker'[v].of # e
                        /\ GhLastChange \subseteq ghAnswered => Gh!Current'
    BY <1>2, <2>1 DEF GhEvidenceInv
  <2>2. ASSUME GhLastChange \subseteq ghAnswered PROVE Gh!Current'
    BY <2>1, <2>2 DEF GhIInv, GhEvidenceInv, Gh!Current
  <2>. QED BY <1>1, <2>1, <2>2 DEF GhIInv, GhEvidenceInv
<1>. QED BY <1>1, <1>2, <1>3 DEF GhIInv

LEMMA GhCallFailsKeeps ==
  ASSUME Gh!LifecycleAssumption, GhIInv, NEW w \in ghWorkers, Gh!CallFails(w)
  PROVE  GhIInv'
<1>1. /\ ghWorker[w].of # 0 /\ ghWorker' = [ghWorker EXCEPT ![w] = Gh!Resting]
      /\ UNCHANGED <<ghWorld, ghStatus, ghEvents, ghAnswered, ghOverlapped>>
      /\ \/ ghClaimed' = ghClaimed \ {ghWorker[w].of} /\ UNCHANGED ghOrphans
         \/ ghOrphans' = ghOrphans \cup {ghWorker[w].of} /\ UNCHANGED ghClaimed
  BY DEF Gh!CallFails, Gh!Released
<1>2. 0 \notin ghOrphans /\ ghStatus' \in {"none", "active", "suspended"}
  BY <1>1 DEF GhIInv, GhEventsInv, Gh!Deliveries
<1>. QED BY <1>1, <1>2, GhDoneKeeps

LEMMA GhBindKeeps ==
  ASSUME Gh!LifecycleAssumption, GhIInv, NEW w \in ghWorkers, Gh!Bind(w)
  PROVE  GhIInv'
<1>1. /\ ghWorker[w].pc = "fetched" /\ ghWorker[w].of = 0
      /\ ghWorker' = [ghWorker EXCEPT ![w] = Gh!Resting]
      /\ ghStatus' = IF ghWorker[w].evidence = "absent" THEN ghStatus ELSE ghWorker[w].evidence
      /\ UNCHANGED <<ghWorld, ghEvents, ghClaimed, ghAnswered, ghOverlapped, ghOrphans>>
  BY DEF Gh!Bind
<1>2. w \in Gh!Busy /\ ghWorker[w].evidence \in Gh!States
  BY <1>1 DEF GhIInv, GhClaimsInv, GhWorkerType, Gh!Busy
<1>3. ghStatus' \in {"none", "active", "suspended"} /\ 0 \notin ghOrphans /\ 0 \notin ghClaimed
  BY <1>1, <1>2 DEF GhIInv, GhEventsInv, Gh!States, Gh!Deliveries
<1>. QED BY <1>1, <1>2, <1>3, GhDoneKeeps

LEMMA GhRebindKeeps ==
  ASSUME Gh!LifecycleAssumption, GhIInv, NEW w \in ghWorkers, Gh!Rebind(w)
  PROVE  GhIInv'
<1>. DEFINE x == [pc |-> "claimed", of |-> 0, evidence |-> None]
<1>1. /\ ghWorker[w].pc = "idle" /\ ghWorker' = [ghWorker EXCEPT ![w] = x]
      /\ UNCHANGED <<ghWorld, ghStatus, ghEvents, ghClaimed, ghAnswered, ghOverlapped, ghOrphans>>
  BY DEF Gh!Rebind
<1>2. x \in GhWorkerType /\ x.pc = "claimed" /\ x.of = 0 /\ x.evidence = None
  BY DEF GhWorkerType
<1>. HIDE DEF x
<1>3. ghWorker' \in [ghWorkers -> GhWorkerType] /\ ghWorker'[w] = x /\ \A v \in ghWorkers \ {w} : ghWorker'[v] = ghWorker[v]
  BY <1>1, <1>2 DEF GhIInv, GhClaimsInv
<1>4. ghWorker[w].of = 0 /\ ghWorker[w].evidence = None
  BY <1>1 DEF GhIInv, GhClaimsInv
<1>5. GhEventsInv' /\ GhLastChange' = GhLastChange
  <2>1. ghOverlapped' \in BOOLEAN /\ ghClaimed' \cup ghAnswered' \cup ghOrphans' \subseteq Gh!Deliveries
        /\ ghStatus' \in {"none", "active", "suspended"}
    BY <1>1 DEF GhIInv, GhEventsInv
  <2>. QED BY <1>1, <2>1, GhSameEvents
<1>6. GhClaimsInv'
  <2>1. \A v \in ghWorkers : ghWorker'[v].of = ghWorker[v].of
    BY <1>2, <1>3, <1>4
  <2>2. \A v \in ghWorkers :
          /\ ghWorker'[v].pc = "fetched" <=> ghWorker'[v].evidence # None
          /\ ghWorker'[v].of # 0 => ghWorker'[v].pc # "idle"
    BY <1>2, <1>3 DEF GhIInv, GhClaimsInv
  <2>. QED BY <1>1, <1>3, <2>1, <2>2 DEF GhIInv, GhClaimsInv
<1>7. Gh!Busy' = Gh!Busy /\ \A v \in Gh!Busy : ghWorker'[v] = ghWorker[v]
  BY <1>2, <1>3, <1>4 DEF Gh!Busy
<1>8. GhEvidenceInv'
  BY <1>1, <1>5, <1>7 DEF GhIInv, GhEvidenceInv, Gh!Current
<1>. QED BY <1>5, <1>6, <1>8 DEF GhIInv

LEMMA GhDieKeeps ==
  ASSUME Gh!LifecycleAssumption, GhIInv, Gh!Die
  PROVE  GhIInv'
<1>1. /\ ghOrphans' = ghOrphans \cup {ghWorker[w].of : w \in {v \in ghWorkers : ghWorker[v].of # 0}}
      /\ ghWorker' = [w \in ghWorkers |-> Gh!Resting]
      /\ UNCHANGED <<ghWorld, ghStatus, ghEvents, ghClaimed, ghAnswered, ghOverlapped>>
  BY DEF Gh!Die
<1>2. /\ Gh!Resting \in GhWorkerType /\ Gh!Resting.pc = "idle" /\ Gh!Resting.of = 0
      /\ Gh!Resting.evidence = None
  BY DEF Gh!Resting, GhWorkerType
<1>3. ghWorker' \in [ghWorkers -> GhWorkerType] /\ \A w \in ghWorkers : ghWorker'[w] = Gh!Resting
  BY <1>1, <1>2
<1>4. ghOrphans' \subseteq ghOrphans \cup ghClaimed /\ \A w \in ghWorkers : ghWorker[w].of # 0 => ghWorker[w].of \in ghOrphans'
  BY <1>1 DEF GhIInv, GhClaimsInv
<1>5. GhEventsInv' /\ GhLastChange' = GhLastChange
  <2>1. ghOverlapped' \in BOOLEAN /\ ghClaimed' \cup ghAnswered' \cup ghOrphans' \subseteq Gh!Deliveries
        /\ ghStatus' \in {"none", "active", "suspended"}
    BY <1>1, <1>4 DEF GhIInv, GhEventsInv
  <2>. QED BY <1>1, <2>1, GhSameEvents
<1>6. GhClaimsInv'
  <2>1. 0 \notin ghClaimed
    BY DEF GhIInv, GhEventsInv, Gh!Deliveries
  <2>2. \A d \in ghClaimed' : d \in ghAnswered' \cup ghOrphans'
    BY <1>1, <1>4, <2>1 DEF GhIInv, GhClaimsInv
  <2>. QED BY <1>2, <1>3, <2>2 DEF GhClaimsInv
<1>7. GhEvidenceInv'
  <2>1. Gh!Busy' = {}
    BY <1>2, <1>3 DEF Gh!Busy
  <2>2. ghOrphans' = {} => ghOrphans = {}
    BY <1>1
  <2>. QED BY <1>1, <1>5, <2>1, <2>2 DEF GhIInv, GhEvidenceInv, Gh!Current
<1>. QED BY <1>5, <1>6, <1>7 DEF GhIInv

LEMMA GhInductive ==
  ASSUME Gh!LifecycleAssumption, GhIInv, [Gh!Next]_(Gh!vars)
  PROVE  GhIInv'
<1>1. CASE UNCHANGED Gh!vars
  BY <1>1 DEF Gh!vars, GhIInv, GhEventsInv, GhClaimsInv, GhEvidenceInv, Gh!Deliveries, Gh!Busy,
     GhLastChange, Gh!Current
<1>2. CASE Gh!Next
  <2>1. ASSUME NEW w \in ghWorkers,
               (\E d \in Gh!Deliveries : Gh!Claim(w, d)) \/ Gh!Fetch(w) \/ Gh!Apply(w) \/ Gh!CallFails(w) \/ Gh!Rebind(w) \/ Gh!Bind(w)
        PROVE  GhIInv'
    BY <2>1, GhClaimKeeps, GhFetchKeeps, GhApplyKeeps, GhCallFailsKeeps, GhRebindKeeps, GhBindKeeps
  <2>. QED BY <1>2, <2>1, GhHappensKeeps, GhDieKeeps DEF Gh!Next
<1>. QED BY <1>1, <1>2

LEMMA GhSafe ==
  ASSUME GhIInv
  PROVE  Gh!SerialEvidenceConverges
BY DEF GhIInv, GhEvidenceInv, GhLastChange, Gh!SerialEvidenceConverges, Gh!Settled

LEMMA GhTyped ==
  ASSUME GhIInv
  PROVE  Gh!TypeOK
<1>1. \A w \in ghWorkers : ghWorker[w] \in GhWorkerType
  BY DEF GhIInv, GhClaimsInv
<1>. QED BY <1>1 DEF GhIInv, GhEventsInv, GhWorkerType, Gh!TypeOK

\* However often events are sent again, calls fail and processes die: once every event of an
\* installation is answered the binding is as GitHub says, if the requests that asked GitHub
\* came one after another (providers/github/index.ts, applyLifecycle).
THEOREM GhConverges ==
  ASSUME Gh!LifecycleAssumption
  PROVE  Gh!Spec => []Gh!TypeOK /\ []Gh!SerialEvidenceConverges
<1>1. Gh!Init => GhIInv
  BY GhInitially
<1>2. GhIInv /\ [Gh!Next]_(Gh!vars) => GhIInv'
  BY GhInductive
<1>3. GhIInv => Gh!TypeOK /\ Gh!SerialEvidenceConverges
  BY GhSafe, GhTyped
<1>. QED BY <1>1, <1>2, <1>3, PTL DEF Gh!Spec

=============================================================================
