---------------------------- MODULE LinearIssues ----------------------------
(***************************************************************************)
(* An issue of Linear is created and edited; each change reaches the hub   *)
(* as an event with what changed, in any order and perhaps again. An event *)
(* may leave out fields: the hub reads the issue from Linear then, as it   *)
(* is by then (handoffLinearEvent of src/src/triggers/linear/webhook.ts,   *)
(* normalizeLinearEvent of events.ts). A trigger on                        *)
(* linear.issue_entered_scope runs once for each entry of the issue into   *)
(* the trigger's scope (match.ts).                                         *)
(***************************************************************************)
EXTENDS Integers, FiniteSets, Sequences

CONSTANTS Projects, States, Labels, None, Omitted,
          MaxEvents,     \* bound on the changes
          MaxDeliveries  \* bound on the deliveries of their events

VARIABLES
  filter,     \* of the trigger
  issue,      \* at Linear now, None before it is created
  events,     \* [action, data, from] of each change
  after,      \* history: the issue as each change left it
  entered,    \* history: the changes that brought the issue into the scope
  hand,       \* the events being handled: [of, issue], as normalised
  receipts,   \* the events accepted
  runs,       \* ... and those that started a run
  late,       \* history: events for which an issue was read that had changed since
  deliveries

vars == <<filter, issue, events, after, entered, hand, receipts, runs, late, deliveries>>

Issues == [project : Projects \cup {None}, state : States, labels : SUBSET Labels]
Fields == {"project", "state", "labels"}

\* What stands for nothing is no issue, what is left out no field of one.
IssuesAssumption ==
  /\ \A i \in Issues : i # None
  /\ Omitted \notin Projects \cup {None} \cup States /\ \A ls \in SUBSET Labels : ls # Omitted

TypeOK ==
  /\ issue \in Issues \cup {None} /\ \A k \in DOMAIN after : after[k] \in Issues
  /\ \A k \in DOMAIN events : events[k].action \in {"create", "update"}
  /\ entered \cup receipts \cup late \subseteq DOMAIN events /\ runs \subseteq receipts

\* A trigger with its filter, and an issue that exists already or not.
Init ==
  /\ filter \in [project : Projects \cup {None}, states : {{s} : s \in States} \cup {None},
                 labels : SUBSET Labels, exclude : SUBSET Labels]
  /\ filter.labels \cap filter.exclude = {}
  /\ issue \in Issues \cup {None}
  /\ events = <<>> /\ after = <<>> /\ entered = {}
  /\ hand = {} /\ receipts = {} /\ runs = {} /\ late = {} /\ deliveries = 0

-----------------------------------------------------------------------------
(* triggers/linear/match.ts *)

\* matchesIssueScope
InScope(i) ==
  /\ filter.project \in {None, i.project}
  /\ filter.states # None => i.state \in filter.states
  /\ filter.labels \subseteq i.labels
  /\ filter.exclude \cap i.labels = {}

\* Mutant: the labels an issue had are not looked at.
MovedOnly(e, i) ==
  [f \in Fields |-> IF e.from[f] # Omitted /\ f # "labels" THEN e.from[f] ELSE i[f]]
\* The issue before the change (enteredConfiguredScope, normalizePreviousIssue).
Before(e, i) == [f \in Fields |-> IF e.from[f] # Omitted THEN e.from[f] ELSE i[f]]

\* enteredConfiguredScope
Enters(e, i) == InScope(i) /\ (e.action = "create" \/ ~InScope(Before(e, i)))

-----------------------------------------------------------------------------
(* triggers/linear/events.ts *)

\* relatedId, readLabelIds: what the event leaves out is taken from the issue that was read.
Normalised(data, read) ==
  [f \in Fields |->
     IF data[f] # Omitted THEN data[f]
     ELSE IF read # None THEN read[f]
     ELSE IF f = "labels" THEN {} ELSE None]

\* eventProjectId
Hydrates(data) == Normalised(data, None).project = None

-----------------------------------------------------------------------------
(* Linear *)

\* The event may leave out whatever has not changed.
Changes(new) ==
  /\ new # issue /\ Len(events) < MaxEvents
  /\ LET changed == IF issue = None THEN {} ELSE {f \in Fields : new[f] # issue[f]} IN
     \E said \in SUBSET Fields :
       /\ changed \subseteq said
       /\ events' = Append(events,
            [action |-> IF issue = None THEN "create" ELSE "update",
             data |-> [f \in Fields |-> IF f \in said THEN new[f] ELSE Omitted],
             from |-> [f \in Fields |-> IF f \in changed THEN issue[f] ELSE Omitted]])
  /\ issue' = new /\ after' = Append(after, new)
  /\ entered' = entered \cup
       IF InScope(new) /\ (issue = None \/ ~InScope(issue)) THEN {Len(after')} ELSE {}
  /\ UNCHANGED <<filter, hand, receipts, runs, late, deliveries>>

-----------------------------------------------------------------------------
(* The hub *)

\* handoffLinearEvent: the event is normalised, with the issue read if it names no project.
Receive(k) ==
  /\ deliveries < MaxDeliveries /\ deliveries' = deliveries + 1
  /\ LET data == events[k].data
         read == IF Hydrates(data) THEN issue ELSE None IN
     /\ hand' = hand \cup {[of |-> k, issue |-> Normalised(data, read)]}
     /\ late' = IF read \notin {None, after[k]} THEN late \cup {k} ELSE late
  /\ UNCHANGED <<filter, issue, events, after, entered, receipts, runs>>

\* acceptAndDispatchLinearEvent: the first to claim the delivery's receipt is matched.
Accept(it) ==
  /\ hand' = hand \ {it}
  /\ receipts' = receipts \cup {it.of}
  /\ runs' = runs \cup
       IF it.of \notin receipts /\ Enters(events[it.of], it.issue) THEN {it.of} ELSE {}
  /\ UNCHANGED <<filter, issue, events, after, entered, late, deliveries>>

\* The issue cannot be read or the receipt not be written: the request is answered 503.
Fail(it) ==
  /\ hand' = hand \ {it}
  /\ UNCHANGED <<filter, issue, events, after, entered, receipts, runs, late, deliveries>>

Next ==
  \/ \E new \in Issues : Changes(new)
  \/ \E k \in DOMAIN events : Receive(k)
  \/ \E it \in hand : Accept(it) \/ Fail(it)

Spec == Init /\ [][Next]_vars

-----------------------------------------------------------------------------
(* Properties *)

\* What the hub can know of an event: it said everything, or it named no project and the
\* issue was read before it changed again.
Told(k) ==
  \/ \A f \in Fields : events[k].data[f] # Omitted
  \/ Hydrates(events[k].data) /\ k \notin late

\* In whatever order and however often the events come, an accepted one has a run if and
\* only if its change brought the issue into the scope (matchLinearTriggers).
EntriesRun == \A k \in receipts : Told(k) => (k \in runs <=> k \in entered)
=============================================================================
