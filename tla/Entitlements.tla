---------------------------- MODULE Entitlements ----------------------------
(***************************************************************************)
(* What one organization is entitled to: the template its plan stamps, the *)
(* overrides an operator sets over it, the trail of both, and the meter    *)
(* that pays for executions (src/src/entitlements, and the transactions of *)
(* src/src/db/pg.ts). The document has a cap and a meter; flags are caps   *)
(* with two values here. The engine's own steps are WorkflowEngine's, where*)
(* the limit does not change.                                              *)
(***************************************************************************)
EXTENDS Integers, Sequences, FiniteSets

CONSTANTS Keys,      \* of the document, "executions" among them
          Limits,    \* the values a key may have
          Unlimited, \* one of them
          None,
          Writers, Creators,
          MaxChanges, \* bound on the changes of the document
          Months, MaxCreated

VARIABLES
  granted, overrides, \* organization_entitlements
  trail,              \* entitlement_changes: [before, after]
  tx,                 \* a writer's transaction: None, or its change and the row it read
  asked,              \* what the committed overrides and clears ask for, key by key
  month,              \* the current period
  usage,              \* organization_usage, by period
  reservation,        \* what a creator read: None, or [period, limit]
  created             \* by period, the executions created
vars == <<granted, overrides, trail, tx, asked, month, usage, reservation, created>>

Values == Limits \cup {None}
Row == [granted |-> granted, overrides |-> overrides]
Effective(row) ==
  [k \in Keys |-> IF row.overrides[k] # None THEN row.overrides[k] ELSE row.granted[k]]

\* The document has the meter's key, and there is a first month.
EntitlementsAssumption ==
  /\ "executions" \in Keys
  /\ MaxChanges \in Nat /\ Months \in Nat \ {0} /\ MaxCreated \in Nat

TypeOK ==
  /\ granted \in [Keys -> Limits] /\ overrides \in [Keys -> Values]
  /\ asked \in [Keys -> Values]
  /\ month \in 1..Months
  /\ usage \in [1..Months -> 0..MaxCreated] /\ created \in [1..Months -> 0..MaxCreated]
  /\ Len(trail) <= MaxChanges + 1

\* An organization is provisioned with its row and the first entry of the trail.
Init ==
  /\ granted \in [Keys -> Limits]
  /\ overrides = [k \in Keys |-> None]
  /\ trail = <<[before |-> None, after |-> Row]>>
  /\ tx = [w \in Writers |-> None]
  /\ asked = [k \in Keys |-> None]
  /\ month = 1
  /\ usage = [m \in 1..Months |-> 0] /\ created = [m \in 1..Months |-> 0]
  /\ reservation = [c \in Creators |-> None]

meter == <<month, usage, reservation, created>>

-----------------------------------------------------------------------------
(* The writers: a transaction reads the row for update and writes it.       *)
Changes ==
  [kind : {"override"}, patch : [Keys -> Values] \ {[k \in Keys |-> None]}]
    \cup [kind : {"clear"}, key : Keys] \cup [kind : {"stamp"}, template : [Keys -> Limits]]

\* Mutant: the row is not held.
Unheld == TRUE
RowIsFree == \A w \in Writers : tx[w] = None

Begin(w) ==
  /\ tx[w] = None /\ RowIsFree /\ Len(trail) <= MaxChanges
  /\ \E c \in Changes : tx' = [tx EXCEPT ![w] = [change |-> c, base |-> Row]]
  /\ UNCHANGED <<granted, overrides, trail, asked, meter>>

\* mergeOverrides: what the patch leaves out keeps its override.
MergeOverrides(existing, patch) ==
  [k \in Keys |-> IF patch[k] # None THEN patch[k] ELSE existing[k]]
ClearOverrideKey(existing, key) == [existing EXCEPT ![key] = None]

Write(row, w) ==
  /\ granted' = row.granted /\ overrides' = row.overrides
  /\ trail' = Append(trail, [before |-> tx[w].base, after |-> row])
  /\ tx' = [tx EXCEPT ![w] = None]
  /\ UNCHANGED meter

Override(w) ==
  /\ tx[w] # None /\ tx[w].change.kind = "override"
  /\ Write([tx[w].base EXCEPT !.overrides = MergeOverrides(@, tx[w].change.patch)], w)
  /\ asked' = MergeOverrides(asked, tx[w].change.patch)

ClearOverride(w) ==
  /\ tx[w] # None /\ tx[w].change.kind = "clear"
  /\ Write([tx[w].base EXCEPT !.overrides = ClearOverrideKey(@, tx[w].change.key)], w)
  /\ asked' = ClearOverrideKey(asked, tx[w].change.key)

\* Mutant: a stamp starts afresh.
Afresh(row, template) == [granted |-> template, overrides |-> [k \in Keys |-> None]]
Stamped(row, template) == [row EXCEPT !.granted = template]

\* A stamp that changes nothing writes nothing.
Stamp(w) ==
  /\ tx[w] # None /\ tx[w].change.kind = "stamp"
  /\ IF tx[w].base.granted = tx[w].change.template
     THEN tx' = [tx EXCEPT ![w] = None] /\ UNCHANGED <<granted, overrides, trail, meter>>
     ELSE Write(Stamped(tx[w].base, tx[w].change.template), w)
  /\ UNCHANGED asked

-----------------------------------------------------------------------------
(* The meter.                                                               *)
document == <<granted, overrides, trail, tx, asked>>

NextMonth ==
  /\ month < Months
  /\ month' = month + 1
  /\ UNCHANGED <<document, usage, reservation, created>>

\* meterReservation: the period and the limit, read before the execution is created.
ReadReservation(c) ==
  /\ reservation[c] = None
  /\ reservation' = [reservation EXCEPT ![c] =
       [period |-> month, limit |-> Effective(Row)["executions"]]]
  /\ UNCHANGED <<document, month, usage, created>>

\* Mutant: one more fits.
OneMore(used, limit) == limit = Unlimited \/ used <= limit
Fits(used, limit) == limit = Unlimited \/ used + 1 <= limit

\* reserveOrganizationUsageOnClient, with the insert of the execution.
Create(c) ==
  LET r == reservation[c] IN
  /\ r # None /\ created[r.period] < MaxCreated
  /\ reservation' = [reservation EXCEPT ![c] = None]
  /\ IF Fits(usage[r.period], r.limit)
     THEN /\ usage' = [usage EXCEPT ![r.period] = @ + 1]
          /\ created' = [created EXCEPT ![r.period] = @ + 1]
     ELSE UNCHANGED <<usage, created>>
  /\ UNCHANGED <<document, month>>

Next ==
  \/ \E w \in Writers : Begin(w) \/ Override(w) \/ ClearOverride(w) \/ Stamp(w)
  \/ NextMonth
  \/ \E c \in Creators : ReadReservation(c) \/ Create(c)

Spec == Init /\ [][Next]_vars

-----------------------------------------------------------------------------
\* The overrides are what the operators asked for, key by key, whichever overrides, clears
\* and stamps overlapped (service.ts override: two overrides must not read the same base;
\* a stamp never clobbers a deal).
OverridesAreKept == overrides = asked

\* The trail explains the row: each entry begins where the one before it ended, and the
\* last ends at the row (entitlement_changes).
TrailIsChained ==
  /\ \A i \in 2..Len(trail) : trail[i].before = trail[i - 1].after
  /\ trail[Len(trail)].after = Row

\* A period's usage is the executions created under it, and never more than some limit
\* the organization had (reserveOrganizationUsageOnClient, meterReservation).
UsageIsCovered ==
  \A m \in 1..Months :
    /\ usage[m] = created[m]
    /\ usage[m] > 0 => \E i \in DOMAIN trail :
         LET limit == Effective(trail[i].after)["executions"] IN
         limit = Unlimited \/ usage[m] <= limit
=============================================================================
