------------------------------ MODULE Billing ------------------------------
(***************************************************************************)
(* The hosted billing of one organization (billing/index.ts): Stripe's     *)
(* subscriptions, the webhooks that announce their changes at least once   *)
(* and in any order, and what the hub makes of them, the plan stamped on   *)
(* the organization and the seats Stripe bills.                            *)
(*                                                                         *)
(* Work is done by workers: a webhook's handler, the report of seats after *)
(* a membership change, the trial at the organization's creation and a     *)
(* checkout.  Each await is a step.  Stripe is modelled by what the hub    *)
(* reads from it; a subscription's quantity is the seats it is billed for. *)
(* A list of subscriptions is remembered for five seconds: it may be       *)
(* forgotten at any time.                                                  *)
(***************************************************************************)
EXTENDS Naturals, FiniteSets

CONSTANTS Subscriptions, \* the subscriptions the customer may come to have
          Prices,        \* the prices of the paid plans
          Workers,       \* requests handled at the same time
          Free,          \* the stamp of an organization without a plan
          None,          \* no worker, no list, no subscription
          MaxSeats,      \* seats of the organization
          MaxChanges,    \* changes of seats, status and price by the world
          MaxFailures,   \* failed calls
          MaxRepeats     \* events delivered again after their acknowledgement

BillingAssumption ==
    /\ None \notin Subscriptions \cup Workers
    /\ Prices # {} /\ MaxSeats \in Nat \ {0}

VARIABLES
    subscription, \* Stripe's state per subscription: status, price, quantity
    due,          \* subscriptions with an event Stripe has yet to deliver
    checkouts,    \* open checkout sessions: their price and quantity
    mirrored,     \* prices in the catalog's mirror
    plan,         \* the stamp: Free or a price
    customer,     \* the hub knows the organization's Stripe customer
    seats,        \* members and pending invitations
    list,         \* the remembered list: the statuses it was read with, or None
    holder,       \* the worker with the organization's advisory lock
    task,         \* per worker: what it does
    trialled,     \* the signup's trial was begun
    last,         \* history: the subscription reconciled last
    astray,       \* history: a report failed, missed the live subscription, or two were live
    changes, failures, repeats

vars == <<subscription, due, checkouts, mirrored, plan, customer, seats, list,
          holder, task, trialled, last, astray, changes, failures, repeats>>

world == <<mirrored, plan, customer, seats, trialled, last>>
bounds == <<changes, failures, repeats>>

Stampable == {"trialing", "active"}
Terminal == {"canceled"}
Live == Stampable \cup {"past_due"}

Idle == [job |-> "none", at |-> "none", sub |-> None, state |-> None, count |-> 0]
Jobs == {"none", "webhook", "seats", "trial", "checkout"}
Steps == {"none", "list", "asked", "act", "wait", "locked", "stamp", "seats", "report"}

Statuses == [s \in Subscriptions |-> subscription[s].status]

(* find: the first subscription of a list that is not over.                *)
Current(l) ==
    LET live == { s \in Subscriptions : l[s] \in Live }
    IN IF live = {} THEN None ELSE CHOOSE s \in live : TRUE

Unused == { s \in Subscriptions : subscription[s].status = "none" }

TypeOK ==
    /\ subscription \in [Subscriptions -> [status : {"none"} \cup Live \cup Terminal,
                                           price : Prices, quantity : 0 .. MaxSeats]]
    /\ due \subseteq Subscriptions /\ mirrored \subseteq Prices
    /\ checkouts \subseteq [price : Prices, quantity : 0 .. MaxSeats]
    /\ plan \in Prices \cup {Free} /\ customer \in BOOLEAN /\ seats \in 1 .. MaxSeats
    /\ holder \in Workers \cup {None}
    /\ \A w \in Workers : task[w].job \in Jobs /\ task[w].at \in Steps
    /\ holder # None => task[holder].at \in {"locked", "stamp", "seats", "report"}

Init ==
    /\ subscription = [s \in Subscriptions |->
                           [status |-> "none", price |-> CHOOSE p \in Prices : TRUE, quantity |-> 0]]
    /\ due = {} /\ checkouts = {} /\ mirrored \in {{}, Prices}
    /\ plan = Free /\ customer = FALSE /\ seats = 1
    /\ list = None /\ holder = None
    /\ task = [w \in Workers |-> Idle]
    /\ trialled = FALSE /\ last = None /\ astray = FALSE
    /\ changes = 0 /\ failures = 0 /\ repeats = 0

To(w, step) == task' = [task EXCEPT ![w].at = step]
Ends(w) == task' = [task EXCEPT ![w] = Idle]

-----------------------------------------------------------------------------
(* Stripe and the members of the organization.                             *)

(* The owner pays a checkout session, cancels in the portal, a payment     *)
(* fails or succeeds again: each is announced by an event.                 *)
CompleteCheckout ==
    \E c \in checkouts, s \in Unused :
        /\ subscription' = [subscription EXCEPT
               ![s] = [status |-> "active", price |-> c.price, quantity |-> c.quantity]]
        /\ checkouts' = checkouts \ {c}
        /\ due' = due \cup {s}
        /\ astray' = (astray \/ Current(Statuses) # None)
        /\ UNCHANGED <<world, list, holder, task, bounds>>

StatusChanges ==
    \E s \in Subscriptions, status \in {"active", "past_due", "canceled"} :
        /\ changes < MaxChanges
        /\ subscription[s].status \in Live \ {status}
        /\ subscription' = [subscription EXCEPT ![s].status = status]
        /\ due' = due \cup {s}
        /\ changes' = changes + 1
        /\ UNCHANGED <<world, checkouts, list, holder, task, astray, failures, repeats>>

(* Stripe delivers an event again that was acknowledged.                   *)
Repeat ==
    \E s \in Subscriptions \ (due \cup Unused) :
        /\ repeats < MaxRepeats
        /\ due' = due \cup {s}
        /\ repeats' = repeats + 1
        /\ UNCHANGED <<world, subscription, checkouts, list, holder, task, astray, changes, failures>>

ForgetList ==
    /\ list # None
    /\ list' = None
    /\ UNCHANGED <<world, subscription, due, checkouts, holder, task, astray, bounds>>

-----------------------------------------------------------------------------
(* Requests begin.                                                         *)

(* reconcileSubscriptionEvent: a first read tells the organization.        *)
Deliver(w) ==
    \E s \in due :
        /\ task[w] = Idle
        /\ due' = due \ {s}
        /\ task' = [task EXCEPT ![w] =
               [Idle EXCEPT !.job = "webhook", !.at = "wait", !.sub = s,
                     !.state = subscription[s], !.count = seats]]
        /\ UNCHANGED <<world, subscription, checkouts, list, holder, astray, bounds>>

(* A membership change commits; notifyMembershipChanged reports the seats. *)
ChangeSeats(w) ==
    \E n \in 1 .. MaxSeats :
        /\ task[w] = Idle /\ n # seats /\ changes < MaxChanges
        /\ seats' = n
        /\ changes' = changes + 1
        /\ task' = [task EXCEPT ![w] =
               IF customer THEN [Idle EXCEPT !.job = "seats", !.at = "list", !.count = n] ELSE Idle]
        /\ UNCHANGED <<subscription, due, checkouts, mirrored, plan, customer, list, holder,
                       trialled, last, astray, failures, repeats>>

(* startTrial, once, for the organization just created.                    *)
BeginTrial(w) ==
    /\ task[w] = Idle /\ ~trialled /\ mirrored # {}
    /\ trialled' = TRUE
    /\ task' = [task EXCEPT ![w] = [Idle EXCEPT !.job = "trial", !.at = "list"]]
    /\ UNCHANGED <<subscription, due, checkouts, mirrored, plan, customer, seats, list, holder,
                   last, astray, bounds>>

(* createCheckout for a price of the mirror.                               *)
BeginCheckout(w) ==
    \E p \in mirrored :
        /\ task[w] = Idle /\ changes < MaxChanges
        /\ changes' = changes + 1
        /\ task' = [task EXCEPT ![w] =
               [Idle EXCEPT !.job = "checkout", !.at = "list", !.state = p]]
        /\ UNCHANGED <<world, subscription, due, checkouts, list, holder, astray, failures, repeats>>

-----------------------------------------------------------------------------
(* customerSubscriptions: the remembered list, or a request whose answer   *)
(* is remembered when it arrives, whatever was forgotten meanwhile.        *)

Chosen(w, l) ==
    LET found == Current(l)
    IN CASE task[w].job = "seats" /\ found = None -> [task EXCEPT ![w] = Idle]
         [] task[w].job = "seats" /\ found # None ->
                [task EXCEPT ![w].at = "wait", ![w].sub = found]
         [] task[w].job = "trial" /\ \E s \in Subscriptions : l[s] # "none" ->
                [task EXCEPT ![w] = Idle]
         [] OTHER -> [task EXCEPT ![w].at = "act", ![w].sub = found, ![w].count = seats]

Missed(w, l) == task[w].job = "seats" /\ Current(l) # Current(Statuses)

UseList(w) ==
    /\ task[w].at = "list" /\ list # None
    /\ task' = Chosen(w, list)
    /\ astray' = (astray \/ Missed(w, list))
    /\ UNCHANGED <<world, subscription, due, checkouts, list, holder, bounds>>

AskList(w) ==
    /\ task[w].at = "list" /\ list = None
    /\ task' = [task EXCEPT ![w].at = "asked",
                            ![w].state = [asked |-> Statuses, for |-> @]]
    /\ UNCHANGED <<world, subscription, due, checkouts, list, holder, astray, bounds>>

ListArrives(w) ==
    /\ task[w].at = "asked"
    /\ list' = task[w].state.asked
    /\ LET l == task[w].state.asked IN
         /\ task' = [Chosen(w, l) EXCEPT ![w].state = IF Chosen(w, l)[w] = Idle THEN None
                                                      ELSE task[w].state.for]
         /\ astray' = (astray \/ Missed(w, l))
    /\ UNCHANGED <<world, subscription, due, checkouts, holder, bounds>>

(* createTrialSubscription, changeSubscriptionPrice or                     *)
(* createCheckoutSession, then invalidateSubscriptions.                    *)
StartTrial(w) ==
    \E s \in Unused, p \in mirrored :
        /\ task[w].job = "trial" /\ task[w].at = "act"
        /\ subscription' = [subscription EXCEPT
               ![s] = [status |-> "trialing", price |-> p, quantity |-> task[w].count]]
        /\ due' = due \cup {s}
        /\ list' = None
        /\ astray' = (astray \/ Current(Statuses) # None)
        /\ task' = [task EXCEPT ![w].at = "wait", ![w].sub = s]
        /\ UNCHANGED <<world, checkouts, holder, bounds>>

Checkout(w) ==
    /\ task[w].job = "checkout" /\ task[w].at = "act"
    /\ list' = None
    /\ Ends(w)
    /\ IF task[w].sub # None
       THEN /\ subscription' = [subscription EXCEPT ![task[w].sub].price = task[w].state]
            /\ due' = due \cup {task[w].sub}
            /\ UNCHANGED checkouts
       ELSE /\ checkouts' = checkouts \cup {[price |-> task[w].state, quantity |-> task[w].count]}
            /\ UNCHANGED <<subscription, due>>
    /\ UNCHANGED <<world, holder, astray, bounds>>

-----------------------------------------------------------------------------
(* Under the organization's lock.                                          *)

TakeLock(w) ==
    /\ task[w].at = "wait" /\ holder = None
    /\ holder' = w
    /\ To(w, "locked")
    /\ UNCHANGED <<world, subscription, due, checkouts, list, astray, bounds>>

(* The state a webhook's first read found.                                 *)
Remembered(w) == IF task[w].job = "webhook" THEN task[w].state ELSE subscription[task[w].sub]

(* "the state is re-read inside that lock".                                *)
Reread(w) == subscription[task[w].sub]

(* getSubscription, and for a live one whose price is not mirrored a       *)
(* resync of the catalog.                                                  *)
ReadState(w) ==
    /\ task[w].at = "locked"
    /\ LET state == Reread(w) IN
         /\ task' = [task EXCEPT ![w].state = state,
                                 ![w].at = IF task[w].job = "seats" THEN "seats" ELSE "stamp"]
         /\ mirrored' = IF task[w].job = "seats" \/ state.status \in Terminal \/ state.price \in mirrored
                        THEN mirrored ELSE Prices
    /\ UNCHANGED <<subscription, due, checkouts, plan, customer, seats, list, holder, trialled,
                   last, astray, bounds>>

(* resolveStamp: a terminal subscription stamps Free, a stampable one its  *)
(* plan, and any other leaves the last stamp.                              *)
StampOf(state) ==
    IF state.status \in Terminal THEN Free
    ELSE IF state.status \in Stampable THEN state.price ELSE plan

(* reconcileOrganizationBilling: customer and stamp in one transaction.    *)
Stamp(w) ==
    /\ task[w].at = "stamp"
    /\ list' = None
    /\ customer' = TRUE
    /\ plan' = StampOf(task[w].state)
    /\ last' = task[w].sub
    /\ To(w, "seats")
    /\ UNCHANGED <<subscription, due, checkouts, mirrored, seats, holder, trialled, astray, bounds>>

(* The seats at the request's beginning.                                   *)
CountedBefore(w) == task[w].count

(* settleSeatQuantity counts the seats under the lock ...                  *)
Counted(w) == seats

CountSeats(w) ==
    /\ task[w].at = "seats" /\ task[w].state.status \in Stampable
    /\ task' = [task EXCEPT ![w].count = Counted(w), ![w].at = "report"]
    /\ UNCHANGED <<world, subscription, due, checkouts, list, holder, astray, bounds>>

(* ... and reports them when they are not what is billed; the lock is      *)
(* released and the request answered.                                      *)
Report(w) ==
    /\ \/ task[w].at = "report"
       \/ task[w].at = "seats" /\ task[w].state.status \notin Stampable
    /\ LET differs == task[w].at = "report" /\ task[w].count # task[w].state.quantity IN
         /\ subscription' = IF differs
                            THEN [subscription EXCEPT ![task[w].sub].quantity = task[w].count]
                            ELSE subscription
         /\ due' = IF differs THEN due \cup {task[w].sub} ELSE due
    /\ holder' = None
    /\ Ends(w)
    /\ UNCHANGED <<world, checkouts, list, astray, bounds>>

(* A call fails, or the process dies: a webhook is answered 503 and comes  *)
(* again, a report of seats is given up, a trial's event is delivered.     *)
Fail(w) ==
    /\ task[w] # Idle /\ failures < MaxFailures
    /\ failures' = failures + 1
    /\ due' = IF task[w].job = "webhook" THEN due \cup {task[w].sub} ELSE due
    /\ holder' = IF holder = w THEN None ELSE holder
    /\ astray' = (astray \/ task[w].job = "seats")
    /\ Ends(w)
    /\ UNCHANGED <<world, subscription, checkouts, list, changes, repeats>>

-----------------------------------------------------------------------------
Works(w) ==
    \/ UseList(w) \/ AskList(w) \/ ListArrives(w) \/ StartTrial(w) \/ Checkout(w)
    \/ TakeLock(w) \/ ReadState(w) \/ Stamp(w) \/ CountSeats(w) \/ Report(w)

Next ==
    \/ CompleteCheckout \/ StatusChanges \/ Repeat \/ ForgetList
    \/ \E w \in Workers :
           \/ Deliver(w) \/ ChangeSeats(w) \/ BeginTrial(w) \/ BeginCheckout(w)
           \/ Works(w) \/ Fail(w)

Spec == Init /\ [][Next]_vars

-----------------------------------------------------------------------------
AtRest == due = {} /\ \A w \in Workers : task[w] = Idle

(* Once every event is handled the stamp is that of the subscription       *)
(* reconciled last, as it is at Stripe now: late, repeated and overlapping *)
(* deliveries converge on the live state (reconcileSubscriptionEvent).     *)
StampConverges ==
    AtRest /\ last # None =>
        LET state == subscription[last]
        IN /\ state.status \in Stampable => plan = state.price
           /\ state.status \in Terminal => plan = Free

(* Once every event is handled Stripe bills the seats the organization     *)
(* has, whatever changed while a report was under way, unless a report     *)
(* failed or did not find the subscription, or two were live               *)
(* (settleSeatQuantity, reportSeatUsage).                                  *)
SeatsAreBilled ==
    AtRest /\ ~astray =>
        \A s \in Subscriptions : subscription[s].status \in Stampable =>
            subscription[s].quantity = seats

=============================================================================
