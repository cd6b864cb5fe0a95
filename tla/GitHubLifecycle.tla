-------------------------- MODULE GitHubLifecycle --------------------------
(***************************************************************************)
(* GitHub suspends, restores or removes an installation and sends an       *)
(* event; the hub claims the delivery, asks GitHub for the state of the    *)
(* installation and writes what it was told into the binding               *)
(* (applyLifecycle of src/src/providers/github/index.ts and the lifecycle  *)
(* receipts of src/src/db/trigger-acceptance.ts). An administrator may     *)
(* bind the installation again meanwhile.                                  *)
(***************************************************************************)
EXTENDS Integers, FiniteSets

CONSTANTS Workers, None,
          MaxEvents,   \* bound on the events GitHub sends
          MaxSends,    \* bound on deliveries of them
          MaxOutages,  \* bound on failed calls
          MaxDeaths    \* bound on crashes

VARIABLES
  world,     \* the installation at GitHub
  status,    \* github_connections: "none", "active" or "suspended"
  events,    \* the kinds of the events sent so far
  claimed,   \* lifecycle receipts
  worker,    \* the requests under way
  answered,  \* deliveries answered 200
  overlapped,\* history: two requests had evidence at the same time, or one was
             \* answered as a duplicate while another was at work
  orphans,   \* history: deliveries whose claim was left behind
  sent, outages, deaths

vars == <<world, status, events, claimed, worker, answered, overlapped, orphans,
          sent, outages, deaths>>

States == {"active", "suspended", "absent"}
LifecycleAssumption == None \notin States
Resting == [pc |-> "idle", of |-> 0, evidence |-> None]
Deliveries == DOMAIN events
Busy == {w \in Workers : worker[w].evidence # None}

TypeOK ==
  /\ world \in States /\ status \in {"none", "active", "suspended"}
  /\ claimed \cup answered \cup orphans \subseteq Deliveries
  /\ \A w \in Workers :
       /\ worker[w].pc \in {"idle", "claimed", "fetched"}
       /\ worker[w].evidence \in States \cup {None}

Init ==
  /\ world = "active" /\ status \in {"none", "active"}
  /\ events = <<>>
  /\ claimed = {} /\ answered = {} /\ orphans = {}
  /\ worker = [w \in Workers |-> Resting]
  /\ overlapped = FALSE
  /\ sent = 0 /\ outages = 0 /\ deaths = 0

\* GitHub changes the installation, or only its repositories.
Happens(state) ==
  /\ Cardinality(Deliveries) < MaxEvents
  /\ world' = state
  /\ events' = [d \in 1..(Cardinality(Deliveries) + 1) |->
       IF d \in Deliveries THEN events[d]
       ELSE IF state = world THEN "installation_repositories" ELSE "installation"]
  /\ UNCHANGED <<status, claimed, worker, answered, overlapped, orphans, sent, outages, deaths>>

\* claimGitHubLifecycleReceipt: nothing is claimed for an unbound installation,
\* and a delivery that is claimed already is answered at once.
Claim(w, d) ==
  /\ worker[w].pc = "idle" /\ sent < MaxSends
  /\ sent' = sent + 1
  /\ IF status = "none" \/ d \in claimed
     THEN /\ answered' = answered \cup {d}
          /\ overlapped' = (overlapped \/ \E v \in Workers : worker[v].pc # "idle")
          /\ UNCHANGED <<worker, claimed>>
     ELSE /\ claimed' = claimed \cup {d}
          /\ worker' = [worker EXCEPT ![w] = [pc |-> "claimed", of |-> d, evidence |-> None]]
          /\ UNCHANGED <<answered, overlapped>>
  /\ UNCHANGED <<world, status, events, orphans, outages, deaths>>

\* client.getInstallation, or verifyUserInstallation of a callback.
Fetch(w) ==
  /\ worker[w].pc = "claimed"
  /\ worker' = [worker EXCEPT ![w].pc = "fetched", ![w].evidence = world]
  /\ overlapped' = (overlapped \/ Busy # {})
  /\ UNCHANGED <<world, status, events, claimed, answered, orphans, sent, outages, deaths>>

\* Mutant: an absent installation is recorded as the binding's status.
EvidenceVerbatim(now, evidence, kind) ==
  IF now = "none" THEN now ELSE evidence
\* The binding after applyGitHubLifecycle: absence removes it only on an event of
\* the installation itself.
Evidence(now, evidence, kind) ==
  IF now = "none" THEN now
  ELSE IF evidence # "absent" THEN evidence
  ELSE IF kind = "installation" THEN "none" ELSE now

\* applyGitHubLifecycle, under the lock of the claimed receipt.
Apply(w) ==
  LET d == worker[w].of IN
  /\ worker[w].pc = "fetched" /\ d # 0
  /\ status' = IF d \in claimed THEN Evidence(status, worker[w].evidence, events[d]) ELSE status
  /\ answered' = answered \cup {d}
  /\ worker' = [worker EXCEPT ![w] = Resting]
  /\ UNCHANGED <<world, events, claimed, overlapped, orphans, sent, outages, deaths>>

\* Mutant: the claim of a failed delivery stays.
Kept(d) == claimed
\* releaseGitHubLifecycleReceipt
Released(d) == claimed \ {d}

\* A call fails: the claim is released, unless that fails too, and the request
\* answered 500.
CallFails(w) ==
  /\ worker[w].pc \in {"claimed", "fetched"} /\ worker[w].of # 0
  /\ outages < MaxOutages
  /\ outages' = outages + 1
  /\ \/ claimed' = Released(worker[w].of) /\ UNCHANGED orphans
     \/ orphans' = orphans \cup {worker[w].of} /\ UNCHANGED claimed
  /\ worker' = [worker EXCEPT ![w] = Resting]
  /\ UNCHANGED <<world, status, events, answered, overlapped, sent, deaths>>

\* The process dies and the claims of its requests stay.
Die ==
  /\ deaths < MaxDeaths
  /\ deaths' = deaths + 1
  /\ orphans' = orphans \cup {worker[w].of : w \in {v \in Workers : worker[v].of # 0}}
  /\ worker' = [w \in Workers |-> Resting]
  /\ UNCHANGED <<world, status, events, claimed, answered, overlapped, sent, outages>>

\* An administrator binds the installation: GitHub is asked, then bindGitHub.
Rebind(w) ==
  /\ worker[w].pc = "idle" /\ sent < MaxSends /\ world # "absent"
  /\ sent' = sent + 1
  /\ worker' = [worker EXCEPT ![w] = [pc |-> "claimed", of |-> 0, evidence |-> None]]
  /\ UNCHANGED <<world, status, events, claimed, answered, overlapped, orphans, outages, deaths>>

Bind(w) ==
  /\ worker[w].pc = "fetched" /\ worker[w].of = 0
  /\ status' = IF worker[w].evidence = "absent" THEN status ELSE worker[w].evidence
  /\ worker' = [worker EXCEPT ![w] = Resting]
  /\ UNCHANGED <<world, events, claimed, answered, overlapped, orphans, sent, outages, deaths>>

Next ==
  \/ \E state \in States : Happens(state)
  \/ \E w \in Workers :
       \/ \E d \in Deliveries : Claim(w, d)
       \/ Fetch(w) \/ Apply(w) \/ CallFails(w) \/ Rebind(w) \/ Bind(w)
  \/ Die

Spec == Init /\ [][Next]_vars

-----------------------------------------------------------------------------
(* Properties *)

Settled == answered = Deliveries /\ \A w \in Workers : worker[w].pc = "idle"
Current == status \in {"none", world}

\* When every event was answered, the binding is as GitHub says (applyLifecycle), in
\* whatever order the deliveries came and however often they failed and were
\* repeated, if no two requests held evidence at the same time, no duplicate was
\* answered while another request was at work and none lost its claim.
SerialEvidenceConverges ==
  Settled /\ orphans = {} /\ ~overlapped => Current
=============================================================================
