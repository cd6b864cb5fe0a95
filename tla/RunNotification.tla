-------------------------- MODULE RunNotification --------------------------
(***************************************************************************)
(* How a provider learns about a run: the reactions "accepted" and         *)
(* "started", which are tried once, and the terminal notification, an      *)
(* outbox on the run's row that is retried under a lease until delivered   *)
(* (src/src/workflows/engine.ts, the notification queries of               *)
(* src/src/db/pg.ts and the reactions of triggers/discord/provider.ts).    *)
(*                                                                         *)
(* The engine itself is WorkflowEngine: here a run only starts and ends.   *)
(* One call of the provider is one step; the delivery pass of a process is *)
(* split where JavaScript may run something else in between.               *)
(***************************************************************************)
EXTENDS Integers, FiniteSets

CONSTANTS Runs, NoRun,
          Hubs,      \* Hub processes on the same database
          NoHub,
          MaxFaults  \* bound on crashes, stops and rejected calls

NotificationAssumption == MaxFaults \in Nat /\ NoRun \notin Runs /\ NoHub \notin Hubs

Ended == {"succeeded", "failed"}
Phase == {"null", "accepted", "started"}       \* trigger_runs.reaction_state
Marker == {"eyes", "hourglass", "outcome"}     \* the bot's reactions on the message

VARIABLES
  status,     \* trigger_runs.status; its end sets terminal_notification_pending_at
  delivered,  \* terminal_notification_delivered_at is set
  lease,      \* terminal_notification_lease_expires_at: "none", "leased" or "lapsed"
  reaction,   \* trigger_runs.reaction_state
  markers,    \* what the provider shows
  credit,     \* history: 1, plus the leases that lapsed, less the terminal calls made
  task,       \* the accepted and the started reaction of each run
  pass,       \* each process's terminal delivery
  faults

vars == <<status, delivered, lease, reaction, markers, credit, task, pass, faults>>

NoTask == [pc |-> "none", hub |-> NoHub, seen |-> "null"]
Asleep == [pc |-> "off", at |-> NoRun, seen |-> "null",
           requested |-> FALSE, owed |-> FALSE, stopped |-> FALSE]

Init ==
  /\ status = [r \in Runs |-> "none"]
  /\ delivered = [r \in Runs |-> FALSE]
  /\ lease = [r \in Runs |-> "none"]
  /\ reaction = [r \in Runs |-> "null"]
  /\ markers = [r \in Runs |-> {}]
  /\ credit = [r \in Runs |-> 1]
  /\ task = [k \in {"accepted", "started"} |-> [r \in Runs |-> NoTask]]
  /\ pass = [h \in Hubs |-> Asleep]
  /\ faults = 0

Fault == faults < MaxFaults /\ faults' = faults + 1

-----------------------------------------------------------------------------
(* The run and its first two reactions *)

\* enqueue: the process that stored the run delivers "accepted".
Accept(h, r) ==
  /\ status[r] = "none" /\ ~pass[h].stopped
  /\ status' = [status EXCEPT ![r] = "running"]
  /\ task' = [task EXCEPT !["accepted"][r] = [pc |-> "call", hub |-> h, seen |-> "null"]]
  /\ UNCHANGED <<delivered, lease, reaction, markers, credit, pass, faults>>

\* The engine of a process waits for the "started" reaction it delivers.
Busy(h) == \E r \in Runs : task["started"][r].hub = h

\* linkWorkflowStepAndNotifyStart, after the hand-off of the run's first step
Start(h, r) ==
  /\ status[r] = "running" /\ task["started"][r] = NoTask
  /\ ~Busy(h) /\ ~pass[h].stopped
  /\ task' = [task EXCEPT !["started"][r] = [pc |-> "read", hub |-> h, seen |-> "null"]]
  /\ UNCHANGED <<status, delivered, lease, reaction, markers, credit, pass, faults>>

\* findTriggerRunById, whatever has become of the run
ReadRun(r) ==
  /\ task["started"][r].pc = "read"
  /\ task' = [task EXCEPT !["started"][r].pc = "call", !["started"][r].seen = reaction[r]]
  /\ UNCHANGED <<status, delivered, lease, reaction, markers, credit, pass, faults>>

\* Mutant: the phase is taken for the emoji.
ReactedWithPhase(k, seen, shown) == shown \cup {k}

\* onDispatchAccepted, onAgentExecutionStarted
Reacted(k, seen, shown) ==
  IF k = "accepted" THEN (IF seen = "null" THEN shown \cup {"eyes"} ELSE shown)
  ELSE (IF seen = "started" THEN shown ELSE (shown \ {"eyes"}) \cup {"hourglass"})

\* deliverWorkflowRunAccepted, deliverWorkflowRunStarted: the call; a rejected
\* one is reported and not tried again.
CallReaction(k, r) ==
  /\ task[k][r].pc = "call"
  /\ \/ /\ markers' = [markers EXCEPT ![r] = Reacted(k, task[k][r].seen, @)]
        /\ task' = [task EXCEPT ![k][r].pc = "write"]
        /\ UNCHANGED faults
     \/ /\ Fault
        /\ task' = [task EXCEPT ![k][r] = [NoTask EXCEPT !.pc = "done"]]
        /\ UNCHANGED markers
  /\ UNCHANGED <<status, delivered, lease, reaction, credit, pass>>

\* setWorkflowRunReactionState
WriteReaction(k, r) ==
  /\ task[k][r].pc = "write"
  /\ reaction' = [reaction EXCEPT ![r] = k]
  /\ task' = [task EXCEPT ![k][r] = [NoTask EXCEPT !.pc = "done"]]
  /\ UNCHANGED <<status, delivered, lease, markers, credit, pass, faults>>

\* A transaction outside the engine ends the run: nobody is told of it.
End(r, outcome) ==
  /\ status[r] = "running"
  /\ status' = [status EXCEPT ![r] = outcome]
  /\ UNCHANGED <<delivered, lease, reaction, markers, credit, task, pass, faults>>

\* The engine of h ends the run and is going to announce it.
EngineEnds(h, r, outcome) ==
  /\ status[r] = "running"
  /\ ~Busy(h) /\ ~pass[h].stopped /\ ~pass[h].owed
  /\ status' = [status EXCEPT ![r] = outcome]
  /\ pass' = [pass EXCEPT ![h].owed = TRUE]
  /\ UNCHANGED <<delivered, lease, reaction, markers, credit, task, faults>>

-----------------------------------------------------------------------------
(* The terminal delivery of a process *)

\* Mutant: a request during a pass is not remembered.
KickedOnlyWhenIdle(p) ==
  IF p.stopped \/ p.pc # "off" THEN p ELSE [p EXCEPT !.pc = "claim", !.requested = FALSE]

\* kickTerminalNotificationRecovery: start a pass, or ask the one that runs to
\* look again.
Kicked(p) ==
  IF p.stopped THEN p
  ELSE IF p.pc = "off" THEN [p EXCEPT !.pc = "claim", !.requested = FALSE]
  ELSE [p EXCEPT !.requested = TRUE]

\* notifyWorkflowRunTerminal
Announce(h) ==
  /\ pass[h].owed
  /\ pass' = [pass EXCEPT ![h] = Kicked([pass[h] EXCEPT !.owed = FALSE])]
  /\ UNCHANGED <<status, delivered, lease, reaction, markers, credit, task, faults>>

\* Every pass of the engine kicks, also when nothing ended.
Tick(h) ==
  /\ ~Busy(h) /\ ~pass[h].owed /\ ~pass[h].stopped
  /\ pass' = [pass EXCEPT ![h] = Kicked(pass[h])]
  /\ UNCHANGED <<status, delivered, lease, reaction, markers, credit, task, faults>>

\* Mutants: the lease of another delivery is ignored; a lapsed one is not taken over.
TerminalIgnoringLease == {r \in Runs : status[r] \in Ended /\ ~delivered[r]}
TerminalNeverLeased == {r \in Runs : status[r] \in Ended /\ ~delivered[r] /\ lease[r] = "none"}

ClaimableTerminal ==
  {r \in Runs : status[r] \in Ended /\ ~delivered[r] /\ lease[r] # "leased"}

\* claimPendingWorkflowRunTerminalNotification; a query that fails ends the pass.
ClaimTerminal(h) ==
  /\ pass[h].pc = "claim"
  /\ \/ \E r \in ClaimableTerminal :
          /\ lease' = [lease EXCEPT ![r] = "leased"]
          /\ pass' = [pass EXCEPT ![h].pc = "call", ![h].at = r, ![h].seen = reaction[r]]
          /\ UNCHANGED faults
     \/ /\ ClaimableTerminal = {}
        /\ pass' = [pass EXCEPT ![h].pc = "empty"]
        /\ UNCHANGED <<lease, faults>>
     \/ /\ Fault
        /\ pass' = [pass EXCEPT ![h].pc = "finally"]
        /\ UNCHANGED lease
  /\ UNCHANGED <<status, delivered, reaction, markers, credit, task>>

\* onAgentExecutionCompleted assumes "started" when it knows no phase,
\* onAgentExecutionFailed removes both reactions then.
Removed(outcome, seen) ==
  CASE seen = "accepted" -> {"eyes"}
    [] seen = "started" \/ outcome = "succeeded" -> {"hourglass"}
    [] OTHER -> {"eyes", "hourglass"}

\* The next claim, unless the engine was stopped meanwhile.
LookAgain(h) ==
  pass' = [pass EXCEPT ![h].pc = IF pass[h].stopped THEN "empty" ELSE "claim",
                       ![h].at = NoRun, ![h].seen = "null"]

\* Mutant: a failed delivery is recorded as delivered.
CallTerminalAndForget(h) ==
  LET r == pass[h].at IN
  /\ pass[h].pc = "call"
  /\ \/ /\ markers' = [markers EXCEPT ![r] =
                         (@ \ Removed(status[r], pass[h].seen)) \cup {"outcome"}]
        /\ credit' = [credit EXCEPT ![r] = @ - 1]
        /\ pass' = [pass EXCEPT ![h].pc = "mark"]
        /\ UNCHANGED faults
     \/ /\ Fault
        /\ pass' = [pass EXCEPT ![h].pc = "mark"]
        /\ UNCHANGED <<markers, credit>>
  /\ UNCHANGED <<status, delivered, lease, reaction, task>>

\* notifyWorkflowRunTerminal of the lifecycle: the call may be rejected, without
\* effect or after it; the lease is kept then.
CallTerminal(h) ==
  LET r == pass[h].at IN
  /\ pass[h].pc = "call"
  /\ \/ /\ markers' = [markers EXCEPT ![r] =
                         (@ \ Removed(status[r], pass[h].seen)) \cup {"outcome"}]
        /\ credit' = [credit EXCEPT ![r] = @ - 1]
        /\ \/ pass' = [pass EXCEPT ![h].pc = "mark"] /\ UNCHANGED faults
           \/ Fault /\ LookAgain(h)
     \/ /\ Fault
        /\ LookAgain(h)
        /\ UNCHANGED <<markers, credit>>
  /\ UNCHANGED <<status, delivered, lease, reaction, task>>

\* markWorkflowRunTerminalNotificationDelivered
MarkDelivered(h) ==
  LET r == pass[h].at IN
  /\ pass[h].pc = "mark"
  /\ IF delivered[r] THEN UNCHANGED <<reaction, delivered, lease>>
     ELSE /\ reaction' = [reaction EXCEPT ![r] = "null"]
          /\ delivered' = [delivered EXCEPT ![r] = TRUE]
          /\ lease' = [lease EXCEPT ![r] = "none"]
  /\ LookAgain(h)
  /\ UNCHANGED <<status, markers, credit, task, faults>>

\* The loop of recoverRequestedWorkflowRunTerminalNotifications ...
RepeatPass(h) ==
  /\ pass[h].pc = "empty"
  /\ pass' = [pass EXCEPT ![h] =
                IF pass[h].requested /\ ~pass[h].stopped
                THEN [pass[h] EXCEPT !.requested = FALSE, !.pc = "claim"]
                ELSE [pass[h] EXCEPT !.pc = "finally"]]
  /\ UNCHANGED <<status, delivered, lease, reaction, markers, credit, task, faults>>

\* ... and its finally, which runs later and finds requests made in between.
FinallyPass(h) ==
  /\ pass[h].pc = "finally"
  /\ LET p == [pass[h] EXCEPT !.pc = "off"] IN
     pass' = [pass EXCEPT ![h] = IF p.requested THEN Kicked(p) ELSE p]
  /\ UNCHANGED <<status, delivered, lease, reaction, markers, credit, task, faults>>

LeaseLapses(r) ==
  /\ lease[r] = "leased"
  /\ lease' = [lease EXCEPT ![r] = "lapsed"]
  /\ credit' = [credit EXCEPT ![r] = @ + 1]
  /\ UNCHANGED <<status, delivered, reaction, markers, task, pass, faults>>

\* stop: what runs is finished, nothing is begun.
Stop(h) ==
  /\ ~pass[h].stopped
  /\ Fault
  /\ pass' = [pass EXCEPT ![h].stopped = TRUE]
  /\ UNCHANGED <<status, delivered, lease, reaction, markers, credit, task>>

\* The process ends, by itself once stopped, and is started again.
Restart(h) ==
  /\ IF pass[h].stopped THEN pass[h].pc = "off" /\ ~Busy(h) /\ UNCHANGED faults ELSE Fault
  /\ pass' = [pass EXCEPT ![h] = Asleep]
  /\ task' = [k \in DOMAIN task |-> [r \in Runs |->
                IF task[k][r].hub = h THEN [NoTask EXCEPT !.pc = "done"] ELSE task[k][r]]]
  /\ UNCHANGED <<status, delivered, lease, reaction, markers, credit>>

Passing(h) ==
  Announce(h) \/ ClaimTerminal(h) \/ CallTerminal(h) \/ MarkDelivered(h)
  \/ RepeatPass(h) \/ FinallyPass(h)

Reacting(r) ==
  ReadRun(r) \/ \E k \in {"accepted", "started"} : CallReaction(k, r) \/ WriteReaction(k, r)

Next ==
  \/ \E h \in Hubs : Tick(h) \/ Passing(h) \/ Stop(h) \/ Restart(h)
  \/ \E r \in Runs : Reacting(r) \/ LeaseLapses(r)
  \/ \E h \in Hubs, r \in Runs : Accept(h, r) \/ Start(h, r)
  \/ \E r \in Runs, outcome \in Ended : End(r, outcome) \/ \E h \in Hubs : EngineEnds(h, r, outcome)

Spec == Init /\ [][Next]_vars

\* A delivery pass settles; the other reactions may hang.
PassFairness == \A h \in Hubs : WF_vars(Passing(h))

\* The engine's timer and the clock as well; a stopped process is restarted.
DeliverySpec ==
  /\ Spec /\ PassFairness
  /\ \A h \in Hubs : WF_vars(Tick(h)) /\ WF_vars(pass[h].stopped /\ Restart(h))
  /\ \A r \in Runs : WF_vars(LeaseLapses(r))

\* Only the passes.
PromptSpec == Spec /\ PassFairness

-----------------------------------------------------------------------------
(* Properties *)

\* Every variable has its type.
TypeOK ==
  /\ status \in [Runs -> {"none", "running"} \cup Ended]
  /\ delivered \in [Runs -> BOOLEAN]
  /\ lease \in [Runs -> {"none", "leased", "lapsed"}]
  /\ reaction \in [Runs -> Phase]
  /\ markers \in [Runs -> SUBSET Marker]
  /\ credit \in [Runs -> Int]
  /\ task \in [{"accepted", "started"} -> [Runs ->
       [pc : {"none", "read", "call", "write", "done"}, hub : Hubs \cup {NoHub}, seen : Phase]]]
  /\ pass \in [Hubs -> [pc : {"off", "claim", "call", "mark", "empty", "finally"},
                        at : Runs \cup {NoRun}, seen : Phase,
                        requested : BOOLEAN, owed : BOOLEAN, stopped : BOOLEAN]]
  /\ faults \in 0..MaxFaults

\* A notification is recorded as delivered only if the provider shows the
\* outcome of the run, which has ended: no failed call and no crash between the
\* call and its record loses it.
DeliveredIsShown ==
  \A r \in Runs : delivered[r] => status[r] \in Ended /\ "outcome" \in markers[r]

\* The provider is told a second time only when a lease ran out in between, by a
\* crash, a failed or a slow call: two processes never deliver side by side.
ToldOncePerLease == \A r \in Runs : credit[r] >= 0

\* A message whose run is over and delivered shows the outcome and nothing
\* else once the other reactions have settled.
NoStaleReaction ==
  \A r \in Runs :
    delivered[r] /\ (\A k \in DOMAIN task : task[k][r].pc \in {"none", "done"}) =>
      markers[r] = {"outcome"}

\* Every end of a run is told, whatever crashes, stops and rejections there are.
EveryEndIsTold == \A r \in Runs : status[r] \in Ended ~> delivered[r]

\* An end the engine announces is delivered by that announcement, without the
\* engine's timer: a request that comes while a pass finds nothing is not lost.
AnnouncedIsTold ==
  \A h \in Hubs, r \in Runs :
    status[r] \in Ended /\ pass[h].owed ~> delivered[r]
=============================================================================
