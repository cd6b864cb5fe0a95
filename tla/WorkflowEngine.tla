--------------------------- MODULE WorkflowEngine ---------------------------
(***************************************************************************)
(* The durable workflow engine (src/src/workflows/engine.ts) over its      *)
(* database transactions (src/src/db/pg.ts, src/src/db/workflow-intake.ts).*)
(*                                                                         *)
(* A Hub process runs one engine.  Every transaction of the database and   *)
(* every read the engine bases a decision on is one action; between two    *)
(* actions anything may happen: another engine, the agents' callbacks, a   *)
(* deadline, a lease running out, a redelivered event, a crash.            *)
(*                                                                         *)
(* Clock values appear only through what the code compares them with: a    *)
(* lease is "leased" until it lapses, a deadline is pending until it is    *)
(* passed.  Any order of these events is allowed, save that a run's        *)
(* deadline bounds those of its steps.                                     *)
(***************************************************************************)
EXTENDS Integers, FiniteSets

CONSTANTS Runs,        \* workflow runs (trigger_runs rows), all of one organization
          NumSteps,    \* the steps of the compiled trigger
          Engines,     \* Hub processes on the same database
          NoEngine,    \* "no process"
          NoRun,       \* "no run"
          Redelivered, \* the runs whose provider event may be delivered again
          MeterLimit,  \* executions.monthly limit of the organization
          Conditions,  \* the condition outcomes considered
          MaxFaults    \* bound on crashes, rejected calls and lost connections

Steps == 1..NumSteps

ASSUME NumStepsAssumption == NumSteps \in Nat \ {0}
ASSUME LimitsAssumption == MeterLimit \in Nat /\ MaxFaults \in Nat
ASSUME ConditionsAssumption == Conditions \subseteq {"run", "skip", "error"}
ASSUME RedeliveredAssumption == Redelivered \subseteq Runs
ASSUME NamesAssumption == NoEngine \notin Engines /\ NoRun \notin Runs

RunStatus == {"none", "running", "succeeded", "failed", "timed_out"}
StepStatus == {"pending", "running", "succeeded", "failed", "timed_out", "skipped"}

\* agent_executions.status; a "spawning" row without machine and daemon is
\* told apart as "prehandoff" (isRecoverablePreHandoffExecution).
ExecStatus == {"none", "prehandoff", "spawning", "running", "succeeded", "failed"}
LiveExec == {"prehandoff", "spawning", "running"}
EndedExec == {"succeeded", "failed"}
EndedRun == {"succeeded", "failed", "timed_out"}
DoneStep == {"succeeded", "skipped"}
OpenStep == {"pending", "running"}
EndedStep == {"succeeded", "failed", "timed_out"}   \* isTerminalWorkflowStepStatus

Position == {"idle", "recover", "claim", "load", "sweep", "reconcile", "reload",
             "list", "live", "choose", "build", "defer", "create", "dispatch",
             "settle", "skip", "fail", "deny", "finish", "delete"}

VARIABLES
  run,        \* trigger_runs.status
  step,       \* workflow_step_runs.status
  exec,       \* agent_executions.status of the step's one execution
  overdue,    \* trigger_runs.deadline_at has passed
  due,        \* the execution's hard or idle deadline has passed
  wakeup,     \* workflow_wakeups row: "none", or the state of its lease
  holder,     \* the engine whose claim wrote the lease
  used,       \* organization_usage.used
  notify,     \* terminal_notification_pending_at is set
  condition,  \* what each step's condition evaluates to
  connected,  \* the process the target daemon is connected to
  worker,     \* each engine's control position and locals
  faults      \* crashes, rejected calls and lost connections so far

runVars == <<run, step, exec, notify>>
lease == <<wakeup, holder>>
clock == <<overdue, due>>
world == <<condition, connected, faults>>
vars == <<run, step, exec, overdue, due, wakeup, holder, used, notify,
          condition, connected, worker, faults>>

Unseen == [i \in Steps |-> "pending"]

IdleWorker == [pc |-> "idle", at |-> NoRun, recovering |-> FALSE, seen |-> Unseen,
               next |-> 0, late |-> FALSE, visited |-> {}]

First(S) == {i \in S : \A j \in S : i <= j}

-----------------------------------------------------------------------------
(* What the database holds *)

\* Mutant: the machine and daemon columns are not looked at.
PreHandoffByStatus(status) == status \in {"prehandoff", "spawning"}

\* isRecoverablePreHandoffExecution: spawning, without machine, daemon or agent.
PreHandoff(status) == status = "prehandoff"

\* Mutants: one unit too many; a reservation that is given back.
CanReserveOneMore == used <= MeterLimit
ReserveBackwards == used' = used - 1

\* reserveOrganizationUsageOnClient grants one more unit.
CanReserve == used + 1 <= MeterLimit
Reserve == used' = used + 1

\* deadline_at of a step's execution is capped by the run's.
StepDue(r, i) == due[r][i] \/ overdue[r]

\* Mutant: runs whose deadline passed are not found.
NoOverdueRuns == {}

OverdueRuns == {r \in Runs : run[r] = "running" /\ overdue[r]}

LateSteps == {p \in Runs \X Steps : /\ run[p[1]] = "running"
                                    /\ ~overdue[p[1]]
                                    /\ step[p[1]][p[2]] = "running"
                                    /\ exec[p[1]][p[2]] \in LiveExec
                                    /\ due[p[1]][p[2]]}

\* timeoutWorkflowRunOnClient for the runs R, timeoutWorkflowStepOnClient for
\* the <<run, step>> pairs in late.
TimeOut(R, late) ==
  /\ exec' = [r \in Runs |-> [i \in Steps |->
                IF (r \in R \/ <<r, i>> \in late) /\ exec[r][i] \in LiveExec
                THEN "failed" ELSE exec[r][i]]]
  /\ step' = [r \in Runs |-> [i \in Steps |->
                IF (r \in R \/ <<r, i>> \in late) /\ step[r][i] \in OpenStep
                THEN "timed_out" ELSE step[r][i]]]
  /\ run' = [r \in Runs |->
               IF run[r] # "running" THEN run[r]
               ELSE IF r \in R THEN "timed_out"
               ELSE IF \E i \in Steps : <<r, i>> \in late THEN "failed"
               ELSE run[r]]
  /\ notify' = [r \in Runs |-> notify[r] \/ run'[r] # run[r]]
  /\ wakeup' = [r \in Runs |->
                  IF r \in R \/ \E i \in Steps : <<r, i>> \in late
                  THEN "none" ELSE wakeup[r]]
  /\ holder' = [r \in Runs |-> IF wakeup'[r] = "none" THEN NoEngine ELSE holder[r]]

DeleteWakeup(r) ==
  /\ wakeup' = [wakeup EXCEPT ![r] = "none"]
  /\ holder' = [holder EXCEPT ![r] = NoEngine]

\* The upsert that makes a run claimable at once: it also drops a lease.
Wake(r) ==
  /\ wakeup' = [wakeup EXCEPT ![r] = "unleased"]
  /\ holder' = [holder EXCEPT ![r] = NoEngine]

\* finishWorkflowStepAndRun: an execution that ended settles its step, and its
\* run when the step failed; a step that has already ended is left alone.
FinishStep(r, i, outcome) ==
  IF step[r][i] \in EndedStep
  THEN UNCHANGED <<step, run, notify, wakeup, holder>>
  ELSE /\ step' = [step EXCEPT ![r][i] = outcome]
       /\ IF outcome = "succeeded"
          THEN /\ UNCHANGED <<run, notify>>
               /\ IF run[r] = "running" THEN Wake(r) ELSE UNCHANGED lease
          ELSE /\ IF run[r] = "running"
                  THEN /\ run' = [run EXCEPT ![r] = outcome]
                       /\ notify' = [notify EXCEPT ![r] = TRUE]
                  ELSE UNCHANGED <<run, notify>>
               /\ DeleteWakeup(r)

\* Mutant: the step is left to a later transaction.
CompleteExecutionOnly(r, i, outcome) ==
  /\ exec' = [exec EXCEPT ![r][i] = outcome]
  /\ UNCHANGED <<step, run, notify, wakeup, holder>>

\* completeWorkflowAgentExecution on a live execution.
Complete(r, i, outcome) ==
  IF run[r] = "running" /\ overdue[r] THEN TimeOut({r}, {})
  ELSE IF StepDue(r, i) THEN TimeOut({}, {<<r, i>>})
  ELSE /\ exec' = [exec EXCEPT ![r][i] = outcome]
       /\ FinishStep(r, i, outcome)

\* Mutants: the run's status is not checked; its notification is forgotten.
FailAnyRun(r, i, status) ==
  /\ step' = [step EXCEPT ![r][i] = IF @ \in OpenStep THEN status ELSE @]
  /\ run' = [run EXCEPT ![r] = status]
  /\ notify' = [notify EXCEPT ![r] = TRUE]
  /\ DeleteWakeup(r)

FailSilently(r, i, status) ==
  IF run[r] # "running" THEN UNCHANGED <<run, step, notify, wakeup, holder>>
  ELSE /\ step' = [step EXCEPT ![r][i] = IF @ \in OpenStep THEN status ELSE @]
       /\ run' = [run EXCEPT ![r] = status]
       /\ UNCHANGED notify
       /\ DeleteWakeup(r)

\* failWorkflowRun
FailRun(r, i, status) ==
  IF run[r] # "running" THEN UNCHANGED <<run, step, notify, wakeup, holder>>
  ELSE /\ step' = [step EXCEPT ![r][i] = IF @ \in OpenStep THEN status ELSE @]
       /\ run' = [run EXCEPT ![r] = status]
       /\ notify' = [notify EXCEPT ![r] = TRUE]
       /\ DeleteWakeup(r)

-----------------------------------------------------------------------------
(* Initial state and the world around the engines *)

Init ==
  /\ run = [r \in Runs |-> "none"]
  /\ step = [r \in Runs |-> [i \in Steps |-> "pending"]]
  /\ exec = [r \in Runs |-> [i \in Steps |-> "none"]]
  /\ overdue = [r \in Runs |-> FALSE]
  /\ due = [r \in Runs |-> [i \in Steps |-> FALSE]]
  /\ wakeup = [r \in Runs |-> "none"]
  /\ holder = [r \in Runs |-> NoEngine]
  /\ used = 0
  /\ notify = [r \in Runs |-> FALSE]
  /\ condition \in [Runs -> [Steps -> Conditions]]
  /\ connected \in Engines
  /\ worker = [e \in Engines |-> IdleWorker]
  /\ faults = 0

\* acceptWorkflowRun: the first delivery of the provider event stores the run,
\* its steps and a wakeup; a redelivery finds the run and only puts the wakeup
\* back when there is none.
Accept(r) ==
  /\ run[r] = "none" \/ (r \in Redelivered /\ wakeup[r] = "none")
  /\ run' = [run EXCEPT ![r] = IF @ = "none" THEN "running" ELSE @]
  /\ Wake(r)
  /\ UNCHANGED <<step, exec, notify, used, clock, world, worker>>

\* The agent reports that it runs: only after the hand-off, and only once.
AgentStarts(r, i) ==
  /\ exec[r][i] = "spawning"
  /\ exec' = [exec EXCEPT ![r][i] = "running"]
  /\ UNCHANGED <<run, step, notify, lease, used, clock, world, worker>>

\* A live execution ends: its agent called back, its launch failed, or the
\* lifecycle's timer saw its deadline pass.
AgentEnds(r, i, outcome) ==
  /\ exec[r][i] \in LiveExec
  /\ exec[r][i] # "prehandoff" \/ StepDue(r, i)
  /\ Complete(r, i, outcome)
  /\ UNCHANGED <<used, clock, world, worker>>

RunDeadlinePasses(r) ==
  /\ run[r] = "running" /\ ~overdue[r]
  /\ overdue' = [overdue EXCEPT ![r] = TRUE]
  /\ UNCHANGED <<runVars, lease, due, used, world, worker>>

StepDeadlinePasses(r, i) ==
  /\ exec[r][i] \in LiveExec /\ ~due[r][i]
  /\ due' = [due EXCEPT ![r][i] = TRUE]
  /\ UNCHANGED <<runVars, lease, overdue, used, world, worker>>

LeaseLapses(r) ==
  /\ wakeup[r] = "leased"
  /\ wakeup' = [wakeup EXCEPT ![r] = "lapsed"]
  /\ UNCHANGED <<runVars, holder, clock, used, world, worker>>

\* The daemon's connection moves: it is lost, or it is made to some process.
Disconnect ==
  /\ connected # NoEngine /\ faults < MaxFaults
  /\ connected' = NoEngine
  /\ faults' = faults + 1
  /\ UNCHANGED <<runVars, lease, clock, used, condition, worker>>

Connect(e) ==
  /\ connected = NoEngine
  /\ connected' = e
  /\ UNCHANGED <<runVars, lease, clock, used, condition, faults, worker>>

\* The process dies and starts again: only the engine's locals are lost.
Crash(e) ==
  /\ faults < MaxFaults
  /\ worker[e].pc # "idle"
  /\ worker' = [worker EXCEPT ![e] = IdleWorker]
  /\ faults' = faults + 1
  /\ connected' = IF connected = e THEN NoEngine ELSE connected
  /\ UNCHANGED <<runVars, lease, clock, used, condition>>

\* A call rejects while a wakeup is processed: it is reported, the lease stays
\* and the pass goes on with the next wakeup.
Rejected(e) ==
  /\ faults < MaxFaults
  /\ worker[e].at # NoRun
  /\ worker' = [worker EXCEPT ![e] = [IdleWorker EXCEPT !.pc = "claim", !.visited = worker[e].visited]]
  /\ faults' = faults + 1
  /\ UNCHANGED <<runVars, lease, clock, used, condition, connected>>

-----------------------------------------------------------------------------
(* One pass of processAvailable *)

Goto(e, pc) == worker' = [worker EXCEPT ![e].pc = pc]

\* The wakeup has been dealt with: back to the claim, remembering the
\* deferred runs of this pass.
NextWakeup(e, deferred) ==
  worker' = [worker EXCEPT ![e] =
               [IdleWorker EXCEPT !.pc = "claim", !.visited = worker[e].visited \cup deferred]]

\* recoverWorkflowDeadlines, over every run
SweepDeadlines(e) ==
  /\ worker[e].pc \in {"idle", "sweep"}
  /\ TimeOut(OverdueRuns, LateSteps)
  /\ Goto(e, IF worker[e].pc = "idle" THEN "recover" ELSE "delete")
  /\ UNCHANGED <<used, clock, world>>

\* Mutant: runs without a wakeup are not looked for.
RecoverNothing(e) ==
  /\ worker[e].pc = "recover"
  /\ Goto(e, "claim")
  /\ UNCHANGED <<runVars, lease, clock, used, world>>

\* recoverWorkflowWakeups: a running run with nothing live and no wakeup gets one.
RecoverWakeups(e) ==
  /\ worker[e].pc = "recover"
  /\ wakeup' = [r \in Runs |->
                  IF /\ wakeup[r] = "none"
                     /\ run[r] = "running" /\ ~overdue[r]
                     /\ \A i \in Steps : exec[r][i] \notin LiveExec
                  THEN "unleased" ELSE wakeup[r]]
  /\ Goto(e, "claim")
  /\ UNCHANGED <<runVars, holder, clock, used, world>>

Claimable(e) == {r \in Runs \ worker[e].visited : wakeup[r] \in {"unleased", "lapsed"}}

\* claimWorkflowWakeup: the claim remembers whether an earlier lease lapsed.
Claim(e, r) ==
  /\ worker[e].pc = "claim"
  /\ r \in Claimable(e)
  /\ worker' = [worker EXCEPT ![e].pc = "load", ![e].at = r,
                              ![e].recovering = (wakeup[r] = "lapsed")]
  /\ wakeup' = [wakeup EXCEPT ![r] = "leased"]
  /\ holder' = [holder EXCEPT ![r] = e]
  /\ UNCHANGED <<runVars, clock, used, world>>

NothingToClaim(e) ==
  /\ worker[e].pc = "claim"
  /\ Claimable(e) = {}
  /\ worker' = [worker EXCEPT ![e] = IdleWorker]
  /\ UNCHANGED <<runVars, lease, clock, used, world>>

\* prepareWorkflowWakeup reads the run ...
LoadRun(e) ==
  LET r == worker[e].at IN
  /\ worker[e].pc = "load"
  /\ Goto(e, IF run[r] # "running" THEN "delete"
             ELSE IF overdue[r] THEN "sweep" ELSE "reconcile")
  /\ UNCHANGED <<runVars, lease, clock, used, world>>

\* ... settles the steps whose execution has ended (reconcileTerminalStepExecutions) ...
Reconcile(e) ==
  LET r == worker[e].at
      stale == {i \in Steps : step[r][i] = "running" /\ exec[r][i] \in EndedExec}
  IN /\ worker[e].pc = "reconcile"
     /\ IF stale = {}
        THEN /\ Goto(e, "reload")
             /\ UNCHANGED <<step, run, notify, lease>>
        ELSE /\ \E i \in stale : FinishStep(r, i, exec[r][i])
             /\ UNCHANGED worker
     /\ UNCHANGED <<exec, clock, used, world>>

\* ... reads the run again ...
ReloadRun(e) ==
  /\ worker[e].pc = "reload"
  /\ Goto(e, IF run[worker[e].at] # "running" THEN "delete" ELSE "list")
  /\ UNCHANGED <<runVars, lease, clock, used, world>>

\* ... and lists its steps: the rest of the wakeup works on this snapshot.
\* A step that failed ends its run (failTerminalWorkflowStep).
ListSteps(e) ==
  LET r == worker[e].at
      ended == {i \in Steps : step[r][i] \in {"failed", "timed_out"}}
  IN /\ worker[e].pc = "list"
     /\ IF ended = {}
        THEN worker' = [worker EXCEPT ![e].seen = step[r], ![e].pc = "live"]
        ELSE \E i \in First(ended) :
               worker' = [worker EXCEPT ![e].seen = step[r], ![e].next = i, ![e].pc = "fail"]
     /\ UNCHANGED <<runVars, lease, clock, used, world>>

\* Mutant: a live execution does not keep the engine from going on.
HasNothingLive(e) == FALSE

\* findLiveExecution: an execution that lives and was handed off.
HasLive(e) ==
  LET r == worker[e].at IN
  \E i \in Steps : /\ worker[e].seen[i] = "running"
                   /\ exec[r][i] \in LiveExec /\ ~PreHandoff(exec[r][i])

\* A run whose step runs needs no wakeup.
FindLive(e) ==
  /\ worker[e].pc = "live"
  /\ Goto(e, IF HasLive(e) THEN "delete" ELSE "choose")
  /\ UNCHANGED <<runVars, lease, clock, used, world>>

\* Mutant: the last pending step instead of the first.
LastCandidate(e) ==
  {i \in Steps : /\ worker[e].seen[i] = "pending"
                 /\ \A j \in Steps : worker[e].seen[j] = "pending" => j <= i}

\* The step to work on: with a lapsed lease, one that was created but never
\* handed off; else the first pending one.
Candidates(e) ==
  LET seen == worker[e].seen
      lost == {i \in Steps : seen[i] = "running" /\ PreHandoff(exec[worker[e].at][i])}
  IN IF worker[e].recovering /\ lost # {} THEN lost
     ELSE {i \in Steps : seen[i] = "pending"}

\* The condition is evaluated over the snapshot: one that lacks the end of an
\* earlier step can give any outcome.
Outcomes(e, i) ==
  IF \A j \in 1..(i - 1) : worker[e].seen[j] \in DoneStep
  THEN {condition[worker[e].at][i]} ELSE Conditions

\* Choose the step, evaluate its condition and take the time that decides
\* whether the run's deadline still allows it.
ChooseStep(e) ==
  /\ worker[e].pc = "choose"
  /\ IF Candidates(e) = {} THEN Goto(e, "finish")
     ELSE \E i \in First(Candidates(e)) : \E outcome \in Outcomes(e, i) :
            worker' = [worker EXCEPT
              ![e].next = i,
              ![e].late = overdue[worker[e].at],
              ![e].pc = IF outcome = "run" THEN "build"
                        ELSE IF outcome = "skip" THEN "skip" ELSE "fail"]
  /\ UNCHANGED <<runVars, lease, clock, used, world>>

\* The launch intent stored with an existing execution is taken as it is; making
\* one may fail for good (no provider context, a bad expression, a missing
\* output capability); without the daemon's connection the wakeup is deferred.
BuildIntent(e) ==
  /\ worker[e].pc = "build"
  /\ \/ /\ Goto(e, IF connected = e THEN "create" ELSE "defer")
        /\ UNCHANGED faults
     \/ /\ exec[worker[e].at][worker[e].next] = "none" /\ faults < MaxFaults
        /\ Goto(e, "fail")
        /\ faults' = faults + 1
  /\ UNCHANGED <<runVars, lease, clock, used, condition, connected>>

\* Mutant: releasing clears the lease, which hides that there was one.
DeferUnleased(e) ==
  LET r == worker[e].at IN
  /\ worker[e].pc = "defer"
  /\ wakeup' = [wakeup EXCEPT ![r] = IF @ = "leased" /\ holder[r] = e THEN "unleased" ELSE @]
  /\ NextWakeup(e, {r})
  /\ UNCHANGED <<runVars, holder, clock, used, world>>

\* releaseWorkflowWakeup: the lease ends now, if it is still this claim's.
Defer(e) ==
  LET r == worker[e].at IN
  /\ worker[e].pc = "defer"
  /\ wakeup' = [wakeup EXCEPT ![r] = IF @ = "leased" /\ holder[r] = e THEN "lapsed" ELSE @]
  /\ NextWakeup(e, {r})
  /\ UNCHANGED <<runVars, holder, clock, used, world>>

\* createWorkflowStepExecution: execution, meter and step in one transaction.
CreateExecution(e) ==
  LET r == worker[e].at
      i == worker[e].next
  IN /\ worker[e].pc = "create"
     /\ \/ /\ run[r] # "running"
           /\ Goto(e, "delete")
           /\ UNCHANGED <<runVars, lease, used>>
        \/ /\ run[r] = "running" /\ worker[e].late
           /\ TimeOut({r}, {})
           /\ Goto(e, "delete")
           /\ UNCHANGED used
        \/ /\ run[r] = "running" /\ ~worker[e].late /\ exec[r][i] # "none"
           /\ Goto(e, IF PreHandoff(exec[r][i]) /\ worker[e].recovering
                      THEN "dispatch" ELSE "settle")
           /\ UNCHANGED <<runVars, lease, used>>
        \/ /\ run[r] = "running" /\ ~worker[e].late /\ exec[r][i] = "none"
           /\ ~CanReserve
           /\ Goto(e, "deny")
           /\ UNCHANGED <<runVars, lease, used>>
        \/ /\ run[r] = "running" /\ ~worker[e].late /\ exec[r][i] = "none"
           /\ CanReserve
           /\ Reserve
           /\ exec' = [exec EXCEPT ![r][i] = "prehandoff"]
           /\ step' = [step EXCEPT ![r][i] = "running"]
           /\ Goto(e, "dispatch")
           /\ UNCHANGED <<run, notify, lease>>
     /\ UNCHANGED <<clock, world>>

\* handoffLaunchMachineIntent: an unregistered daemon fails the execution, else
\* it gets its machine and daemon and the spawn goes on in the background.
HandOff(e) ==
  LET r == worker[e].at
      i == worker[e].next
  IN /\ worker[e].pc = "dispatch"
     /\ \/ /\ exec' = [exec EXCEPT ![r][i] = IF @ = "prehandoff" THEN "spawning" ELSE @]
           /\ UNCHANGED <<run, step, notify, lease, faults>>
        \/ /\ faults < MaxFaults
           /\ exec[r][i] \in {"prehandoff", "spawning"}
           /\ Complete(r, i, "failed")
           /\ faults' = faults + 1
     /\ Goto(e, "settle")
     /\ UNCHANGED <<clock, used, condition, connected>>

\* finishPersistedExecution
Settle(e) ==
  LET r == worker[e].at
      i == worker[e].next
  IN /\ worker[e].pc = "settle"
     /\ IF exec[r][i] \in EndedExec THEN FinishStep(r, i, exec[r][i])
        ELSE UNCHANGED <<step, run, notify, lease>>
     /\ Goto(e, "delete")
     /\ UNCHANGED <<exec, clock, used, world>>

\* deleteWorkflowWakeup: whatever lease it holds by now.
Delete(e) ==
  /\ worker[e].pc = "delete"
  /\ DeleteWakeup(worker[e].at)
  /\ NextWakeup(e, {})
  /\ UNCHANGED <<runVars, clock, used, world>>

\* markWorkflowStepSkipped: a pending step is skipped and its run woken.
Skip(e) ==
  LET r == worker[e].at
      i == worker[e].next
  IN /\ worker[e].pc = "skip"
     /\ IF step[r][i] = "pending"
        THEN /\ step' = [step EXCEPT ![r][i] = "skipped"]
             /\ Wake(r)
        ELSE UNCHANGED <<step, lease>>
     /\ NextWakeup(e, {})
     /\ UNCHANGED <<run, exec, notify, clock, used, world>>

\* The step cannot go on and its run fails; a denied reservation also deletes
\* the wakeup afterwards.
Fail(e) ==
  LET r == worker[e].at
      i == worker[e].next
  IN /\ worker[e].pc \in {"fail", "deny"}
     /\ FailRun(r, i, IF worker[e].seen[i] = "timed_out" THEN "timed_out" ELSE "failed")
     /\ IF worker[e].pc = "deny" THEN Goto(e, "delete") ELSE NextWakeup(e, {})
     /\ UNCHANGED <<exec, clock, used, world>>

\* finishWorkflowRunIfComplete: succeedTriggerRun, which then deletes the
\* wakeup, or a failure of the final values.
Finish(e) ==
  LET r == worker[e].at IN
  /\ worker[e].pc = "finish"
  /\ \/ /\ run[r] = "running"
        /\ run' = [run EXCEPT ![r] = "succeeded"]
        /\ notify' = [notify EXCEPT ![r] = TRUE]
        /\ Goto(e, "delete")
        /\ UNCHANGED <<step, lease, faults>>
     \/ /\ run[r] # "running"
        /\ NextWakeup(e, {})
        /\ UNCHANGED <<step, run, notify, lease, faults>>
     \/ /\ faults < MaxFaults
        /\ FailRun(r, 1, "failed")
        /\ NextWakeup(e, {})
        /\ faults' = faults + 1
  /\ UNCHANGED <<exec, clock, used, condition, connected>>

Working(e) ==
  \/ SweepDeadlines(e) \/ RecoverWakeups(e) \/ NothingToClaim(e)
  \/ \E r \in Runs : Claim(e, r)
  \/ LoadRun(e) \/ Reconcile(e) \/ ReloadRun(e) \/ ListSteps(e) \/ FindLive(e)
  \/ ChooseStep(e) \/ BuildIntent(e) \/ Defer(e) \/ CreateExecution(e)
  \/ HandOff(e) \/ Settle(e) \/ Delete(e) \/ Skip(e) \/ Fail(e) \/ Finish(e)

Next ==
  \/ \E r \in Runs : Accept(r) \/ RunDeadlinePasses(r) \/ LeaseLapses(r)
  \/ \E r \in Runs, i \in Steps :
       \/ AgentStarts(r, i) \/ StepDeadlinePasses(r, i)
       \/ \E outcome \in EndedExec : AgentEnds(r, i, outcome)
  \/ Disconnect
  \/ \E e \in Engines : Connect(e) \/ Crash(e) \/ Rejected(e) \/ Working(e)

Spec == Init /\ [][Next]_vars

\* What the runtime keeps doing: a timer per engine, the clock, the agents'
\* callbacks (or the failure of a lost launch) and the daemon's reconnection.
WorldFairness ==
  /\ \A r \in Runs : WF_vars(LeaseLapses(r))
  /\ \A r \in Runs, i \in Steps :
       /\ WF_vars(AgentStarts(r, i))
       /\ WF_vars(\E outcome \in EndedExec : AgentEnds(r, i, outcome))
  /\ WF_vars(\E e \in Engines : Connect(e))

EngineFairness == \A e \in Engines : WF_vars(Working(e))

ClockFairness ==
  /\ \A r \in Runs : WF_vars(RunDeadlinePasses(r))

\* The engine keeps polling; what else goes on is the premise of each property.
EngineSpec == Spec /\ EngineFairness

-----------------------------------------------------------------------------
(* Properties *)

\* Every variable has its type.
TypeOK ==
  /\ run \in [Runs -> RunStatus]
  /\ step \in [Runs -> [Steps -> StepStatus]]
  /\ exec \in [Runs -> [Steps -> ExecStatus]]
  /\ overdue \in [Runs -> BOOLEAN]
  /\ due \in [Runs -> [Steps -> BOOLEAN]]
  /\ wakeup \in [Runs -> {"none", "unleased", "leased", "lapsed"}]
  /\ holder \in [Runs -> Engines \cup {NoEngine}]
  /\ used \in Nat
  /\ notify \in [Runs -> BOOLEAN]
  /\ condition \in [Runs -> [Steps -> Conditions]]
  /\ connected \in Engines \cup {NoEngine}
  /\ worker \in [Engines -> [pc : Position, at : Runs \cup {NoRun},
                             recovering : BOOLEAN, seen : [Steps -> StepStatus],
                             next : Steps \cup {0}, late : BOOLEAN,
                             visited : SUBSET Runs]]
  /\ faults \in 0..MaxFaults

\* A run is reported succeeded only when every step of it succeeded or was
\* skipped: succeedTriggerRun itself never looks at the steps.
SucceededRunIsComplete ==
  \A r \in Runs : run[r] = "succeeded" => \A i \in Steps : step[r][i] \in DoneStep

\* Steps run in their order: an execution exists only after every earlier step
\* succeeded or was skipped.
StepsInOrder ==
  \A r \in Runs, i, j \in Steps :
    i < j /\ exec[r][j] # "none" => step[r][i] \in DoneStep

\* The transactions that end an execution end its step with it, so the engine
\* never meets a running step of an ended execution.
EndedExecutionEndsStep ==
  \A r \in Runs, i \in Steps :
    exec[r][i] \in EndedExec => step[r][i] \in EndedStep

\* Whatever ends a run also sets its terminal notification pending.
EndedRunIsNotified ==
  \A r \in Runs : notify[r] <=> run[r] \in EndedRun

\* One unit of the meter per execution, and never more than the limit, whatever
\* denied reservations, replays and repeated hand-offs there were.
Executions == {p \in Runs \X Steps : exec[p[1]][p[2]] # "none"}

MeterCountsExecutions == used = Cardinality(Executions) /\ used <= MeterLimit

\* An execution that was created but not handed off is never forgotten: an
\* engine is about to hand it off, or its wakeup has a lease that will lapse,
\* so that the next claim recovers it.
PreHandoffIsRecoverable ==
  \A r \in Runs, i \in Steps :
    run[r] = "running" /\ exec[r][i] = "prehandoff" =>
      \/ wakeup[r] \in {"leased", "lapsed"}
      \/ \E e \in Engines : worker[e].pc = "dispatch" /\ worker[e].at = r

\* No execution is handed off to its daemon a second time.
HandedOffOnce ==
  \A e \in Engines :
    worker[e].pc = "dispatch" => exec[worker[e].at][worker[e].next] # "spawning"

\* Only a live run has a live execution: no agent works for a run that ended.
LiveExecutionOfLiveRun ==
  \A r \in Runs, i \in Steps : exec[r][i] \in LiveExec => run[r] = "running"

\* An outcome is never rewritten, whatever arrives late or twice: ended runs
\* and executions keep their status, and so do the steps that were executed.
EndedIsFinal ==
  [][\A r \in Runs :
       /\ run[r] \in EndedRun => run'[r] = run[r]
       /\ \A i \in Steps :
            /\ step[r][i] \in EndedStep => step'[r][i] = step[r][i]
            /\ exec[r][i] \in EndedExec => exec'[r][i] = exec[r][i]]_vars

\* A step is launched or skipped by an engine that saw every earlier step ended:
\* its condition and its prompt are evaluated over the outputs of those steps.
DecidedOnFinalSteps ==
  [][\A r \in Runs, j \in Steps :
       step[r][j] = "pending" /\ step'[r][j] \in {"running", "skipped"} =>
         \E e \in Engines :
           /\ worker[e].at = r /\ worker[e].next = j
           /\ \A i \in 1..(j - 1) : worker[e].seen[i] \in DoneStep]_vars

\* What is seen of a run: how many of its first steps are done, and whether one
\* is being executed.
DoneCount ==
  [r \in Runs |-> Cardinality({i \in Steps : \A j \in 1..i : step[r][j] \in DoneStep})]
Executing ==
  [r \in Runs |-> run[r] = "running" /\ \E i \in Steps : step[r][i] = "running"]

Lifecycle ==
  INSTANCE RunLifecycle WITH status <- run, done <- DoneCount, active <- Executing

\* What a run promises to whoever watches it (RunLifecycle): its steps one after
\* the other, each begun at most once, success only after the last.
ImplementsLifecycle == Lifecycle!Spec

\* As time passes, every accepted run ends, whatever agents, daemons and crashes do.
EveryRunEnds ==
  ClockFairness => \A r \in Runs : run[r] = "running" ~> run[r] \in EndedRun

\* With agents that answer, a run none of whose deadlines passes ends by its own
\* work: no crash, lost wakeup or deferral leaves it waiting for its deadline.
UndisturbedRunEnds ==
  WorldFairness =>
    \A r \in Runs :
      run[r] = "running" ~> run[r] \in EndedRun \/ overdue[r] \/ \E i \in Steps : due[r][i]
=============================================================================
