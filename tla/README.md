# A TLA+ model of Paseo Hub

Paseo Hub (`src/`) accepts events from Slack, Discord, GitHub, Linear, a schedule or a person, turns each
into a *workflow run* of a trigger's steps, has an agent on a user's machine (a *daemon*) or on a rented one
(a *sprite*) execute every step, and tells the provider how the run went. Its state is in PostgreSQL
(several Hub processes may share it) or in an embedded database (one process). What makes it hard is
between the transactions: leases instead of locks, agents that answer late or never, processes that crash,
provider calls that fail, webhooks that come twice.

The modules here model that part, translated from the source. TLC checks them on small instances; TLAPS
proves the safety properties of nearly all of them for every instance. `PROJECT.json` lists runs, mutants, theorems,
findings and hazards, and maps every definition to the lines it models.

## Inventory

Paths are below `src/src/`. "Hard" names the behaviours worth a model, "right" the properties that make
the part correct.

| Part | State it keeps | Operations | Hard / right | Module |
|---|---|---|---|---|
| **Workflow engine** `workflows/engine.ts`, `db/workflow-intake.ts`, transactions of `db/pg.ts` | `trigger_runs`, `workflow_step_runs`, `agent_executions`, `workflow_wakeups` (an outbox with 30 s leases), the meter `organization_usage` | accept, poll every 250 ms: sweep deadlines, recover wakeups, claim, reconcile, choose the next step, reserve its execution, hand off, skip, fail, finish | two engines after a lapsed lease, a crash between reservation and hand-off, callbacks between any two steps / steps in order, each executed and paid once, outcomes final, every run ends | `WorkflowEngine`, `RunLifecycle` |
| **Compiled workflows** `config/compiler.ts`, `workflows/expression.ts`, `triggers/invocation.ts` | a revision's document; inputs and outputs of a run | compile, fill inputs, evaluate conditions, select environment and agent, render prompts | what is accepted meets data at run time / an accepted workflow runs, text has no authority | `CompiledWorkflows` |
| **Run notification** `workflows/engine.ts`, `daemons/lifecycle.ts`, `triggers/*/provider.ts` | `terminal_notification_*` and `reaction_state` of a run, the provider's message | react "accepted", "started"; claim, deliver and confirm the end; kick, repeat, retry | a crash between call and confirmation, a kick during a pass, two processes / every end is told, nothing is recorded that was not shown, no delivery side by side | `RunNotification` |
| **Agent sessions** `agent-sessions/index.ts`, `daemons/agents/index.ts` | `agent_sessions`, `agent_executions.agent_session_id`, the daemon's agents | dispatch, release of credentials and control (interrupt, archive) | executions of one key end while another is launched; only some steps take the key's lock / nobody's work is stopped by another's end, one agent per key, no agent is forgotten | `AgentSessions` |
| **Daemon lifecycle** `daemons/lifecycle.ts` | executions in PostgreSQL; timers, subscriptions, running dispatches and hub actions in memory | hand-off, start, complete, fail, expire, recover after a connection or a start, reconcile hub actions | lost responses, events that queue behind slow handlers, two deadlines / idle is idle, a live execution is watched | `AgentSupervision`, and in part all of the above |
| **Execution capabilities** `execution-capabilities/` | output attempts and their leases, acknowledgements | finish, output calls of an agent | an attempt's lease lapses under the call, signals come in any order / never more outputs than allowed, archived after the turn | `ExecutionOutputs` |
| **Execution authority** `execution-authority/` | credentials and leases per execution, timers | materialise, resume, release, retry of a revocation, recover | an end during materialisation, a crash between token and lease / one good environment, every token is revoked | `ExecutionAuthority` |
| **Sprites** `daemons/sprites/` | `machines` rows, held executions | create, bootstrap, hold, refresh, release, recreate, retire | the provider's calls go by the trigger's name / one machine, holds and keys end | `Sprites` |
| **Daemon registry** `daemons/registry.ts`, `daemons/registration.ts` | the socket of each daemon with its generation; presence rows | upgrade, accept, ready, replace, revoke, permissions, close | presence writes out of order, revocation during an upgrade / nobody waits on a dead line, rights are current | `DaemonRegistry` |
| **Credentials** `cli-authorizations/`, `auth/api-keys.ts`, `auth/cli-credentials.ts` | authorisations, keys, enrolment tokens, daemons | start, decide, poll, authorise, issue, enrol, revoke | repeated and overlapping requests / a denial is final, a token enrols one daemon | `Credentials` |
| **Schedules** `triggers/schedule/` | `schedules`: recurrence, next occurrence, active run | tick, synchronise at a save, end of a run | one transaction for all, several tickers / runs of one schedule do not overlap, one occurrence is caught up | `ScheduledTriggers` |
| **Trigger acceptance** `db/trigger-acceptance.ts`, `triggers/lifecycle.ts` | receipts of deliveries | accept, claim, apply, release, replay, dispatch | redelivery, a failure after the claim / the runs of the accepted routes, all of them | `ProviderEvents`, `GitHubLifecycle` |
| **Event routing** `configuration/store.ts`, `triggers/*/match.ts` | routes and stored filters of a revision | resolve, route, match, roll back | names and connections change after the deployment / nothing foreign, nothing missed | `EventRouting`, `LinearIssues` |
| **Trigger configuration** `configuration/`, `projects/`, `triggers/migration.ts` | revisions, the active one, the authority over them | save, synchronise, activate, roll back, switch, archive, migrate | overlapping deployments / forward only, under the project's authority, served once | `ConfigurationRevisions`, `TriggerMigration` |
| **Slack source** `triggers/slack/source/` | one connection, a queue of frames | open, refresh, retry, accept, acknowledge, stop | slow acceptances of old connections / acknowledged is accepted | `SlackSocket` |
| **Provider applications and connections** `provider-applications/`, `db/connections.ts`, `providers/` | the application and its activation, connections, attempts, tokens | save, activate, start an attempt, callback, bind, disconnect, refresh | redirects over a replaced application, two processes / a connection is its application's, a tenant keeps its workspace | `ProviderConnections`, `ProviderRuntime`, `LinearTokens` |
| **Billing** `billing/` | a mirror of Stripe | webhooks, checkout, trial, seats | webhooks in any order, a cached list / the plan and the seats converge | `Billing` |
| **Entitlements, usage** `entitlements/`, `usage/` | templates, overrides, the trail, the meter | stamp, override, clear, reserve | two writers, a limit read before / no override is lost, the trail is a chain | `Entitlements`, `WorkflowEngine` |
| **Organizations** `auth/organization-access.ts`, `auth/registration-admission.ts` | members, roles, invitations | invite, cancel, accept, change a role, remove, sign up | a role read before the lock / an owner, seats within the cap, rights of the moment | `Memberships` |
| **Instance setup** `instance-setup/` | the first operator | claim, bootstrap | a claim and several starts / one operator | `InstanceSetup` |
| **Database** `db/` | the pool, row and advisory locks | transactions | lock order, the 3 s limit of every wait / no cycle beyond the known ones | `LockPlans`, `LockOrder` |
| **Application runtime** `index.ts`, `server/runtime.ts`, `composition-resources.ts`, `db/runtime/internal/data-directory-lock.ts` | the process, the lock file | start, serve, stop, crash | a stale file and a living owner / one process per directory | `HubProcess` |
| **Public API, operator, attachments, web interface** | none of their own | validation, rendering, files | - | - |

A trigger's event becomes a run in one transaction that also inserts the run's wakeup. The engine claims
wakeups; for a step it reserves an execution (one transaction with the meter), hands it to the lifecycle,
which dispatches it through a session to the daemon. The agent's callback ends the execution, its step and
possibly the run, again in one transaction, and writes the next wakeup. The run's end leaves a pending
terminal notification. Around this path stand the parts that decide what may enter it (routes, receipts,
schedules, connections), who may change them (organizations, credentials, billing) and what an execution
needs (credentials, machines).

## Modules

One module per component; the comments of each say what a step is and what its history variables remember.

**The run path.**

*WorkflowEngine.* `run`, `step`, `exec`, `notify`, `wakeup` and `used` are columns; `overdue`, `due` and the
lease states are what the code learns by comparing a column with the clock, so that any order of clock
events is allowed (a run's deadline caps its steps'). `exec = "prehandoff"` is a spawning execution without
daemon, machine or agent, as `isRecoverablePreHandoffExecution` tells it apart. `worker[e].pc` is the place
in `processAvailable`, `worker[e].seen` the snapshot of `listWorkflowStepRuns` that `nextWorkflowStep`
decides on, taken an action before. `Accept` is `enqueue` and its redelivery; `SweepDeadlines` to `Finish`
follow `processAvailableImpl` and what it calls in order. `AgentStarts` and `AgentEnds` are the callbacks'
transactions; `Rejected` is a call or query that throws, after which the engine goes back to its timer;
`Crash` forgets the worker and nothing else. Left out: building the intent (a choice of its outcome, see
*CompiledWorkflows*), the content of outputs, the classifier's text. `RunLifecycle` is the abstract promise
of a run, which `WorkflowEngine` implements.

*CompiledWorkflows.* One run of one document, chosen among all small documents: the compiler's verdict, the
inputs of an arrival, and for each step its condition, selections and prompt. Values are kinds with the text
they are interpolated as. Left out: numbers, more than one input, classifiers.

*RunNotification.* `reaction` is the row's `reaction_state`, `markers` what the message shows. `task` holds
the two reactions that are tried once; `pass` is the delivery pass of a process with its `requested` flag.
`credit` is a history variable for `ToldOncePerLease`. One provider call is one step; a pass is split where
JavaScript may run something else. The Discord provider is the one translated.

*AgentSessions.* All executions have the same key, and a session is named after the execution that made it
(the code derives its id from it). `LockOf` and the three places that take the lock follow the code: a
dispatch always takes the key's lock; control and release take the lock named by the session they read
*before* waiting. The ends of executions take none. A call on the daemon is one step; when the connection is
lost during the call its effect may or may not have happened (`conn = "cut"`). The faults: "crash",
"disconnect", "timeout" (an answer to a launch given up), "reject" (a call or query fails), "late" (a stop
given up that the daemon still carries out) and "wait" (PostgreSQL cancels a wait for the lock after 3 s).
The signs that an archive waits for (`acknowledgeAgentExecutionHubAction`) are recorded by `Acknowledge` or
lost for good by `LoseSign`, at any time and outside the count of faults; `unheard` remembers the latter.
Left out: the compatibility of settings, the deadline a joining execution inherits, the credentials' own
deadlines, the session reset of a recreated sprite, a stop that the daemon rejects.

*AgentSupervision.* One execution watched by one process: the events of its agent in a queue, the idle and
the hard deadline, one timer, the finish call, the poll of the engine. Time is discrete; an event carries
the time of its receipt. An event's read, update and arming are one step; lost connections other than
crashes are left out, and so is the second arming after a recovery.

*ExecutionOutputs, ExecutionAuthority, Sprites.* What an execution's agent sends and how its archive is
acknowledged; its temporary credentials, materialised by overlapping launches in two processes; the machine
a trigger rents. Every provider call is a step of its own, before or after which a crash may come. The
history variables (`astray`, `revived`, `early`, `cut`, `lost`, `unheard`) name what the code does not
recover, so that the properties say exactly what it does.

**What may enter it.**

*ScheduledTriggers.* Tickers of several processes over the schedules' rows; a transaction's time may be old
when it commits. *ProviderEvents*: a delivery's receipt, the snapshot of its routes, and the matching of each
project, over repetitions, failures and a source that stops. (`PushFails` is taken only for accepted events;
the code synchronises a dropped push, too.) *GitHubLifecycle*: what an installation's events
make of a connection. *EventRouting*: from the trigger that names a repository or workspace to the events it
takes, while connections and names change. *LinearIssues*: the entry of an issue into a scope, from partial
events. *SlackSocket*: Socket Mode. *ConfigurationRevisions*: deployments of one project from a repository,
the editor and the API. *TriggerMigration*: the start that turns project triggers into those of the
organization. *ProviderConnections*, *ProviderRuntime*, *LinearTokens*: an application and its bindings, its
replacement in a running process, the tokens of a connection.

**Who may change it.**

*Memberships*, *InstanceSetup*, *Credentials*, *DaemonRegistry*, *Entitlements*, *Billing*. A request reads,
waits for its lock and works, as steps of their own; what must be looked at again under the lock is, and the
properties are about what happens when it has changed.

**Underneath.**

*LockPlans* lists the locks of each transaction in their order, *LockOrder* runs sections of these plans
against each other and a pool of connections. *HubProcess*: start, lock file and shutdown of a process.

**Composition.** `ControlPlane`, `Progress` and `Executions` put components that share no state side by side:
a behaviour chooses a part at its start and only that part takes steps. In `ControlPlane` the parts even
share their variables (`s1`, `s2`, ...), since only one runs. Each property of these modules is a conjunction
over the parts of a question they have in common; an action property of a part is an action formula, boxed by
the composite. `MCControlPlane`, `MCProgress` and `MCExecutions` give their constants values and restrict the
initial states; `MCExecutions` adds the engine with two faults and `CompiledWorkflows`, which no theorem
reaches. `MCWorkflowEngine` gives TLC the symmetry of `engine_crash`.

## Runs

| Run | Instance | Shows |
|---|---|---|
| `engine_crash` | 1 process, 2 runs of 2 steps that share 2 units of the meter, 1 fault | `PreHandoffIsRecoverable`, `HandedOffOnce`, `LiveExecutionOfLiveRun`, `MeterCountsExecutions`, `StepsInOrder`, `SucceededRunIsComplete`; a run implements `RunLifecycle` |
| `engine_two` | 2 processes, redelivery, 1 fault | `EndedExecutionEndsStep`, `EndedRunIsNotified`, `EndedIsFinal` |
| `engine_stale`, `engine_lost` | violations | see *Findings* |
| `notification_delivery` | 2 processes, 1 fault, fair | `DeliveredIsShown`, `ToldOncePerLease`, `EveryEndIsTold` |
| `notification_stale` | violation | see *Findings* |
| `sessions_leased` | temporary credentials, one archived execution and one not; a lost connection, answer, stop or lock wait | `LiveWorkGoesOn`, `OneWorkingAgent`, `CredentialsOutliveWork` |
| `sessions_live` | fair, archives, a crash or a rejection | `LiveWorkGoesOn`, `EndedWorkStops` |
| `sessions_revoked` | fair, temporary credentials, interrupts, a crash or a late answer | `CredentialsAreRevoked` |
| `executions` | one of: the engine with conditions and 2 faults; 2 launches in 2 processes; 3 machines of a trigger; every document of two steps; fair | `RunsEnd`, `WorkIsEquipped`, `WorkLeavesNothing`, `AcceptedWorkflowsRun` |
| `progress` | one of: 2 tickers; 3 registrations; 2 calls and 2 turns of an agent; the delivery without a timer; fair | `NothingOverlaps`, `StepsFollowWhatIsSaved`, `NothingIsLeft` |
| `control_plane` | one of 18 parts | `DeliveriesAreKept`, `BindingsAreProven`, `MirrorsConverge`, `OrganizationsAreWhole`, `RoutesAreLive`, `DaemonsAreWatched`, `CredentialsEnd`, `WaitsAreOrdered`, `TenantsAreKept`, `DeploymentsGoForward`, `PermissionsAreCurrent` |

Each composed property names the properties of the parts it is made of:

| Property | Parts |
|---|---|
| `RunsEnd` | `WorkflowEngine`: `EveryRunEnds` (a deadline suffices), `UndisturbedRunEnds` (agents suffice); `Sprites`: `QueuedIsServed` |
| `WorkIsEquipped` | `ExecutionAuthority`: `CommittedIsGood`, `OneEnvironment`, `TokensAreLeased`; `Sprites`: `OneMachine` |
| `WorkLeavesNothing` | `ExecutionAuthority`: `NothingIsKept`; `Sprites`: `HoldsEnd`, `RemainsEnd` |
| `AcceptedWorkflowsRun` | `CompiledWorkflows`: `SelectionsExist`, `PromptHasNoAuthority`, `FailsForCause`, `ContextIsGiven` |
| `NothingOverlaps` | `ScheduledTriggers`: `NoOverlap`; `ProviderRuntime`: `ReplacementHasNoGap`; `ExecutionOutputs`: `OutputsAreLimited`, `FinishedHasSent`, `ArchivedAfterTurn` |
| `StepsFollowWhatIsSaved` | `ScheduledTriggers`: `DowntimeCoalesces`, `EditIsRespected`; `ProviderRuntime`: `SavesAreKept` |
| `NothingIsLeft` | `ScheduledTriggers`: `DueIsServed`; `ProviderRuntime`: `OthersComeToRest`; `ExecutionOutputs`: `FinishedIsArchived`; `RunNotification`: `AnnouncedIsTold` |
| `DeliveriesAreKept` | `ProviderEvents`: `RunsFollowSnapshot`, `AcknowledgedIsEnqueued`; `LinearIssues`: `EntriesRun`; `SlackSocket`: `AckedIsAccepted`, `OneConnection` |
| `BindingsAreProven` | `ProviderConnections`: `BoundToActiveApplication`, `AttemptBindsOnce`; `LinearTokens`: `HoldsNewestTokens` |
| `TenantsAreKept` | `ProviderConnections`: `TenantIsKept`, `BoundByItsConfiguration`; `InstanceSetup`: `OwnersStay`, `ClaimedPristine` |
| `MirrorsConverge` | `GitHubLifecycle`: `SerialEvidenceConverges`; `Billing`: `StampConverges`, `SeatsAreBilled` |
| `OrganizationsAreWhole` | `Memberships`: `HasOwner`, `SeatsAreReserved`; `InstanceSetup`: `OneOperator`, `CompleteIsWhole`; `Entitlements`: `OverridesAreKept`, `TrailIsChained`, `UsageIsCovered` |
| `RoutesAreLive` | `ConfigurationRevisions`: `RoutesAreLive`; `EventRouting`: `NothingForeign`, `NothingMissed`; `TriggerMigration`: `ServedOnce`, `FailsOnlyIfDisturbed` |
| `DeploymentsGoForward` | `ConfigurationRevisions`: `DeploysForward`, `AuthorityIsRespected` |
| `DaemonsAreWatched` | `DaemonRegistry`: `PendingIsOnTheLine`, `PresenceIsTrue`; `AgentSupervision`: `IdledOutWasIdle`, `ArmedWhenQuiet` |
| `CredentialsEnd` | `Credentials`: `DenialIsFinal`, `OneDaemonPerToken` |
| `PermissionsAreCurrent` | `DaemonRegistry`: `AskedAsPermitted`; `Credentials`: `EnrolledByLiveKey`; `Memberships`: `ChangedByRight`, `JoinsInvited`, `SignsUpInvited` |
| `WaitsAreOrdered` | `LockOrder`: `WaitsAreOrdered`; `HubProcess`: `OwnedAlone`, `LeavesNoFile`, `StoppedForGood` |

Each property has a mutant in `PROJECT.json`: a plausible bug in the code under which the same run finds the
property violated. The modules define more of them than the manifest names (each marked "Mutant"), at least
one for most conjuncts, and TLC finds these violated as well.

**Bounds.** Two engines suffice for every race over a wakeup, since a wakeup has one holder and one former
holder. Two steps give a step with a predecessor and one with a successor; the engine compares a step with
the earlier ones only. Two runs and two units make the meter deny in the middle of a run. One fault is every
single crash, rejection or lost connection at every place; two are more than the code recovers from in
`engine_crash` (see *What is proved*). Two executions are a newer and an older one of a
key (three, without faults, satisfy the safety properties as well: 7.5 million states). `Redelivered = {}`
in `engine_crash` is not a convenience: with redelivery `PreHandoffIsRecoverable` fails (`engine_lost`).
Nor is the absence of crashes in `sessions_leased` (see *Known weaknesses*). `MaxFaults`, `MeterLimit` and
`NumSteps` are the only bounds in guards of the run path.

The components of the composites have two requests, workers or processes each (a race has two sides), one
or two of what they compete for, and bounds on what the world may do (`MaxChanges`, `MaxFailures`,
`MaxSends`, `MaxCrashes`, ...; each is a constant of its module, given in the composite). `LockOrder` has
three sections, for cycles of three, and a pool of three connections, which is exhausted by sections that
take two. `AgentSupervision` has times 0 to 3, an idle deadline of 2 and a hard one of 3, so that an event
may come before, at or after the first and moves it to the second. `EventRouting` makes two connections, one
of which may be the other's account again under a new id, and `SlackSocket` two. Three machines are the one
that is, the one that was and the next. The composites restrict a few initial states: those that are
symmetric to others, those given by a constant of the code, and in `control_plane` a Linear issue that begins
outside the project or with a label, and accounts of which the second matters at GitHub only. In
`control_plane` the callers, workers, sockets or processes of each part are the same two model values, and
TLC takes states that differ in who is who for one (`Symmetry`): no action orders them or chooses among them,
and the run has no liveness property. What it no longer reaches by these bounds is in the reach of the
theorems, which `control_plane` has for every property.
Deadlock is checked except in `AgentSessions` and the composites, where everything may have ended.

**Fairness.** `EngineFairness`: the engine's timer fires as long as the process runs, and a crashed process
is restarted. `ClockFairness`: time passes, so a run's deadline does. `WorldFairness`: agents answer, a
lease lapses, a daemon reconnects; it is assumed only where the question is about agents that answer.
`PassFairness` says that a delivery pass settles (every provider call and query has a timeout); the other
reactions may hang. The fairness of `AgentSessions` says the same of its asynchronous functions, and that a
daemon reconnects, as its client does; of the signs an archive waits for it says only that one which is not
lost is recorded in the end (`Signal`). A lost sign is never sent again, so `EndedWorkStops` takes out the
agents whose remaining stops wait for one (`Stranded`). In `progress` and `executions` a part's fairness is that of its
timers (ticks, retries, restarts) and of calls that return; what people and providers do is never assumed.
All of it is weak fairness: nothing is assumed of an action that is enabled only now and then. In
`sessions_live` a lost connection is excluded: a stop that waits for the lock over a connection that is
replaced meanwhile fails, and the recovery of the new connection had joined it instead of trying itself.

## What is proved

Eight modules hold theorems that TLAPS checks, for every value of the constants: any number of runs, steps,
executions, processes, sockets, requests, people or deliveries, and any number of faults unless an
assumption says otherwise. Every invariant and action property of the runs above is proved, but for
`AcceptedWorkflowsRun` and the type invariant of the compiled workflows. Each component is proved in the same
way: a strengthened invariant (TLC checked it before the proof), lemmas about the operators and transactions,
one lemma or step per action that it keeps the invariant, and the theorems at the end. What a theorem
assumes beyond the `ASSUME`s of its module is an operator named in its hypotheses.

| Module | About | Theorems |
|---|---|---|
| `WorkflowEngineProofs` | `WorkflowEngine` | `TypeCorrect`; `ExecutionEndsStep`, `RunEndNotified`, `OutcomesFinal` (the properties of `engine_two`), `MeterExact`; with one process `NoSecondHandOff`, and as long as no execution is lost `AgentsOfLiveRuns`, `StepsRunInOrder`, `SuccessIsComplete` and the refinement `RunsAreLifecycles`; `NoneLost`; `SafeWithOneFault`, all of it together |
| `RunProofs` | `RunNotification` | `TypeCorrect`, `DeliveryShown`, `ToldOnce` |
| `AgentSessionsProofs` | `AgentSessions` | `TypeCorrect`, `KeyHolds`, `OneAgentPerKey`; `SessionsHold`, `NoWorkIsStopped`, `CredentialsKept` |
| `ExecutionsProofs` | `Executions`: `ExecutionAuthority` (au), `Sprites` (sp) | `WorkStaysEquipped` (`WorkIsEquipped`) from `AuCommittedStaysGood`, `AuAllAreGivenTheSame`, `AuNoTokenIsUnleased` and the machines' invariant |
| `ProgressProofs` | `Progress`: `ScheduledTriggers` (Sc), `ProviderRuntime` (Ru), `ExecutionOutputs` (Ou), `RunNotification` (No) | `TypeCorrect`, `NothingEverOverlaps`, `StepsFollowTheSaved` |
| `OrganizationProofs` | `Memberships`, `Credentials` (cr), `InstanceSetup` (se), `Entitlements` (en), `LockOrder` (lo), `HubProcess` (hp), `Billing` (bi) | `AlwaysOwned`, `SeatsHold`, `ByRight`, `ByInvitation`, `SignUpsInvited`; `CrDenialsLast`, `CrEnrollmentIsCurrent`; `SeOneFirstOperator`, `SeRightfulOwners`; `EnDecidedAndCovered`; `HpProcessesAreAlone`; `BiConverges` |
| `ProviderProofs` | `ProviderEvents`, `ProviderConnections` (co), `LinearTokens` (to), `ConfigurationRevisions` (re), `DaemonRegistry` (da), `SlackSocket` (so), `LinearIssues` (li), `EventRouting` (ro), `TriggerMigration` (tm), `AgentSupervision` (su), `GitHubLifecycle` (gh) | `RunsFollowReceipts`, `NothingAcknowledgedIsMissing`; `CoConnectionsAreProven`, `CoBoundByRule`; `ToNewestTokens`; `ReLiveRoutes`, `ReDeploymentsAreOrdered`; `SoAcknowledgedWhenAccepted`; `LiEntriesStartRuns`; `RoRoutedAsAsked`; `TmServedAlways`; `SuWatchedAlways`; `GhConverges` |
| `ControlPlaneProofs` | `ControlPlane` | one theorem for each property of `control_plane`: `TypeCorrect`, `DeliveriesStayKept`, `BindingsStayProven`, `MirrorsKeepConverging`, `OrganizationsStayWhole`, `RoutesStayLive`, `DaemonsStayWatched`, `CredentialsAlwaysEnd`, `WaitsStayOrdered`, `TenantsStayKept`, `DeploymentsOnlyGoForward`, `PermissionsStayCurrent` |

**How the proofs are put together.** `OrganizationProofs` and `ProviderProofs` host several components: the
first is extended, the others are instances over variables of their own, with a prefix. `ControlPlane` has
the same components over the variables that its parts share, so `ControlPlaneProofs` takes both hosts as
instances and first shows that each part is the component they reason about (the `Same...` lemmas, which
expand definitions and nothing else). Then a step of a part keeps that part's invariant, and leaves the
others alone since it cannot change `part` (`PartSteps`). `ProgressProofs` takes `RunProofs` in the same way.
`Progress` and `Executions` are the composites without what TLC needs; `MCProgress` and `MCExecutions` give
them instances. `ControlPlaneAssumption`, `ProgressAssumption` and `ExecutionsAssumption` are the
conjunctions of the components' own assumptions, which say only that sets are finite where something is
counted, that what stands for nothing is none of the things, and that bounds are numbers; TLC evaluates
them in the composites' runs.

### The run path

**The engine.** None of its invariants is inductive. `IInv` adds what the transactions rely on: a run that
does not exist has no wakeup and untouched steps; a running run has no failed step; a step and its execution
agree (`RunInv`); the control position of an engine says which of its locals mean something (`WorkerInv`);
the meter is within its limit. Since the actions share a few transactions, one lemma per transaction shows
that it keeps the rows consistent and rewrites no outcome (`Kept`), whoever runs it in whatever state. That
an engine's snapshot may be arbitrarily stale is part of the theorem: nothing in `IInv` mentions `seen`.

The order of the steps is about what one engine may believe, so it does mention `seen`, and assumes
`OneEngine`: the embedded database has one process by construction, and with two the properties fail, since
two engines decide on each other's past. `OrderInv` relates the rows (an execution has only done steps
before it, a live one belongs to a running run) to the engine's position (the listed steps are the steps,
but for one that succeeded since; what is about to be created has nothing live beside it). It is inductive
as long as `PreHandoffIsRecoverable` holds, which is the hypothesis of the three theorems and of the
refinement: they say that losing an execution before its hand-off is the *only* way in which order or
completeness can break. `NoneLost` discharges the hypothesis under `SingleFault`: no redelivery and one
crash, rejected call or lost connection at most (`FaultInv`: a lease is given up only by the fault, and then
no second one comes). This bound is the code's and not the proof's. With two rejected calls TLC finds, in
`engine_crash`'s instance with `MaxFaults = 2`, that `PreHandoffIsRecoverable`, `SucceededRunIsComplete` and
the refinement fail, by the same cleared lease as in `engine_lost`: the first leaves the wakeup of a step
that is handed off; it is claimed again, the agent's completion clears that claim's lease, the next step is
created without one, and the second fault loses it. One redelivery and one fault do as well.

**The notification.** `DeliveredIsShown` needs where a pass stands (`PassOk`): before it records a delivery,
the provider shows the outcome, and no later reaction removes it. `ToldOncePerLease` needs an account:
`credit` covers the calls under way and the one that a free lease lets in (`CreditInv`).

**The sessions.** `KeyInv` is inductive whatever fails: the session of a live execution keeps the key, and one
dispatch at a time holds its lock; this is why prompts of one key never are in two agents. That nobody stops
the agent or revokes the credentials of somebody else's work rests on decisions made before waiting:
`Serves` says that a lock chosen then still is right when it is held, since a session that lost the key
never gets it back; `Finished` says that a session whose executions have ended is not used again.
`SessionInv` and `CredsInv` are inductive under `SessionsKept`: with temporary credentials neither a crash
nor a rejected call (either may leave a session without its execution), without them no stop given up that
the daemon carries out later. Both exceptions are behaviours of the code (*Known weaknesses*), and the two
runs that check these properties satisfy it.

**What an execution is given.** While it is active no process has been told of its end (`AuEndInv`), so the
record is written once (`AuSameInv`) and nobody asks for the release of a lease that is committed or may still
be (`AuGoodInv`). A second machine is alive only where a restart set one alive again (`SpOneInv`).

**Supervision.** An execution that failed as idle was idle by every event it had heard in time. The row has the
deadline that the events say, one after another (`SuSeenInv`), and what they say of a deadline is said by those
before it (`SuBeforeDeadline`, an induction back over the queue). The proof corrected the property: an earlier
form counted the events the process had received when it began to wait, and was true up to the bounds of the
run only. A live execution at rest has its timer armed, unless a row read too early armed it.

**Schedules, replacements, outputs.** `ScHeldInv`: what a tick holds nobody edits or takes, so the occurrence
that was due still is when the tick commits, however old its clock. `ScFreshInv` and `ScNextInv`: occurrences
after the last catching up have no run, and `next_at` is one of them. That a recurrence has a first instant
after a given one is a lemma. A candidate registration is not the one in the slot, and listens before it is
published (`RuCandidateInv`). What was recorded and what is under way is within the limit (`OuCountInv`); the
signs of a turn's end come after it (`OuTurnInv`).

### What may enter it

**Events.** A receipt's routes never change, so what a request still has to enqueue can be compared with them
at any time: all of it is asked for by the receipt (`TodoInv`), and until the request fails it includes all
that is missing (`CoverInv`). *Slack*: the head of the queue is recorded before it is acknowledged, and one
connection is open, the last. *Linear*: what an event says of an issue is what the issue then was.

**Routes.** A filter says what its author did, of the connection that had the name when it was compiled; an id
is never given out again, so a filter is at worst silent. A deployment under way has read a head and a
revision that bound what it may write. The triggers of a migration get names that are new, whatever the
order in which it takes them: the set of names that are left to do is worked off one after another by `Place`
(`TmNamesDiffer`, by induction), and what is not migrated yet is still to do.

**Connections.** A binding is of the active application and made by an attempt of its own, since a callback
holds the attempt's row. The row of a Linear connection holds the newest tokens of the connection bound
last, unless a crash or a lost answer took them.

**Mirrors.** *GitHub*: as long as the requests of an installation came one after another and none died in
between, what one of them has seen of GitHub is outdated only if the event of the last change is still to be
answered (`GhEvidenceInv`); so when all are answered, the status is GitHub's. *Billing*: a stamp or a quantity
that is not Stripe's live state is still to be written again, because an event of the subscription is due or
the job that writes it is on its way (`BiStampInv`, `BiBillInv`). Only the job that holds the lock acts on what
it read (`BiReadInv`); before the customer is known every subscription is still to be stamped
(`BiCustomerInv`); a list that was read shows the one live subscription (`BiLiveInv`).

### Who may change it, and what is underneath

**Memberships.** The clock of a request is past (`PastInv`), so the invitations it sweeps hold no seat any more;
what was accepted late was accepted (`LateInv`), so each late acceptance is counted once. The seats are a
proof about cardinalities (`SeatsKept`, `OneMore`). **Credentials.** A credential exists once its authorization
was disclosed only (`CrDisclosedInv`), so a denial is final. **Setup.** Who holds the row alone decides
(`SeRowInv`), under a lock that keeps what it has counted (`SeLockedInv`). **Entitlements.** The row is as the
one writer of it has read it (`EnTxInv`), and a limit that was read is one of the trail (`EnLimitInv`).
**Daemons.** What is pending or recorded is of the socket that is registered.

**Locks and processes.** A section that waits has taken the locks before the one it waits for, so waits go up
the order, for any number of sections and any pool. From its making on the lock file is its maker's
(`HpHeldInv`), since what another process is about to remove is of a dead one (`HpStaleInv`).

### Only model-checked

Liveness under fairness is out of the prover's reach: `RunsEnd`, `WorkLeavesNothing`, `NothingIsLeft`,
`EveryEndIsTold`, `EndedWorkStops`, `CredentialsAreRevoked`. `AcceptedWorkflowsRun` is about small documents,
which TLC enumerates; their evaluation is a `RECURSIVE` operator, which the prover does not take. That TLC's
instances are what the theorems speak of is a matter of `INSTANCE`: no configuration replaces a definition.
The library's induction theorems take an operator as a parameter, which these provers cannot instantiate.
Where an induction over numbers was needed it goes through the well-foundedness of `<` on `Nat` instead
(`Least`, `Induction` in `ProviderProofs`), and a recursive function is unfolded from its definition.
## Findings

The runs with a violation; `PROJECT.json` quotes the sentence each contradicts.

- `engine_stale`: an execution that ends between the listing of the steps and the read of the live execution
  leaves the next step to be decided on the outdated list.
- `engine_lost`: a wake during the processing of a wakeup clears its lease; an execution whose hand-off then
  fails is not dispatched again. With a redelivery, one fault is enough; without, it takes two.
- `notification_stale`: a slow first reaction survives the terminal one.

### Known weaknesses

Behaviours of the code that the properties are stated around, met while modelling.

*Sessions and executions*
- An execution that ends while its launch prepares credentials has no session yet: `control` answers true,
  its archive is recorded as completed, and the launch then makes an agent. `deliver` keeps the prompt back,
  so `EndedWorkStops` holds; the idle agent stays up until another execution of the key is archived.
- `saveAgentSession` and `attachExecutionToSession` are two statements. After a crash between them
  `isFinishedCredentialedSession` finds no execution in the session (`executions.length > 0`), and the next
  execution of the key uses its stored options, whose credentials the restart has given back:
  `CredentialsOutliveWork` fails with temporary credentials and a crash. Such a session can also be retired
  and saved again under its old id; a control that read the retired row waits for the session's lock, the
  dispatch holds the key's, and the stop meets newer work: `LiveWorkGoesOn` and `EndedWorkStops` fail with
  temporary credentials and a crash. Each is checked with either.
- A stop whose answer the Hub gives up may be carried out by the daemon later, on newer work. A stop that
  joined an attempt over a lost connection, or that the daemon rejects, is not sent again before the next
  connection or restart. A cancelled wait for the lock leaves credentials to their own deadline.
- A crash between `completeExecution` and the finish acknowledgement, a `turn_completed` that the agent sends
  while the Hub is down or not connected, or one whose handler fails at a query, means that the archive is
  never sent: recovery watches the agent again, but only for new events, and the prompt of the execution
  stays in its agent. A second end (another finish call, a failure that comes late) finds the execution ended
  and releases its subscription although the archive still waits for the turn's end, with the same result.
  `LoseSign` has these cases, and `EndedWorkStops` names them as its exception. A terminal sign of an earlier
  turn stands for the later one. A late output is recorded as failed though the provider took it, and may be sent again.
- An execution's idle deadline is set at its reservation, so a long start may idle it out; the engine's poll
  expires by the row without waiting for queued events (`daemons.test.ts:1515` has the timer wait); a timer
  armed by a stale row may replace a nearer one, which the poll makes up for.
- A crash between the provider's token and its lease's row leaves the token to its expiry; one between
  revocation and row makes the provider answer 401 until then.
- All sprites of a trigger have one name, so the clean-up of one activation may destroy the next one's
  machine; a machine retired while it spawns races its job; `transitionMachine` is unconditional and may
  revive a terminated machine at a restart; a lost call leaks a key.
- The compiler does not look at a continuation key: one that renders to nothing or to more than 512
  characters is retried until the run's deadline. At completion every value is evaluated: one that names a
  skipped step's output fails a run whose steps all went well.

*Events and configuration*
- `markProviderEventDropped` marks the receipt all projects share: after one project dropped the event, the
  failed enqueue of another is answered "dropped" on redelivery. A delivery that finds no handlers, also one
  in flight when an application is replaced, is answered 200 with nothing dispatched. A crash between claim
  and application of a lifecycle event leaves the claim, and the redelivery is a duplicate.
- GitHub's state is fetched, then applied, without an order between two events: older evidence may land
  last. Likewise an older commit of an overlapping synchronisation, and the snapshot a switch to manual read.
- A renamed repository is routed by its id and refused by the filter's name until the next deployment; a
  connection made anew leaves triggers silent until then; a roll-back restores filters with old ids.
- A Linear event that names a project and omits state or labels is matched as if they were empty; hydration
  reads the issue of a later moment.
- A migrated trigger that was renamed keeps its old name in its document, so that saving it renames it back;
  a concurrent deployment or save fails the start.
- A `link_disabled` frame of an old Slack connection, handled late, stops the newer one.
- The rotated refresh token of Linear is lost when the process dies between exchange and commit. Two callbacks
  that bind in the reverse order of their exchanges leave the older pair; `LinearTokens` numbers pairs as they
  are bound and does not see it.
- A save by another process is not noticed before a restart; a slow start activates what it read before it.

*Access, billing, database, process*
- The writes of two sockets' presence are not ordered; a daemon revoked during its upgrade is accepted;
  a failed offline write is kept and fails `stop`. Requests pending on an open socket have no timeout.
- Revoking a command line's credential leaves its unused enrolment tokens; a lost answer to a poll loses the
  credential. `now()` is the transaction's start: an invitation that expires between two of them may cost one
  seat over the cap.
- A late event of an older, ended subscription stamps Free over a newer paid one (`billing/index.ts:59`
  says that out-of-order delivery converges; it does, on the subscription reconciled last).
- Four transactions take locks against the order of the others, and some take a second connection of the
  pool inside a critical section (`OutOfOrder`, `TakesTwoConnections` in `LockOrder`): PostgreSQL's deadlock
  detection and the 3 s deadlines end these waits, and nothing retries.
- The lock file's owner is judged by its pid. Two starts that judged the same stale file may both go on; a
  restart that gets the dead owner's pid again, as in a container, refuses for ever. `server.close` waits
  for the daemons' sockets, which are closed only after it: a stop with a connected daemon needs a kill,
  which leaves the file.

## Not modelled

- The authored surface of workflows (YAML, partials, schemas), the providers' parsing and rendering, mail,
  guides, attachments, the operator's and the public API's validation, the web interface: input, output and
  single-step commands without state of their own. They are most of the lines of the repository that the map
  does not reach.
- `db/memory.ts` is a double of the database for tests, the migrations run once, `db/types.ts` and
  `db/schema.ts` are declarations.
- The gateway of Discord, the authentication library's sessions, Stripe's and GitHub's own behaviour beyond
  what the code reads from them.
- Within the modelled parts, what a module leaves out is listed with it. Transactions are atomic actions;
  the order of their locks is `LockOrder`'s.

## Plan

What the proofs leave open: liveness, as far as it can be said as an invariant (a wakeup or a lease exists for
every run that is not over, which is what `RunsEnd` rests on); the evaluation of conditions in
`CompiledWorkflows` as a recursive function, so that `AcceptedWorkflowsRun` can be proved of documents of any
length; what the two processes of the engine do keep of the order of steps; and a registry of the authentication
library's sessions, should the code come to own them.
