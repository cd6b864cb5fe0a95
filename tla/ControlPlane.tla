---------------------------- MODULE ControlPlane ----------------------------
(***************************************************************************)
(* The parts of the hub that share no state in the model: a behaviour      *)
(* chooses one part at the start and only that part takes steps. As only   *)
(* one runs, they use the same variables; the properties are those of the  *)
(* parts. The constants of a part have its prefix.                         *)
(***************************************************************************)
EXTENDS Integers, Sequences, FiniteSets

CONSTANTS
  None, Legacy, Nobody, Omitted,
  evProjects, evTriggers, evRevisions, evFires, evDeliveries,
  evManualDeliveries, evManualProject, evRequests, evMaxSends, evMaxFailures,
  evMaxStops, evMaxChanges,
  coApps, coOrganizations, coExternals, coAttempts, coCallbacks, coFlows,
  coMaxVersion, coMaxStarts, coMaxChanges,
  ghWorkers, ghMaxEvents, ghMaxSends, ghMaxOutages, ghMaxDeaths,
  reDeployers, reMaxCommits, reMaxRevisions, reMaxDecisions,
  daSockets, daAsks, daMaxUpdates, daMaxWriteFailures,
  crClis, crKey, crTokens, crDaemons,
  loSections, loPoolSizes,
  biSubscriptions, biPrices, biWorkers, biFree, biMaxSeats, biMaxChanges,
  biMaxFailures, biMaxRepeats,
  mePeople, meRequests, meInvitations, meFounder, meInvitee, meSeats,
  meMaxReads,
  seClaims, seStarts, sePeople, sePreserved,
  roAccounts, roThings, roNames, roMaxIds, roMaxChanges, roMaxDeploys,
  roMaxRollbacks,
  liProjects, liStates, liLabels, liMaxEvents, liMaxDeliveries,
  tmHubs, tmOrder, tmNames, tmContents, tmMaxWrites, tmMaxCrashes,
  soEvents, soMaxConnections, soMaxFrames, soMaxFailures, soMaxChanges,
  enKeys, enLimits, enUnlimited, enWriters, enCreators, enMaxChanges,
  enMonths, enMaxCreated,
  toHubs, toRequesters, toHubOf, toMaxGrants, toMaxTokens, toMaxFaults,
  suIdle, suHard, suMaxTime, suMaxEvents,
  hpProcesses, hpPids, hpMaxStarts

VARIABLES
  part, \* the one that runs
  s1, s2, s3, s4, s5, s6, s7, s8, s9, s10, s11, s12, s13, s14, s15, s16

vars ==
  <<part, s1, s2, s3, s4, s5, s6, s7, s8, s9, s10, s11, s12, s13, s14, s15,
    s16>>

Ev == INSTANCE ProviderEvents WITH
    Projects <- evProjects, Triggers <- evTriggers, Revisions <- evRevisions,
    Fires <- evFires, Deliveries <- evDeliveries,
    ManualDeliveries <- evManualDeliveries, ManualProject <- evManualProject,
    Requests <- evRequests, MaxSends <- evMaxSends,
    MaxFailures <- evMaxFailures, MaxStops <- evMaxStops,
    MaxChanges <- evMaxChanges, connection <- s1, active <- s2,
    serving <- s3, receipt <- s4, fired <- s5, request <- s6, acked <- s7,
    unheard <- s8, sends <- s9, failures <- s10, stops <- s11, changes <- s12

Co == INSTANCE ProviderConnections WITH
    Apps <- coApps, Organizations <- coOrganizations,
    Externals <- coExternals, Attempts <- coAttempts,
    Callbacks <- coCallbacks, Flows <- coFlows, MaxVersion <- coMaxVersion,
    MaxStarts <- coMaxStarts, MaxChanges <- coMaxChanges, flow <- s1,
    config <- s2, activation <- s3, binding <- s4, authority <- s5,
    attempt <- s6, callback <- s7, startup <- s8, bound <- s9, starts <- s10,
    changes <- s11

Gh == INSTANCE GitHubLifecycle WITH
    Workers <- ghWorkers, MaxEvents <- ghMaxEvents, MaxSends <- ghMaxSends,
    MaxOutages <- ghMaxOutages, MaxDeaths <- ghMaxDeaths, world <- s1,
    status <- s2, events <- s3, claimed <- s4, worker <- s5, answered <- s6,
    overlapped <- s7, orphans <- s8, sent <- s9, outages <- s10,
    deaths <- s11

Re == INSTANCE ConfigurationRevisions WITH
    Deployers <- reDeployers, MaxCommits <- reMaxCommits,
    MaxRevisions <- reMaxRevisions, MaxDecisions <- reMaxDecisions,
    head <- s1, authority <- s2, archived <- s3, revisions <- s4,
    active <- s5, routed <- s6, deployer <- s7, decisions <- s8

Da == INSTANCE DaemonRegistry WITH
    Sockets <- daSockets, Asks <- daAsks, MaxUpdates <- daMaxUpdates,
    MaxWriteFailures <- daMaxWriteFailures, row <- s1, link <- s2,
    registered <- s3, up <- s4, down <- s5, ask <- s6, revoking <- s7,
    updating <- s8, updates <- s9, writeFailures <- s10, crossed <- s11

Cr == INSTANCE Credentials WITH
    Clis <- crClis, Key <- crKey, Tokens <- crTokens, Daemons <- crDaemons,
    authorization <- s1, admin <- s2, credential <- s3, authorized <- s4,
    token <- s5, overdue <- s6, machine <- s7, daemon <- s8, denied <- s9

Lo == INSTANCE LockOrder WITH
    Sections <- loSections, PoolSizes <- loPoolSizes, poolSize <- s1,
    at <- s2

Bi == INSTANCE Billing WITH
    Subscriptions <- biSubscriptions, Prices <- biPrices,
    Workers <- biWorkers, Free <- biFree, MaxSeats <- biMaxSeats,
    MaxChanges <- biMaxChanges, MaxFailures <- biMaxFailures,
    MaxRepeats <- biMaxRepeats, subscription <- s1, due <- s2,
    checkouts <- s3, mirrored <- s4, plan <- s5, customer <- s6, seats <- s7,
    list <- s8, holder <- s9, task <- s10, trialled <- s11, last <- s12,
    astray <- s13, changes <- s14, failures <- s15, repeats <- s16

Me == INSTANCE Memberships WITH
    People <- mePeople, Requests <- meRequests, Invitations <- meInvitations,
    Founder <- meFounder, Invitee <- meInvitee, Seats <- meSeats,
    MaxReads <- meMaxReads, account <- s1, member <- s2, invitation <- s3,
    past <- s4, request <- s5, signup <- s6, made <- s7, reads <- s8,
    late <- s9

Se == INSTANCE InstanceSetup WITH
    Claims <- seClaims, Starts <- seStarts, People <- sePeople,
    Preserved <- sePreserved, complete <- s1, users <- s2, operators <- s3,
    owner <- s4, caller <- s5, inserting <- s6

Ro == INSTANCE EventRouting WITH
    Accounts <- roAccounts, Things <- roThings, Names <- roNames,
    MaxIds <- roMaxIds, MaxChanges <- roMaxChanges,
    MaxDeploys <- roMaxDeploys, MaxRollbacks <- roMaxRollbacks,
    provider <- s1, home <- s2, names <- s3, rows <- s4, listed <- s5,
    revisions <- s6, active <- s7, routes <- s8, work <- s9, made <- s10,
    changes <- s11, rollbacks <- s12

Li == INSTANCE LinearIssues WITH
    Projects <- liProjects, States <- liStates, Labels <- liLabels,
    MaxEvents <- liMaxEvents, MaxDeliveries <- liMaxDeliveries, filter <- s1,
    issue <- s2, events <- s3, after <- s4, entered <- s5, hand <- s6,
    receipts <- s7, runs <- s8, late <- s9, deliveries <- s10

Tm == INSTANCE TriggerMigration WITH
    Hubs <- tmHubs, Order <- tmOrder, Names <- tmNames,
    Contents <- tmContents, MaxWrites <- tmMaxWrites,
    MaxCrashes <- tmMaxCrashes, revisions <- s1, active <- s2,
    projectRoutes <- s3, migrations <- s4, triggers <- s5, hubs <- s6,
    writes <- s7, crashes <- s8

So == INSTANCE SlackSocket WITH
    Events <- soEvents, MaxConnections <- soMaxConnections,
    MaxFrames <- soMaxFrames, MaxFailures <- soMaxFailures,
    MaxChanges <- soMaxChanges, mode <- s1, stopped <- s2, handlers <- s3,
    status <- s4, loop <- s5, stopping <- s6, current <- s7, open <- s8,
    frames <- s9, head <- s10, terminalDisconnect <- s11, recorded <- s12,
    acked <- s13, sent <- s14, failures <- s15, changes <- s16

En == INSTANCE Entitlements WITH
    Keys <- enKeys, Limits <- enLimits, Unlimited <- enUnlimited,
    Writers <- enWriters, Creators <- enCreators, MaxChanges <- enMaxChanges,
    Months <- enMonths, MaxCreated <- enMaxCreated, granted <- s1,
    overrides <- s2, trail <- s3, tx <- s4, asked <- s5, month <- s6,
    usage <- s7, reservation <- s8, created <- s9

To == INSTANCE LinearTokens WITH
    Hubs <- toHubs, Requests <- toRequesters, HubOf <- toHubOf,
    MaxGrants <- toMaxGrants, MaxTokens <- toMaxTokens,
    MaxFaults <- toMaxFaults, row <- s1, grants <- s2, live <- s3,
    expired <- s4, requests <- s5, sharing <- s6, faults <- s7

Su == INSTANCE AgentSupervision WITH
    Idle <- suIdle, Hard <- suHard, MaxTime <- suMaxTime,
    MaxEvents <- suMaxEvents, now <- s1, up <- s2, connected <- s3,
    status <- s4, idle <- s5, ended <- s6, heard <- s7, handled <- s8,
    hand <- s9, timer <- s10, call <- s11, faults <- s12, crossed <- s13

Hp == INSTANCE HubProcess WITH
    Processes <- hpProcesses, Pids <- hpPids, MaxStarts <- hpMaxStarts,
    lock <- s1, at <- s2, starts <- s3, pid <- s4, seen <- s5, line <- s6,
    runtime <- s7, overtaken <- s8

\* What the parts ask of their constants.
ASSUME ControlPlaneAssumption ==
  /\ Ev!EventsAssumption
  /\ Co!ConnectionsAssumption
  /\ Re!RevisionsAssumption
  /\ Da!RegistryAssumption
  /\ Cr!CredentialsAssumption
  /\ Lo!OrderAssumption
  /\ Me!MembershipAssumption
  /\ Se!SetupAssumption
  /\ En!EntitlementsAssumption
  /\ To!TokensAssumption
  /\ Hp!ProcessAssumption
  /\ So!SocketAssumption
  /\ Li!IssuesAssumption
  /\ Ro!RoutingAssumption
  /\ Tm!MigrationAssumption
  /\ Su!SupervisionAssumption
  /\ Gh!LifecycleAssumption
  /\ Bi!BillingAssumption

\* A part uses the first of the variables; the rest stay empty.
Init ==
  \/ /\ part = "events" /\ Ev!Init
     /\ s13 = None /\ s14 = None /\ s15 = None /\ s16 = None
  \/ /\ part = "connections" /\ Co!Init
     /\ s12 = None /\ s13 = None /\ s14 = None /\ s15 = None /\ s16 = None
  \/ /\ part = "github" /\ Gh!Init
     /\ s12 = None /\ s13 = None /\ s14 = None /\ s15 = None /\ s16 = None
  \/ /\ part = "revisions" /\ Re!Init
     /\ s9 = None /\ s10 = None /\ s11 = None /\ s12 = None /\ s13 = None
     /\ s14 = None /\ s15 = None /\ s16 = None
  \/ /\ part = "registry" /\ Da!Init
     /\ s12 = None /\ s13 = None /\ s14 = None /\ s15 = None /\ s16 = None
  \/ /\ part = "credentials" /\ Cr!Init
     /\ s10 = None /\ s11 = None /\ s12 = None /\ s13 = None /\ s14 = None
     /\ s15 = None /\ s16 = None
  \/ /\ part = "locks" /\ Lo!Init
     /\ s3 = None /\ s4 = None /\ s5 = None /\ s6 = None /\ s7 = None
     /\ s8 = None /\ s9 = None /\ s10 = None /\ s11 = None /\ s12 = None
     /\ s13 = None /\ s14 = None /\ s15 = None /\ s16 = None
  \/ /\ part = "billing" /\ Bi!Init
  \/ /\ part = "members" /\ Me!Init
     /\ s10 = None /\ s11 = None /\ s12 = None /\ s13 = None /\ s14 = None
     /\ s15 = None /\ s16 = None
  \/ /\ part = "setup" /\ Se!Init
     /\ s7 = None /\ s8 = None /\ s9 = None /\ s10 = None /\ s11 = None
     /\ s12 = None /\ s13 = None /\ s14 = None /\ s15 = None /\ s16 = None
  \/ /\ part = "routing" /\ Ro!Init
     /\ s13 = None /\ s14 = None /\ s15 = None /\ s16 = None
  \/ /\ part = "issues" /\ Li!Init
     /\ s11 = None /\ s12 = None /\ s13 = None /\ s14 = None /\ s15 = None
     /\ s16 = None
  \/ /\ part = "migration" /\ Tm!Init
     /\ s9 = None /\ s10 = None /\ s11 = None /\ s12 = None /\ s13 = None
     /\ s14 = None /\ s15 = None /\ s16 = None
  \/ /\ part = "socket" /\ So!Init
  \/ /\ part = "entitlements" /\ En!Init
     /\ s10 = None /\ s11 = None /\ s12 = None /\ s13 = None /\ s14 = None
     /\ s15 = None /\ s16 = None
  \/ /\ part = "tokens" /\ To!Init
     /\ s8 = None /\ s9 = None /\ s10 = None /\ s11 = None /\ s12 = None
     /\ s13 = None /\ s14 = None /\ s15 = None /\ s16 = None
  \/ /\ part = "supervision" /\ Su!Init
     /\ s14 = None /\ s15 = None /\ s16 = None
  \/ /\ part = "process" /\ Hp!Init
     /\ s9 = None /\ s10 = None /\ s11 = None /\ s12 = None /\ s13 = None
     /\ s14 = None /\ s15 = None /\ s16 = None

Next ==
  \/ /\ part = "events" /\ Ev!Next
     /\ UNCHANGED <<part, s13, s14, s15, s16>>
  \/ /\ part = "connections" /\ Co!Next
     /\ UNCHANGED <<part, s12, s13, s14, s15, s16>>
  \/ /\ part = "github" /\ Gh!Next
     /\ UNCHANGED <<part, s12, s13, s14, s15, s16>>
  \/ /\ part = "revisions" /\ Re!Next
     /\ UNCHANGED <<part, s9, s10, s11, s12, s13, s14, s15, s16>>
  \/ /\ part = "registry" /\ Da!Next
     /\ UNCHANGED <<part, s12, s13, s14, s15, s16>>
  \/ /\ part = "credentials" /\ Cr!Next
     /\ UNCHANGED <<part, s10, s11, s12, s13, s14, s15, s16>>
  \/ /\ part = "locks" /\ Lo!Next
     /\ UNCHANGED <<part, s3, s4, s5, s6, s7, s8, s9, s10, s11, s12, s13, s14,
                  s15, s16>>
  \/ /\ part = "billing" /\ Bi!Next
     /\ UNCHANGED <<part>>
  \/ /\ part = "members" /\ Me!Next
     /\ UNCHANGED <<part, s10, s11, s12, s13, s14, s15, s16>>
  \/ /\ part = "setup" /\ Se!Next
     /\ UNCHANGED <<part, s7, s8, s9, s10, s11, s12, s13, s14, s15, s16>>
  \/ /\ part = "routing" /\ Ro!Next
     /\ UNCHANGED <<part, s13, s14, s15, s16>>
  \/ /\ part = "issues" /\ Li!Next
     /\ UNCHANGED <<part, s11, s12, s13, s14, s15, s16>>
  \/ /\ part = "migration" /\ Tm!Next
     /\ UNCHANGED <<part, s9, s10, s11, s12, s13, s14, s15, s16>>
  \/ /\ part = "socket" /\ So!Next
     /\ UNCHANGED <<part>>
  \/ /\ part = "entitlements" /\ En!Next
     /\ UNCHANGED <<part, s10, s11, s12, s13, s14, s15, s16>>
  \/ /\ part = "tokens" /\ To!Next
     /\ UNCHANGED <<part, s8, s9, s10, s11, s12, s13, s14, s15, s16>>
  \/ /\ part = "supervision" /\ Su!Next
     /\ UNCHANGED <<part, s14, s15, s16>>
  \/ /\ part = "process" /\ Hp!Next
     /\ UNCHANGED <<part, s9, s10, s11, s12, s13, s14, s15, s16>>

Spec == Init /\ [][Next]_vars

-----------------------------------------------------------------------------
\* Every variable of the chosen part has its type.
TypeOK ==
  /\ part = "events" => Ev!TypeOK
  /\ part = "connections" => Co!TypeOK
  /\ part = "github" => Gh!TypeOK
  /\ part = "revisions" => Re!TypeOK
  /\ part = "registry" => Da!TypeOK
  /\ part = "credentials" => Cr!TypeOK
  /\ part = "locks" => Lo!TypeOK
  /\ part = "billing" => Bi!TypeOK
  /\ part = "members" => Me!TypeOK
  /\ part = "setup" => Se!TypeOK
  /\ part = "routing" => Ro!TypeOK
  /\ part = "issues" => Li!TypeOK
  /\ part = "migration" => Tm!TypeOK
  /\ part = "socket" => So!TypeOK
  /\ part = "entitlements" => En!TypeOK
  /\ part = "tokens" => To!TypeOK
  /\ part = "supervision" => Su!TypeOK
  /\ part = "process" => Hp!TypeOK

\* Overlapping and repeated deliveries of an event enqueue exactly the runs of the
\* routes that were live when it was first accepted, and none that was answered with
\* success is left without them; the changes of a Linear issue start the runs of its entries
\* into a scope; Slack is told of what was accepted only (db/trigger-acceptance.ts,
\* triggers/*/index.ts, triggers/linear/match.ts, triggers/slack/source).
DeliveriesAreKept ==
  /\ part = "events" => Ev!RunsFollowSnapshot /\ Ev!AcknowledgedIsEnqueued
  /\ part = "issues" => Li!EntriesRun
  /\ part = "socket" => So!AckedIsAccepted /\ So!OneConnection

\* Every connection belongs to the application that is active for its provider, and
\* an attempt binds one at most, whatever callbacks overlap a change of application; a
\* Linear connection holds the newest tokens (db/connections.ts,
\* provider-applications/internal/store.ts, providers/linear/client.ts).
BindingsAreProven ==
  /\ part = "connections" => Co!BoundToActiveApplication /\ Co!AttemptBindsOnce
  /\ part = "tokens" => To!HoldsNewestTokens

\* What the hub mirrors converges on the original: the state of an installation on
\* GitHub's when its events were handled one after the other, the plan and the billed
\* seats on Stripe's live state and the organization's (providers/github/index.ts,
\* billing/index.ts).
MirrorsConverge ==
  /\ part = "github" => Gh!SerialEvidenceConverges
  /\ part = "billing" => Bi!StampConverges /\ Bi!SeatsAreBilled

\* No organization is left without an owner or with more seats than its cap, and the
\* instance has one first operator, who comes with an organization; what an organization
\* is entitled to and has used is what was decided and created
\* (auth/organization-access.ts, instance-setup/index.ts, entitlements/service.ts).
OrganizationsAreWhole ==
  /\ part = "members" => Me!HasOwner /\ Me!SeatsAreReserved
  /\ part = "setup" => Se!OneOperator /\ Se!CompleteIsWhole
  /\ part = "entitlements" => En!OverridesAreKept /\ En!TrailIsChained /\ En!UsageIsCovered

\* No installation moves to another organization, none is bound by a configuration that
\* was replaced before the binding, and nobody takes an organization or an instance that
\* is another's (db/connections.ts, instance-setup/index.ts).
TenantsAreKept ==
  [][ /\ part = "connections" => Co!TenantIsKept /\ Co!BoundByItsConfiguration
      /\ part = "setup" => Se!OwnersStay /\ Se!ClaimedPristine ]_vars

\* Only live projects have routes, which follow the active revision, and a trigger takes
\* the events its author asked for; a trigger is served once through the migration
\* (configuration/store.ts, db/pg.ts, triggers/*/match.ts, triggers/migration.ts).
RoutesAreLive ==
  /\ part = "revisions" => Re!RoutesAreLive
  /\ part = "routing" => Ro!NothingForeign /\ Ro!NothingMissed
  /\ part = "migration" => Tm!ServedOnce /\ Tm!FailsOnlyIfDisturbed

\* A deployment moves to the head it read or stays, and writes only under the
\* authority the project has (configuration/github-sync.ts).
DeploymentsGoForward ==
  [][part = "revisions" => Re!DeploysForward /\ Re!AuthorityIsRespected]_vars

\* What waits for an answer waits for the registered socket, and the recorded
\* presence is the registry's once the writes are done; an execution has its timer, and
\* is failed as idle only by what was heard of it (daemons/registry.ts, daemons/lifecycle.ts).
DaemonsAreWatched ==
  /\ part = "registry" => Da!PendingIsOnTheLine /\ Da!PresenceIsTrue
  /\ part = "supervision" => Su!IdledOutWasIdle /\ Su!ArmedWhenQuiet

\* A denied login stays denied, and a token enrols one daemon (db/pg.ts).
CredentialsEnd ==
  part = "credentials" => Cr!DenialIsFinal /\ Cr!OneDaemonPerToken

\* Rights count as they are at the moment of the deed: a daemon's permission when it is
\* asked, the key that enrols one, the role that changes a membership, the invitation that
\* admits a member or an account (daemons/registry.ts, db/pg.ts,
\* auth/organization-access.ts, auth/registration-admission.ts).
PermissionsAreCurrent ==
  [][ /\ part = "registry" => Da!AskedAsPermitted
      /\ part = "credentials" => Cr!EnrolledByLiveKey
      /\ part = "members" => Me!ChangedByRight /\ Me!JoinsInvited /\ Me!SignsUpInvited ]_vars

\* The transactions agree on an order of their locks, save the known exceptions; the
\* embedded database's lock is held by one process at a time, and a process that ends by
\* itself lets it go and makes nothing anew for a daemon that comes late (db/pg.ts,
\* db/runtime/internal/data-directory-lock.ts, index.ts, server/runtime.ts).
WaitsAreOrdered ==
  /\ part = "locks" => Lo!WaitsAreOrdered
  /\ part = "process" => Hp!OwnedAlone /\ Hp!LeavesNoFile /\ Hp!StoppedForGood

=============================================================================
