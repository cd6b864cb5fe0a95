------------------------- MODULE ControlPlaneProofs -------------------------
(***************************************************************************)
(* What ControlPlane promises for any value of its constants, proved: its  *)
(* properties are the parts', whose invariants OrganizationProofs and      *)
(* ProviderProofs prove.                                                   *)
(*                                                                         *)
(* Those modules reason about variables of their own, which are here the   *)
(* ones that the parts share; so each part is first shown to be the one    *)
(* that they speak of (the Same... lemmas, by their definitions).          *)
(***************************************************************************)
EXTENDS ControlPlane, TLAPS

Or == INSTANCE OrganizationProofs WITH
    crAuthorization <- s1, crAdmin <- s2, crCredential <- s3,
    crAuthorized <- s4, crToken <- s5, crOverdue <- s6, crMachine <- s7,
    crDaemon <- s8, crDenied <- s9, People <- mePeople,
    Requests <- meRequests, Invitations <- meInvitations,
    Founder <- meFounder, Invitee <- meInvitee, Seats <- meSeats,
    MaxReads <- meMaxReads, account <- s1, member <- s2, invitation <- s3,
    past <- s4, request <- s5, signup <- s6, made <- s7, reads <- s8,
    late <- s9, seComplete <- s1, seUsers <- s2, seOperators <- s3,
    seOwner <- s4, seCaller <- s5, seInserting <- s6, enGranted <- s1,
    enOverrides <- s2, enTrail <- s3, enTx <- s4, enAsked <- s5,
    enMonth <- s6, enUsage <- s7, enReservation <- s8, enCreated <- s9,
    loPoolSize <- s1, loAt <- s2, hpLock <- s1, hpAt <- s2, hpStarts <- s3,
    hpPid <- s4, hpSeen <- s5, hpLine <- s6, hpRuntime <- s7,
    hpOvertaken <- s8, biSubscription <- s1, biDue <- s2, biCheckouts <- s3,
    biMirrored <- s4, biPlan <- s5, biCustomer <- s6, biSeats <- s7,
    biList <- s8, biHolder <- s9, biTask <- s10, biTrialled <- s11,
    biLast <- s12, biAstray <- s13, biChanges <- s14, biFailures <- s15,
    biRepeats <- s16

Pr == INSTANCE ProviderProofs WITH
    Projects <- evProjects, Triggers <- evTriggers, Revisions <- evRevisions,
    Fires <- evFires, Deliveries <- evDeliveries,
    ManualDeliveries <- evManualDeliveries, ManualProject <- evManualProject,
    Requests <- evRequests, MaxSends <- evMaxSends,
    MaxFailures <- evMaxFailures, MaxStops <- evMaxStops,
    MaxChanges <- evMaxChanges, connection <- s1, active <- s2,
    serving <- s3, receipt <- s4, fired <- s5, request <- s6, acked <- s7,
    unheard <- s8, sends <- s9, failures <- s10, stops <- s11,
    changes <- s12, coFlow <- s1, coConfig <- s2, coActivation <- s3,
    coBinding <- s4, coAuthority <- s5, coAttempt <- s6, coCallback <- s7,
    coStartup <- s8, coBound <- s9, coStarts <- s10, coChanges <- s11,
    toRow <- s1, toGrants <- s2, toLive <- s3, toExpired <- s4,
    toRequests <- s5, toSharing <- s6, toFaults <- s7, reHead <- s1,
    reAuthority <- s2, reArchived <- s3, reRevisions <- s4, reActive <- s5,
    reRouted <- s6, reDeployer <- s7, reDecisions <- s8, daRow <- s1,
    daLink <- s2, daRegistered <- s3, daUp <- s4, daDown <- s5, daAsk <- s6,
    daRevoking <- s7, daUpdating <- s8, daUpdates <- s9,
    daWriteFailures <- s10, daCrossed <- s11, soMode <- s1, soStopped <- s2,
    soHandlers <- s3, soStatus <- s4, soLoop <- s5, soStopping <- s6,
    soCurrent <- s7, soOpen <- s8, soFrames <- s9, soHead <- s10,
    soTerminalDisconnect <- s11, soRecorded <- s12, soAcked <- s13,
    soSent <- s14, soFailures <- s15, soChanges <- s16, liFilter <- s1,
    liIssue <- s2, liEvents <- s3, liAfter <- s4, liEntered <- s5,
    liHand <- s6, liReceipts <- s7, liRuns <- s8, liLate <- s9,
    liDeliveries <- s10, roProvider <- s1, roHome <- s2, roNaming <- s3,
    roRows <- s4, roListed <- s5, roRevisions <- s6, roActive <- s7,
    roRoutes <- s8, roWork <- s9, roMade <- s10, roChanges <- s11,
    roRollbacks <- s12, tmRevisions <- s1, tmActive <- s2,
    tmProjectRoutes <- s3, tmMigrations <- s4, tmTriggers <- s5,
    tmStarts <- s6, tmWrites <- s7, tmCrashes <- s8, suNow <- s1, suUp <- s2,
    suConnected <- s3, suStatus <- s4, suIdleAt <- s5, suEnded <- s6,
    suHeard <- s7, suHandled <- s8, suHand <- s9, suTimer <- s10,
    suCall <- s11, suFaults <- s12, suCrossed <- s13, ghWorld <- s1,
    ghStatus <- s2, ghEvents <- s3, ghClaimed <- s4, ghWorker <- s5,
    ghAnswered <- s6, ghOverlapped <- s7, ghOrphans <- s8, ghSent <- s9,
    ghOutages <- s10, ghDeaths <- s11

-----------------------------------------------------------------------------
(* The parts are those that the other modules prove things about. *)

\* ProviderEvents, as it is reasoned about.
LEMMA SameProviderEvents ==
  /\ (Ev!EventsAssumption <=> Pr!EventsAssumption)
  /\ (Ev!Init <=> Pr!Init)
  /\ (Ev!Next <=> Pr!Next)
  /\ (UNCHANGED Ev!vars <=> UNCHANGED Pr!vars)
  /\ (Ev!RunsFollowSnapshot <=> Pr!RunsFollowSnapshot)
  /\ (Ev!AcknowledgedIsEnqueued <=> Pr!AcknowledgedIsEnqueued)
  /\ (Ev!TypeOK <=> Pr!TypeOK)
<1>1. Ev!EventsAssumption <=> Pr!EventsAssumption
  BY DEF Ev!EventsAssumption, Pr!EventsAssumption
<1>2. Ev!Init <=> Pr!Init
  BY DEF Ev!Init, Ev!NoReceipt, Ev!NoRequest, Ev!NoRoutes, Pr!Init,
      Pr!NoReceipt, Pr!NoRequest, Pr!NoRoutes
<1>3. Ev!Next <=> Pr!Next
  BY DEF Ev!Next, Ev!Deliver, Ev!Accept, Ev!AcceptByHand, Ev!Dispatch,
      Ev!PushFails, Ev!Answer, Ev!Enqueue, Ev!EnqueueFails, Ev!StopSource,
      Ev!Crash, Ev!StartSource, Ev!Activate, Ev!Reconnect, Ev!NoRoutes,
      Ev!AnsweredUnbound, Ev!Answered200, Ev!Accepted, Ev!Replayed, Ev!Work,
      Ev!bounds, Ev!Answered500, Ev!NoRequest, Pr!Next, Pr!Deliver,
      Pr!Accept, Pr!AcceptByHand, Pr!Dispatch, Pr!PushFails, Pr!Answer,
      Pr!Enqueue, Pr!EnqueueFails, Pr!StopSource, Pr!Crash, Pr!StartSource,
      Pr!Activate, Pr!Reconnect, Pr!NoRoutes, Pr!AnsweredUnbound,
      Pr!Answered200, Pr!Accepted, Pr!Replayed, Pr!Work, Pr!bounds,
      Pr!Answered500, Pr!NoRequest
<1>4. UNCHANGED Ev!vars <=> UNCHANGED Pr!vars
  BY DEF Ev!vars, Pr!vars
<1>5. Ev!RunsFollowSnapshot <=> Pr!RunsFollowSnapshot
  BY DEF Ev!RunsFollowSnapshot, Pr!RunsFollowSnapshot
<1>6. Ev!AcknowledgedIsEnqueued <=> Pr!AcknowledgedIsEnqueued
  BY DEF Ev!AcknowledgedIsEnqueued, Ev!Owed, Ev!MuteRoute,
      Pr!AcknowledgedIsEnqueued, Pr!Owed, Pr!MuteRoute
<1>7. Ev!TypeOK <=> Pr!TypeOK
  BY DEF Ev!TypeOK, Pr!TypeOK
<1>. QED BY <1>1, <1>2, <1>3, <1>4, <1>5, <1>6, <1>7

\* ProviderConnections, as it is reasoned about.
LEMMA SameProviderConnections ==
  /\ (Co!ConnectionsAssumption <=> Pr!Co!ConnectionsAssumption)
  /\ (Co!Init <=> Pr!Co!Init)
  /\ (Co!Next <=> Pr!Co!Next)
  /\ (UNCHANGED Co!vars <=> UNCHANGED Pr!Co!vars)
  /\ (Co!BoundToActiveApplication <=> Pr!Co!BoundToActiveApplication)
  /\ (Co!AttemptBindsOnce <=> Pr!Co!AttemptBindsOnce)
  /\ (Co!TenantIsKept <=> Pr!Co!TenantIsKept)
  /\ (Co!BoundByItsConfiguration <=> Pr!Co!BoundByItsConfiguration)
  /\ (Co!TypeOK <=> Pr!Co!TypeOK)
<1>1. Co!ConnectionsAssumption <=> Pr!Co!ConnectionsAssumption
  BY DEF Co!ConnectionsAssumption, Pr!Co!ConnectionsAssumption
<1>2. Co!Init <=> Pr!Co!Init
  BY DEF Co!Init, Co!NoVersion, Co!Unbound, Co!NoAttempt, Co!NoCallback,
      Co!Idle, Pr!Co!Init, Pr!Co!NoVersion, Pr!Co!Unbound, Pr!Co!NoAttempt,
      Pr!Co!NoCallback, Pr!Co!Idle
<1>3. Co!Next <=> Pr!Co!Next
  BY DEF Co!Next, Co!Save, Co!StartupRead, Co!StartupClaim, Co!StartupActivate,
      Co!StartupFails, Co!Expire, Co!StartAttempt, Co!ReadAttempt,
      Co!Verified, Co!Bind, Co!Unbind, Co!LoseAuthority, Co!Compatible,
      Co!NoVersion, Co!Idle, Co!Usable, Co!Leave, Co!Candidate, Co!Current,
      Co!MayBind, Co!Free, Co!AttemptConsumed, Co!Unbound, Co!NoCallback,
      Pr!Co!Next, Pr!Co!Save, Pr!Co!StartupRead, Pr!Co!StartupClaim,
      Pr!Co!StartupActivate, Pr!Co!StartupFails, Pr!Co!Expire,
      Pr!Co!StartAttempt, Pr!Co!ReadAttempt, Pr!Co!Verified, Pr!Co!Bind,
      Pr!Co!Unbind, Pr!Co!LoseAuthority, Pr!Co!Compatible, Pr!Co!NoVersion,
      Pr!Co!Idle, Pr!Co!Usable, Pr!Co!Leave, Pr!Co!Candidate, Pr!Co!Current,
      Pr!Co!MayBind, Pr!Co!Free, Pr!Co!AttemptConsumed, Pr!Co!Unbound,
      Pr!Co!NoCallback
<1>4. UNCHANGED Co!vars <=> UNCHANGED Pr!Co!vars
  BY DEF Co!vars, Pr!Co!vars
<1>5. Co!BoundToActiveApplication <=> Pr!Co!BoundToActiveApplication
  BY DEF Co!BoundToActiveApplication, Pr!Co!BoundToActiveApplication
<1>6. Co!AttemptBindsOnce <=> Pr!Co!AttemptBindsOnce
  BY DEF Co!AttemptBindsOnce, Pr!Co!AttemptBindsOnce
<1>7. Co!TenantIsKept <=> Pr!Co!TenantIsKept
  BY DEF Co!TenantIsKept, Pr!Co!TenantIsKept
<1>8. Co!BoundByItsConfiguration <=> Pr!Co!BoundByItsConfiguration
  BY DEF Co!BoundByItsConfiguration, Pr!Co!BoundByItsConfiguration
<1>9. Co!TypeOK <=> Pr!Co!TypeOK
  BY DEF Co!TypeOK, Pr!Co!TypeOK
<1>. QED BY <1>1, <1>2, <1>3, <1>4, <1>5, <1>6, <1>7, <1>8, <1>9

\* ConfigurationRevisions, as it is reasoned about.
LEMMA SameConfigurationRevisions ==
  /\ (Re!RevisionsAssumption <=> Pr!Re!RevisionsAssumption)
  /\ (Re!Init <=> Pr!Re!Init)
  /\ (Re!Next <=> Pr!Re!Next)
  /\ (UNCHANGED Re!vars <=> UNCHANGED Pr!Re!vars)
  /\ (Re!RoutesAreLive <=> Pr!Re!RoutesAreLive)
  /\ (Re!DeploysForward <=> Pr!Re!DeploysForward)
  /\ (Re!AuthorityIsRespected <=> Pr!Re!AuthorityIsRespected)
  /\ (Re!TypeOK <=> Pr!Re!TypeOK)
<1>1. Re!RevisionsAssumption <=> Pr!Re!RevisionsAssumption
  BY DEF Re!RevisionsAssumption, Pr!Re!RevisionsAssumption
<1>2. Re!Init <=> Pr!Re!Init
  BY DEF Re!Init, Re!NoDeployment, Pr!Re!Init, Pr!Re!NoDeployment
<1>3. Re!Next <=> Pr!Re!Next
  BY DEF Re!Next, Re!BeginSync, Re!SyncHead, Re!BeginSave, Re!BeginInstall,
      Re!Insert, Re!Activate, Re!Fail, Re!BeginSwitch, Re!Switch,
      Re!UseGitHub, Re!Archive, Re!Push, Re!Target, Re!Begun, Re!HeadFor,
      Re!Leave, Re!Inserted, Re!Activatable, Re!Moved, Re!NoDeployment,
      Pr!Re!Next, Pr!Re!BeginSync, Pr!Re!SyncHead, Pr!Re!BeginSave,
      Pr!Re!BeginInstall, Pr!Re!Insert, Pr!Re!Activate, Pr!Re!Fail,
      Pr!Re!BeginSwitch, Pr!Re!Switch, Pr!Re!UseGitHub, Pr!Re!Archive,
      Pr!Re!Push, Pr!Re!Target, Pr!Re!Begun, Pr!Re!HeadFor, Pr!Re!Leave,
      Pr!Re!Inserted, Pr!Re!Activatable, Pr!Re!Moved, Pr!Re!NoDeployment
<1>4. UNCHANGED Re!vars <=> UNCHANGED Pr!Re!vars
  BY DEF Re!vars, Pr!Re!vars
<1>5. Re!RoutesAreLive <=> Pr!Re!RoutesAreLive
  BY DEF Re!RoutesAreLive, Pr!Re!RoutesAreLive
<1>6. Re!DeploysForward <=> Pr!Re!DeploysForward
  BY DEF Re!DeploysForward, Re!Deploys, Re!Of, Re!NoRevision,
      Pr!Re!DeploysForward, Pr!Re!Deploys, Pr!Re!Of, Pr!Re!NoRevision
<1>7. Re!AuthorityIsRespected <=> Pr!Re!AuthorityIsRespected
  BY DEF Re!AuthorityIsRespected, Re!Deploys, Re!Of, Re!NoRevision,
      Pr!Re!AuthorityIsRespected, Pr!Re!Deploys, Pr!Re!Of, Pr!Re!NoRevision
<1>8. Re!TypeOK <=> Pr!Re!TypeOK
  BY DEF Re!TypeOK, Pr!Re!TypeOK
<1>. QED BY <1>1, <1>2, <1>3, <1>4, <1>5, <1>6, <1>7, <1>8

\* DaemonRegistry, as it is reasoned about.
LEMMA SameDaemonRegistry ==
  /\ (Da!RegistryAssumption <=> Pr!Da!RegistryAssumption)
  /\ (Da!Init <=> Pr!Da!Init)
  /\ (Da!Next <=> Pr!Da!Next)
  /\ (UNCHANGED Da!vars <=> UNCHANGED Pr!Da!vars)
  /\ (Da!PendingIsOnTheLine <=> Pr!Da!PendingIsOnTheLine)
  /\ (Da!PresenceIsTrue <=> Pr!Da!PresenceIsTrue)
  /\ (Da!AskedAsPermitted <=> Pr!Da!AskedAsPermitted)
  /\ (Da!TypeOK <=> Pr!Da!TypeOK)
<1>1. Da!RegistryAssumption <=> Pr!Da!RegistryAssumption
  BY DEF Da!RegistryAssumption, Pr!Da!RegistryAssumption
<1>2. Da!Init <=> Pr!Da!Init
  BY DEF Da!Init, Da!NoLink, Da!NoUpdate, Pr!Da!Init, Pr!Da!NoLink,
      Pr!Da!NoUpdate
<1>3. Da!Next <=> Pr!Da!Next
  BY DEF Da!Next, Da!Upgrade, Da!Closed, Da!OfflineSent, Da!Accept,
      Da!ServerInfo, Da!ConnectedWritten, Da!OfflineWritten, Da!Ask,
      Da!Answer, Da!RevokeRow, Da!Revoke, Da!UpdateRegistry, Da!UpdateRow,
      Da!Admitted, Da!RejectGeneration, Da!OwnFirst, Da!Closing, Da!Heard,
      Da!Write, Da!NoUpdate, Da!TakeRecord, Pr!Da!Next, Pr!Da!Upgrade,
      Pr!Da!Closed, Pr!Da!OfflineSent, Pr!Da!Accept, Pr!Da!ServerInfo,
      Pr!Da!ConnectedWritten, Pr!Da!OfflineWritten, Pr!Da!Ask, Pr!Da!Answer,
      Pr!Da!RevokeRow, Pr!Da!Revoke, Pr!Da!UpdateRegistry, Pr!Da!UpdateRow,
      Pr!Da!Admitted, Pr!Da!RejectGeneration, Pr!Da!OwnFirst, Pr!Da!Closing,
      Pr!Da!Heard, Pr!Da!Write, Pr!Da!NoUpdate, Pr!Da!TakeRecord
<1>4. UNCHANGED Da!vars <=> UNCHANGED Pr!Da!vars
  BY DEF Da!vars, Pr!Da!vars
<1>5. Da!PendingIsOnTheLine <=> Pr!Da!PendingIsOnTheLine
  BY DEF Da!PendingIsOnTheLine, Pr!Da!PendingIsOnTheLine
<1>6. Da!PresenceIsTrue <=> Pr!Da!PresenceIsTrue
  BY DEF Da!PresenceIsTrue, Pr!Da!PresenceIsTrue
<1>7. Da!AskedAsPermitted <=> Pr!Da!AskedAsPermitted
  BY DEF Da!AskedAsPermitted, Da!NoUpdate, Pr!Da!AskedAsPermitted,
      Pr!Da!NoUpdate
<1>8. Da!TypeOK <=> Pr!Da!TypeOK
  BY DEF Da!TypeOK, Pr!Da!TypeOK
<1>. QED BY <1>1, <1>2, <1>3, <1>4, <1>5, <1>6, <1>7, <1>8

\* Credentials, as it is reasoned about.
LEMMA SameCredentials ==
  /\ (Cr!CredentialsAssumption <=> Or!Cr!CredentialsAssumption)
  /\ (Cr!Init <=> Or!Cr!Init)
  /\ (Cr!Next <=> Or!Cr!Next)
  /\ (UNCHANGED Cr!vars <=> UNCHANGED Or!Cr!vars)
  /\ (Cr!DenialIsFinal <=> Or!Cr!DenialIsFinal)
  /\ (Cr!OneDaemonPerToken <=> Or!Cr!OneDaemonPerToken)
  /\ (Cr!EnrolledByLiveKey <=> Or!Cr!EnrolledByLiveKey)
  /\ (Cr!TypeOK <=> Or!Cr!TypeOK)
<1>1. Cr!CredentialsAssumption <=> Or!Cr!CredentialsAssumption
  BY DEF Cr!CredentialsAssumption, Cr!Issuers, Or!Cr!CredentialsAssumption,
      Or!Cr!Issuers
<1>2. Cr!Init <=> Or!Cr!Init
  BY DEF Cr!Init, Cr!Issuers, Or!Cr!Init, Or!Cr!Issuers
<1>3. Cr!Next <=> Or!Cr!Next
  BY DEF Cr!Next, Cr!Start, Cr!Poll, Cr!Inspect, Cr!Decide, Cr!Expire,
      Cr!Issuers, Cr!Authorize, Cr!Revoke, Cr!Issue, Cr!Enroll, Cr!Demote,
      Cr!Decidable, Cr!EndedWith, Cr!StillLive, Cr!Consumable, Cr!OpenOf,
      Or!Cr!Next, Or!Cr!Start, Or!Cr!Poll, Or!Cr!Inspect, Or!Cr!Decide,
      Or!Cr!Expire, Or!Cr!Issuers, Or!Cr!Authorize, Or!Cr!Revoke,
      Or!Cr!Issue, Or!Cr!Enroll, Or!Cr!Demote, Or!Cr!Decidable,
      Or!Cr!EndedWith, Or!Cr!StillLive, Or!Cr!Consumable, Or!Cr!OpenOf
<1>4. UNCHANGED Cr!vars <=> UNCHANGED Or!Cr!vars
  BY DEF Cr!vars, Or!Cr!vars
<1>5. Cr!DenialIsFinal <=> Or!Cr!DenialIsFinal
  BY DEF Cr!DenialIsFinal, Or!Cr!DenialIsFinal
<1>6. Cr!OneDaemonPerToken <=> Or!Cr!OneDaemonPerToken
  BY DEF Cr!OneDaemonPerToken, Or!Cr!OneDaemonPerToken
<1>7. Cr!EnrolledByLiveKey <=> Or!Cr!EnrolledByLiveKey
  BY DEF Cr!EnrolledByLiveKey, Or!Cr!EnrolledByLiveKey
<1>8. Cr!TypeOK <=> Or!Cr!TypeOK
  BY DEF Cr!TypeOK, Cr!Issuers, Or!Cr!TypeOK, Or!Cr!Issuers
<1>. QED BY <1>1, <1>2, <1>3, <1>4, <1>5, <1>6, <1>7, <1>8

\* LockOrder, as it is reasoned about.
LEMMA SameLockOrder ==
  /\ (Lo!OrderAssumption <=> Or!Lo!OrderAssumption)
  /\ (Lo!Init <=> Or!Lo!Init)
  /\ (Lo!Next <=> Or!Lo!Next)
  /\ (UNCHANGED Lo!vars <=> UNCHANGED Or!Lo!vars)
  /\ (Lo!WaitsAreOrdered <=> Or!Lo!WaitsAreOrdered)
  /\ (Lo!TypeOK <=> Or!Lo!TypeOK)
<1>1. Lo!OrderAssumption <=> Or!Lo!OrderAssumption
  BY DEF Lo!OrderAssumption, Or!Lo!OrderAssumption
<1>2. Lo!Init <=> Or!Lo!Init
  BY DEF Lo!Init, Lo!Idle, Or!Lo!Init, Or!Lo!Idle
<1>3. Lo!Next <=> Or!Lo!Next
  BY DEF Lo!Next, Lo!Begin, Lo!Acquire, Lo!Finish, Lo!Idle, Lo!Kinds, Lo!Free,
      Lo!Plan, Lo!Asks, Lo!Wanted, Lo!Connection, Lo!Used, Lo!Holders,
      Lo!CreateExecution, Lo!LinkExecution, Lo!CompleteExecution,
      Lo!CompleteOutsideWorkflow, Lo!SkipStep, Lo!FailRun, Lo!ClaimWakeup,
      Lo!RecoverWakeups, Lo!ClaimNotification, Lo!StepDeadline,
      Lo!RunDeadline, Lo!LimitDeadline, Lo!RefreshIdle, Lo!RecordOutput,
      Lo!EnrollDaemon, Lo!IssueToken, Lo!RevokeKey, Lo!CreateInvitation,
      Lo!DecideInvitation, Lo!ReconcileBilling, Lo!SaveProvider, Lo!Lock,
      Lo!Cardinality, Lo!Connections, Lo!Held, Lo!Compatible, Or!Lo!Next,
      Or!Lo!Begin, Or!Lo!Acquire, Or!Lo!Finish, Or!Lo!Idle, Or!Lo!Kinds,
      Or!Lo!Free, Or!Lo!Plan, Or!Lo!Asks, Or!Lo!Wanted, Or!Lo!Connection,
      Or!Lo!Used, Or!Lo!Holders, Or!Lo!CreateExecution, Or!Lo!LinkExecution,
      Or!Lo!CompleteExecution, Or!Lo!CompleteOutsideWorkflow, Or!Lo!SkipStep,
      Or!Lo!FailRun, Or!Lo!ClaimWakeup, Or!Lo!RecoverWakeups,
      Or!Lo!ClaimNotification, Or!Lo!StepDeadline, Or!Lo!RunDeadline,
      Or!Lo!LimitDeadline, Or!Lo!RefreshIdle, Or!Lo!RecordOutput,
      Or!Lo!EnrollDaemon, Or!Lo!IssueToken, Or!Lo!RevokeKey,
      Or!Lo!CreateInvitation, Or!Lo!DecideInvitation, Or!Lo!ReconcileBilling,
      Or!Lo!SaveProvider, Or!Lo!Lock, Or!Lo!Cardinality, Or!Lo!Connections,
      Or!Lo!Held, Or!Lo!Compatible
<1>4. UNCHANGED Lo!vars <=> UNCHANGED Or!Lo!vars
  BY DEF Lo!vars, Or!Lo!vars
<1>5. Lo!WaitsAreOrdered <=> Or!Lo!WaitsAreOrdered
  BY DEF Lo!WaitsAreOrdered, Lo!Stuck, Lo!OutOfOrder, Lo!TakesTwoConnections,
      Lo!WaitsWithin, Lo!Cardinality, Lo!Plan, Lo!Connection, Lo!Asks,
      Lo!Free, Lo!Wanted, Lo!Used, Lo!Holders, Lo!CreateExecution,
      Lo!LinkExecution, Lo!CompleteExecution, Lo!CompleteOutsideWorkflow,
      Lo!SkipStep, Lo!FailRun, Lo!ClaimWakeup, Lo!RecoverWakeups,
      Lo!ClaimNotification, Lo!StepDeadline, Lo!RunDeadline,
      Lo!LimitDeadline, Lo!RefreshIdle, Lo!RecordOutput, Lo!EnrollDaemon,
      Lo!IssueToken, Lo!RevokeKey, Lo!CreateInvitation, Lo!DecideInvitation,
      Lo!ReconcileBilling, Lo!SaveProvider, Lo!Lock, Lo!Idle, Lo!Connections,
      Lo!Held, Lo!Compatible, Or!Lo!WaitsAreOrdered, Or!Lo!Stuck,
      Or!Lo!OutOfOrder, Or!Lo!TakesTwoConnections, Or!Lo!WaitsWithin,
      Or!Lo!Cardinality, Or!Lo!Plan, Or!Lo!Connection, Or!Lo!Asks,
      Or!Lo!Free, Or!Lo!Wanted, Or!Lo!Used, Or!Lo!Holders,
      Or!Lo!CreateExecution, Or!Lo!LinkExecution, Or!Lo!CompleteExecution,
      Or!Lo!CompleteOutsideWorkflow, Or!Lo!SkipStep, Or!Lo!FailRun,
      Or!Lo!ClaimWakeup, Or!Lo!RecoverWakeups, Or!Lo!ClaimNotification,
      Or!Lo!StepDeadline, Or!Lo!RunDeadline, Or!Lo!LimitDeadline,
      Or!Lo!RefreshIdle, Or!Lo!RecordOutput, Or!Lo!EnrollDaemon,
      Or!Lo!IssueToken, Or!Lo!RevokeKey, Or!Lo!CreateInvitation,
      Or!Lo!DecideInvitation, Or!Lo!ReconcileBilling, Or!Lo!SaveProvider,
      Or!Lo!Lock, Or!Lo!Idle, Or!Lo!Connections, Or!Lo!Held, Or!Lo!Compatible
<1>6. Lo!Plan = Or!Lo!Plan
  BY DEF Lo!Lock, Lo!Connection, Lo!CreateExecution, Lo!LinkExecution,
      Lo!CompleteExecution, Lo!CompleteOutsideWorkflow, Lo!SkipStep,
      Lo!FailRun, Lo!ClaimWakeup, Lo!RecoverWakeups, Lo!ClaimNotification,
      Lo!StepDeadline, Lo!RunDeadline, Lo!LimitDeadline, Lo!RefreshIdle,
      Lo!RecordOutput, Lo!EnrollDaemon, Lo!IssueToken, Lo!RevokeKey,
      Lo!CreateInvitation, Lo!DecideInvitation, Lo!ReconcileBilling,
      Lo!SaveProvider, Lo!Plan, Or!Lo!Lock, Or!Lo!Connection,
      Or!Lo!CreateExecution, Or!Lo!LinkExecution, Or!Lo!CompleteExecution,
      Or!Lo!CompleteOutsideWorkflow, Or!Lo!SkipStep, Or!Lo!FailRun,
      Or!Lo!ClaimWakeup, Or!Lo!RecoverWakeups, Or!Lo!ClaimNotification,
      Or!Lo!StepDeadline, Or!Lo!RunDeadline, Or!Lo!LimitDeadline,
      Or!Lo!RefreshIdle, Or!Lo!RecordOutput, Or!Lo!EnrollDaemon,
      Or!Lo!IssueToken, Or!Lo!RevokeKey, Or!Lo!CreateInvitation,
      Or!Lo!DecideInvitation, Or!Lo!ReconcileBilling, Or!Lo!SaveProvider,
      Or!Lo!Plan
<1>7. Lo!TypeOK <=> Or!Lo!TypeOK
  BY <1>6 DEF Lo!TypeOK, Lo!Kinds, Lo!Idle, Or!Lo!TypeOK, Or!Lo!Kinds, Or!Lo!Idle
<1>. QED BY <1>1, <1>2, <1>3, <1>4, <1>5, <1>7

\* Memberships, as it is reasoned about.
LEMMA SameMemberships ==
  /\ (Me!MembershipAssumption <=> Or!MembershipAssumption)
  /\ (Me!Init <=> Or!Init)
  /\ (Me!Next <=> Or!Next)
  /\ (UNCHANGED Me!vars <=> UNCHANGED Or!vars)
  /\ (Me!HasOwner <=> Or!HasOwner)
  /\ (Me!SeatsAreReserved <=> Or!SeatsAreReserved)
  /\ (Me!ChangedByRight <=> Or!ChangedByRight)
  /\ (Me!JoinsInvited <=> Or!JoinsInvited)
  /\ (Me!SignsUpInvited <=> Or!SignsUpInvited)
  /\ (Me!TypeOK <=> Or!TypeOK)
<1>1. Me!MembershipAssumption <=> Or!MembershipAssumption
  BY DEF Me!MembershipAssumption, Me!Roles, Me!IsFiniteSet,
      Or!MembershipAssumption, Or!Roles, Or!IsFiniteSet
<1>2. Me!Init <=> Or!Init
  BY DEF Me!Init, Me!Cardinality, Me!NoRequest, Or!Init, Or!Cardinality,
      Or!NoRequest
<1>3. Me!Next <=> Or!Next
  BY DEF Me!Next, Me!BeginSignUp, Me!EndSignUp, Me!Expire, Me!Idle, Me!Roles,
      Me!Read, Me!Refuse, Me!Invite, Me!Cancel, Me!Accept, Me!ChangeRole,
      Me!Remove, Me!SigningUp, Me!Admitted, Me!Closed, Me!Manages,
      Me!ActorRole, Me!Headroom, Me!Acceptable, Me!MayTouch, Me!OwnerStays,
      Me!NoRequest, Me!Used, Me!Cardinality, Or!Next, Or!BeginSignUp,
      Or!EndSignUp, Or!Expire, Or!Idle, Or!Roles, Or!Read, Or!Refuse,
      Or!Invite, Or!Cancel, Or!Accept, Or!ChangeRole, Or!Remove,
      Or!SigningUp, Or!Admitted, Or!Closed, Or!Manages, Or!ActorRole,
      Or!Headroom, Or!Acceptable, Or!MayTouch, Or!OwnerStays, Or!NoRequest,
      Or!Used, Or!Cardinality
<1>4. UNCHANGED Me!vars <=> UNCHANGED Or!vars
  BY DEF Me!vars, Or!vars
<1>5. Me!HasOwner <=> Or!HasOwner
  BY DEF Me!HasOwner, Or!HasOwner
<1>6. Me!SeatsAreReserved <=> Or!SeatsAreReserved
  BY DEF Me!SeatsAreReserved, Me!Used, Me!Cardinality, Or!SeatsAreReserved,
      Or!Used, Or!Cardinality
<1>7. Me!ChangedByRight <=> Or!ChangedByRight
  BY DEF Me!ChangedByRight, Me!MayTouch, Me!Manages, Or!ChangedByRight,
      Or!MayTouch, Or!Manages
<1>8. Me!JoinsInvited <=> Or!JoinsInvited
  BY DEF Me!JoinsInvited, Or!JoinsInvited
<1>9. Me!SignsUpInvited <=> Or!SignsUpInvited
  BY DEF Me!SignsUpInvited, Or!SignsUpInvited
<1>10. Me!TypeOK <=> Or!TypeOK
  BY DEF Me!TypeOK, Me!Roles, Or!TypeOK, Or!Roles
<1>. QED BY <1>1, <1>2, <1>3, <1>4, <1>5, <1>6, <1>7, <1>8, <1>9, <1>10

\* InstanceSetup, as it is reasoned about.
LEMMA SameInstanceSetup ==
  /\ (Se!SetupAssumption <=> Or!Se!SetupAssumption)
  /\ (Se!Init <=> Or!Se!Init)
  /\ (Se!Next <=> Or!Se!Next)
  /\ (UNCHANGED Se!vars <=> UNCHANGED Or!Se!vars)
  /\ (Se!OneOperator <=> Or!Se!OneOperator)
  /\ (Se!CompleteIsWhole <=> Or!Se!CompleteIsWhole)
  /\ (Se!OwnersStay <=> Or!Se!OwnersStay)
  /\ (Se!ClaimedPristine <=> Or!Se!ClaimedPristine)
  /\ (Se!TypeOK <=> Or!Se!TypeOK)
<1>1. Se!SetupAssumption <=> Or!Se!SetupAssumption
  BY DEF Se!SetupAssumption, Se!Callers, Se!Organizations,
      Or!Se!SetupAssumption, Or!Se!Callers, Or!Se!Organizations
<1>2. Se!Init <=> Or!Se!Init
  BY DEF Se!Init, Se!Organizations, Se!Callers, Or!Se!Init, Or!Se!Organizations,
      Or!Se!Callers
<1>3. Se!Next <=> Or!Se!Next
  BY DEF Se!Next, Se!Callers, Se!LockRow, Se!RollBack, Se!LockTables, Se!Count,
      Se!CommitClaim, Se!Resolve, Se!CommitStart, Se!SignUp,
      Se!BeginOrganization, Se!CommitOrganization, Se!RowFree, Se!To,
      Se!Existing, Se!Adoptable, Se!TablesLocked, Se!Organizations,
      Or!Se!Next, Or!Se!Callers, Or!Se!LockRow, Or!Se!RollBack,
      Or!Se!LockTables, Or!Se!Count, Or!Se!CommitClaim, Or!Se!Resolve,
      Or!Se!CommitStart, Or!Se!SignUp, Or!Se!BeginOrganization,
      Or!Se!CommitOrganization, Or!Se!RowFree, Or!Se!To, Or!Se!Existing,
      Or!Se!Adoptable, Or!Se!TablesLocked, Or!Se!Organizations
<1>4. UNCHANGED Se!vars <=> UNCHANGED Or!Se!vars
  BY DEF Se!vars, Or!Se!vars
<1>5. Se!OneOperator <=> Or!Se!OneOperator
  BY DEF Se!OneOperator, Se!Cardinality, Or!Se!OneOperator, Or!Se!Cardinality
<1>6. Se!CompleteIsWhole <=> Or!Se!CompleteIsWhole
  BY DEF Se!CompleteIsWhole, Se!Organizations, Se!Callers,
      Or!Se!CompleteIsWhole, Or!Se!Organizations, Or!Se!Callers
<1>7. Se!OwnersStay <=> Or!Se!OwnersStay
  BY DEF Se!OwnersStay, Se!Organizations, Se!Callers, Or!Se!OwnersStay,
      Or!Se!Organizations, Or!Se!Callers
<1>8. Se!ClaimedPristine <=> Or!Se!ClaimedPristine
  BY DEF Se!ClaimedPristine, Se!Existing, Se!Organizations, Se!Callers,
      Or!Se!ClaimedPristine, Or!Se!Existing, Or!Se!Organizations,
      Or!Se!Callers
<1>9. Se!TypeOK <=> Or!Se!TypeOK
  BY DEF Se!TypeOK, Se!Callers, Se!Organizations, Or!Se!TypeOK, Or!Se!Callers,
      Or!Se!Organizations
<1>. QED BY <1>1, <1>2, <1>3, <1>4, <1>5, <1>6, <1>7, <1>8, <1>9

\* Entitlements, as it is reasoned about.
LEMMA SameEntitlements ==
  /\ (En!EntitlementsAssumption <=> Or!En!EntitlementsAssumption)
  /\ (En!Init <=> Or!En!Init)
  /\ (En!Next <=> Or!En!Next)
  /\ (UNCHANGED En!vars <=> UNCHANGED Or!En!vars)
  /\ (En!OverridesAreKept <=> Or!En!OverridesAreKept)
  /\ (En!TrailIsChained <=> Or!En!TrailIsChained)
  /\ (En!UsageIsCovered <=> Or!En!UsageIsCovered)
  /\ (En!TypeOK <=> Or!En!TypeOK)
<1>1. En!EntitlementsAssumption <=> Or!En!EntitlementsAssumption
  BY DEF En!EntitlementsAssumption, Or!En!EntitlementsAssumption
<1>2. En!Init <=> Or!En!Init
  BY DEF En!Init, En!Row, Or!En!Init, Or!En!Row
<1>3. En!Next <=> Or!En!Next
  BY DEF En!Next, En!Begin, En!Override, En!ClearOverride, En!Stamp,
      En!NextMonth, En!ReadReservation, En!Create, En!RowIsFree, En!Changes,
      En!Row, En!meter, En!Write, En!MergeOverrides, En!ClearOverrideKey,
      En!Stamped, En!document, En!Effective, En!Fits, En!Values, Or!En!Next,
      Or!En!Begin, Or!En!Override, Or!En!ClearOverride, Or!En!Stamp,
      Or!En!NextMonth, Or!En!ReadReservation, Or!En!Create, Or!En!RowIsFree,
      Or!En!Changes, Or!En!Row, Or!En!meter, Or!En!Write,
      Or!En!MergeOverrides, Or!En!ClearOverrideKey, Or!En!Stamped,
      Or!En!document, Or!En!Effective, Or!En!Fits, Or!En!Values
<1>4. UNCHANGED En!vars <=> UNCHANGED Or!En!vars
  BY DEF En!vars, Or!En!vars
<1>5. En!OverridesAreKept <=> Or!En!OverridesAreKept
  BY DEF En!OverridesAreKept, Or!En!OverridesAreKept
<1>6. En!TrailIsChained <=> Or!En!TrailIsChained
  BY DEF En!TrailIsChained, En!Row, Or!En!TrailIsChained, Or!En!Row
<1>7. En!UsageIsCovered <=> Or!En!UsageIsCovered
  BY DEF En!UsageIsCovered, En!Effective, Or!En!UsageIsCovered, Or!En!Effective
<1>8. En!TypeOK <=> Or!En!TypeOK
  BY DEF En!TypeOK, En!Values, Or!En!TypeOK, Or!En!Values
<1>. QED BY <1>1, <1>2, <1>3, <1>4, <1>5, <1>6, <1>7, <1>8

\* LinearTokens, as it is reasoned about.
LEMMA SameLinearTokens ==
  /\ (To!TokensAssumption <=> Pr!To!TokensAssumption)
  /\ (To!Init <=> Pr!To!Init)
  /\ (To!Next <=> Pr!To!Next)
  /\ (UNCHANGED To!vars <=> UNCHANGED Pr!To!vars)
  /\ (To!HoldsNewestTokens <=> Pr!To!HoldsNewestTokens)
  /\ (To!TypeOK <=> Pr!To!TypeOK)
<1>1. To!TokensAssumption <=> Pr!To!TokensAssumption
  BY DEF To!TokensAssumption, To!Tokens, Pr!To!TokensAssumption, Pr!To!Tokens
<1>2. To!Init <=> Pr!To!Init
  BY DEF To!Init, To!Idle, Pr!To!Init, Pr!To!Idle
<1>3. To!Next <=> Pr!To!Next
  BY DEF To!Next, To!Connect, To!Disconnect, To!Expire, To!Ask, To!Lock,
      To!Exchange, To!Save, To!Fail, To!Crash, To!Unlocked, To!Current,
      To!Over, To!Tokens, To!Idle, Pr!To!Next, Pr!To!Connect,
      Pr!To!Disconnect, Pr!To!Expire, Pr!To!Ask, Pr!To!Lock, Pr!To!Exchange,
      Pr!To!Save, Pr!To!Fail, Pr!To!Crash, Pr!To!Unlocked, Pr!To!Current,
      Pr!To!Over, Pr!To!Tokens, Pr!To!Idle
<1>4. UNCHANGED To!vars <=> UNCHANGED Pr!To!vars
  BY DEF To!vars, Pr!To!vars
<1>5. To!HoldsNewestTokens <=> Pr!To!HoldsNewestTokens
  BY DEF To!HoldsNewestTokens, To!Unlocked, Pr!To!HoldsNewestTokens,
      Pr!To!Unlocked
<1>6. To!TypeOK <=> Pr!To!TypeOK
  BY DEF To!TypeOK, To!Tokens, Pr!To!TypeOK, Pr!To!Tokens
<1>. QED BY <1>1, <1>2, <1>3, <1>4, <1>5, <1>6

\* HubProcess, as it is reasoned about.
LEMMA SameHubProcess ==
  /\ (Hp!ProcessAssumption <=> Or!Hp!ProcessAssumption)
  /\ (Hp!Init <=> Or!Hp!Init)
  /\ (Hp!Next <=> Or!Hp!Next)
  /\ (UNCHANGED Hp!vars <=> UNCHANGED Or!Hp!vars)
  /\ (Hp!OwnedAlone <=> Or!Hp!OwnedAlone)
  /\ (Hp!LeavesNoFile <=> Or!Hp!LeavesNoFile)
  /\ (Hp!StoppedForGood <=> Or!Hp!StoppedForGood)
  /\ (Hp!TypeOK <=> Or!Hp!TypeOK)
<1>1. Hp!ProcessAssumption <=> Or!Hp!ProcessAssumption
  BY DEF Hp!ProcessAssumption, Hp!Files, Or!Hp!ProcessAssumption, Or!Hp!Files
<1>2. Hp!Init <=> Or!Hp!Init
  BY DEF Hp!Init, Or!Hp!Init
<1>3. Hp!Next <=> Or!Hp!Next
  BY DEF Hp!Next, Hp!Launch, Hp!Open, Hp!Write, Hp!ReadOwner, Hp!Remove,
      Hp!StartFails, Hp!Serve, Hp!Connect, Hp!Upgrade, Hp!Leave, Hp!Signal,
      Hp!Closed, Hp!Stopped, Hp!Release, Hp!Unlink, Hp!Crash, Hp!Alive,
      Hp!To, Hp!MadeBy, Hp!ProcessIsRunning, Hp!LivingMaker, Hp!AfterFailure,
      Hp!ConnectionsEnded, Hp!OwnFile, Hp!Acquiring, Hp!Using, Hp!Ending,
      Or!Hp!Next, Or!Hp!Launch, Or!Hp!Open, Or!Hp!Write, Or!Hp!ReadOwner,
      Or!Hp!Remove, Or!Hp!StartFails, Or!Hp!Serve, Or!Hp!Connect,
      Or!Hp!Upgrade, Or!Hp!Leave, Or!Hp!Signal, Or!Hp!Closed, Or!Hp!Stopped,
      Or!Hp!Release, Or!Hp!Unlink, Or!Hp!Crash, Or!Hp!Alive, Or!Hp!To,
      Or!Hp!MadeBy, Or!Hp!ProcessIsRunning, Or!Hp!LivingMaker,
      Or!Hp!AfterFailure, Or!Hp!ConnectionsEnded, Or!Hp!OwnFile,
      Or!Hp!Acquiring, Or!Hp!Using, Or!Hp!Ending
<1>4. UNCHANGED Hp!vars <=> UNCHANGED Or!Hp!vars
  BY DEF Hp!vars, Or!Hp!vars
<1>5. Hp!OwnedAlone <=> Or!Hp!OwnedAlone
  BY DEF Hp!OwnedAlone, Hp!Using, Or!Hp!OwnedAlone, Or!Hp!Using
<1>6. Hp!LeavesNoFile <=> Or!Hp!LeavesNoFile
  BY DEF Hp!LeavesNoFile, Hp!MadeBy, Or!Hp!LeavesNoFile, Or!Hp!MadeBy
<1>7. Hp!StoppedForGood <=> Or!Hp!StoppedForGood
  BY DEF Hp!StoppedForGood, Or!Hp!StoppedForGood
<1>8. Hp!TypeOK <=> Or!Hp!TypeOK
  BY DEF Hp!TypeOK, Hp!Files, Hp!Acquiring, Hp!Using, Hp!Ending, Or!Hp!TypeOK,
      Or!Hp!Files, Or!Hp!Acquiring, Or!Hp!Using, Or!Hp!Ending
<1>. QED BY <1>1, <1>2, <1>3, <1>4, <1>5, <1>6, <1>7, <1>8

\* SlackSocket, as it is reasoned about.
LEMMA SameSlackSocket ==
  /\ (So!SocketAssumption <=> Pr!So!SocketAssumption)
  /\ (So!Init <=> Pr!So!Init)
  /\ (So!Next <=> Pr!So!Next)
  /\ (UNCHANGED So!vars <=> UNCHANGED Pr!So!vars)
  /\ (So!TypeOK <=> Pr!So!TypeOK)
  /\ (So!AckedIsAccepted <=> Pr!So!AckedIsAccepted)
  /\ (So!OneConnection <=> Pr!So!OneConnection)
<1>1. So!SocketAssumption <=> Pr!So!SocketAssumption
  BY DEF So!SocketAssumption, Pr!So!SocketAssumption
<1>2. So!Init <=> Pr!So!Init
  BY DEF So!Init, Pr!So!Init
<1>3. So!Next <=> Pr!So!Next
  BY DEF So!Next, So!Start, So!Opened, So!NotOpened, So!Waited, So!Closed,
      So!Ended, So!Retry, So!Stop, So!Stopped, So!HandleDisconnect,
      So!BeginIntake, So!Accept, So!HandleFails, So!Ack, So!Send,
      So!CloseConnection, So!Turn, So!slack, So!queue, So!CurrentClosed,
      So!Drained, So!first, So!Popped, So!loops, Pr!So!Next, Pr!So!Start,
      Pr!So!Opened, Pr!So!NotOpened, Pr!So!Waited, Pr!So!Closed, Pr!So!Ended,
      Pr!So!Retry, Pr!So!Stop, Pr!So!Stopped, Pr!So!HandleDisconnect,
      Pr!So!BeginIntake, Pr!So!Accept, Pr!So!HandleFails, Pr!So!Ack,
      Pr!So!Send, Pr!So!CloseConnection, Pr!So!Turn, Pr!So!slack, Pr!So!queue,
      Pr!So!CurrentClosed, Pr!So!Drained, Pr!So!first, Pr!So!Popped,
      Pr!So!loops
<1>4. UNCHANGED So!vars <=> UNCHANGED Pr!So!vars
  BY DEF So!vars, Pr!So!vars
<1>5. So!TypeOK <=> Pr!So!TypeOK
  BY DEF So!TypeOK, Pr!So!TypeOK
<1>6. So!AckedIsAccepted <=> Pr!So!AckedIsAccepted
  BY DEF So!AckedIsAccepted, Pr!So!AckedIsAccepted
<1>7. So!OneConnection <=> Pr!So!OneConnection
  BY DEF So!OneConnection, So!Cardinality, Pr!So!OneConnection,
      Pr!So!Cardinality
<1>. QED BY <1>1, <1>2, <1>3, <1>4, <1>5, <1>6, <1>7

\* LinearIssues, as it is reasoned about.
LEMMA SameLinearIssues ==
  /\ (Li!IssuesAssumption <=> Pr!Li!IssuesAssumption)
  /\ (Li!Init <=> Pr!Li!Init)
  /\ (Li!Next <=> Pr!Li!Next)
  /\ (UNCHANGED Li!vars <=> UNCHANGED Pr!Li!vars)
  /\ (Li!TypeOK <=> Pr!Li!TypeOK)
  /\ (Li!EntriesRun <=> Pr!Li!EntriesRun)
<1>1. Li!IssuesAssumption <=> Pr!Li!IssuesAssumption
  BY DEF Li!IssuesAssumption, Li!Issues, Pr!Li!IssuesAssumption, Pr!Li!Issues
<1>2. Li!Init <=> Pr!Li!Init
  BY DEF Li!Init, Li!Issues, Pr!Li!Init, Pr!Li!Issues
<1>3. Li!Next <=> Pr!Li!Next
  BY DEF Li!Next, Li!Issues, Li!Changes, Li!Receive, Li!Accept, Li!Fail,
      Li!Fields, Li!InScope, Li!Normalised, Li!Hydrates, Li!Enters, Li!Before,
      Pr!Li!Next, Pr!Li!Issues, Pr!Li!Changes, Pr!Li!Receive, Pr!Li!Accept,
      Pr!Li!Fail, Pr!Li!Fields, Pr!Li!InScope, Pr!Li!Normalised,
      Pr!Li!Hydrates, Pr!Li!Enters, Pr!Li!Before
<1>4. UNCHANGED Li!vars <=> UNCHANGED Pr!Li!vars
  BY DEF Li!vars, Pr!Li!vars
<1>5. Li!TypeOK <=> Pr!Li!TypeOK
  BY DEF Li!TypeOK, Li!Issues, Pr!Li!TypeOK, Pr!Li!Issues
<1>6. Li!EntriesRun <=> Pr!Li!EntriesRun
  BY DEF Li!EntriesRun, Li!Told, Li!Fields, Li!Hydrates, Li!Normalised,
      Pr!Li!EntriesRun, Pr!Li!Told, Pr!Li!Fields, Pr!Li!Hydrates,
      Pr!Li!Normalised
<1>. QED BY <1>1, <1>2, <1>3, <1>4, <1>5, <1>6

\* EventRouting, as it is reasoned about.
LEMMA SameEventRouting ==
  /\ (Ro!RoutingAssumption <=> Pr!Ro!RoutingAssumption)
  /\ (Ro!Init <=> Pr!Ro!Init)
  /\ (Ro!Next <=> Pr!Ro!Next)
  /\ (UNCHANGED Ro!vars <=> UNCHANGED Pr!Ro!vars)
  /\ (Ro!TypeOK <=> Pr!Ro!TypeOK)
  /\ (Ro!NothingForeign <=> Pr!Ro!NothingForeign)
  /\ (Ro!NothingMissed <=> Pr!Ro!NothingMissed)
<1>1. Ro!RoutingAssumption <=> Pr!Ro!RoutingAssumption
  BY DEF Ro!RoutingAssumption, Ro!Worlds, Pr!Ro!RoutingAssumption, Pr!Ro!Worlds
<1>2. Ro!Init <=> Pr!Ro!Init
  BY DEF Ro!Init, Pr!Ro!Init
<1>3. Ro!Next <=> Pr!Ro!Next
  BY DEF Ro!Next, Ro!Authored, Ro!Connect, Ro!Disconnect, Ro!Rename,
      Ro!Refresh, Ro!Deploy, Ro!Rollback, Ro!CompileRoutes, Ro!Activate,
      Ro!Slug, Ro!Resources, Ro!Changed, Ro!World, Ro!Unresolved, Ro!Compiles,
      Ro!Compiled, Ro!ListingIsCurrent, Ro!Everything, Ro!RoutesOf,
      Ro!Candidates, Ro!Resolved, Ro!Settled, Ro!Cardinality, Pr!Ro!Next,
      Pr!Ro!Authored, Pr!Ro!Connect, Pr!Ro!Disconnect, Pr!Ro!Rename,
      Pr!Ro!Refresh, Pr!Ro!Deploy, Pr!Ro!Rollback, Pr!Ro!CompileRoutes,
      Pr!Ro!Activate, Pr!Ro!Slug, Pr!Ro!Resources, Pr!Ro!Changed, Pr!Ro!World,
      Pr!Ro!Unresolved, Pr!Ro!Compiles, Pr!Ro!Compiled, Pr!Ro!ListingIsCurrent,
      Pr!Ro!Everything, Pr!Ro!RoutesOf, Pr!Ro!Candidates, Pr!Ro!Resolved,
      Pr!Ro!Settled, Pr!Ro!Cardinality
<1>4. UNCHANGED Ro!vars <=> UNCHANGED Pr!Ro!vars
  BY DEF Ro!vars, Pr!Ro!vars
<1>5. Ro!TypeOK <=> Pr!Ro!TypeOK
  BY DEF Ro!TypeOK, Ro!Ids, Ro!Authored, Ro!Slug, Ro!Resources, Pr!Ro!TypeOK,
      Pr!Ro!Ids, Pr!Ro!Authored, Pr!Ro!Slug, Pr!Ro!Resources
<1>6. Ro!NothingForeign <=> Pr!Ro!NothingForeign
  BY DEF Ro!NothingForeign, Ro!Events, Ro!Taken, Ro!Means, Ro!Matches, Ro!Slug,
      Ro!Fits, Ro!MatchesRepository, Ro!MatchesWorkspace, Ro!MatchesProject,
      Pr!Ro!NothingForeign, Pr!Ro!Events, Pr!Ro!Taken, Pr!Ro!Means,
      Pr!Ro!Matches, Pr!Ro!Slug, Pr!Ro!Fits, Pr!Ro!MatchesRepository,
      Pr!Ro!MatchesWorkspace, Pr!Ro!MatchesProject
<1>7. Ro!NothingMissed <=> Pr!Ro!NothingMissed
  BY DEF Ro!NothingMissed, Ro!World, Ro!Events, Ro!Taken, Ro!Means, Ro!Matches,
      Ro!Slug, Ro!Fits, Ro!MatchesRepository, Ro!MatchesWorkspace,
      Ro!MatchesProject, Pr!Ro!NothingMissed, Pr!Ro!World, Pr!Ro!Events,
      Pr!Ro!Taken, Pr!Ro!Means, Pr!Ro!Matches, Pr!Ro!Slug, Pr!Ro!Fits,
      Pr!Ro!MatchesRepository, Pr!Ro!MatchesWorkspace, Pr!Ro!MatchesProject
<1>. QED BY <1>1, <1>2, <1>3, <1>4, <1>5, <1>6, <1>7

\* TriggerMigration, as it is reasoned about.
LEMMA SameTriggerMigration ==
  /\ (Tm!MigrationAssumption <=> Pr!Tm!MigrationAssumption)
  /\ (Tm!Init <=> Pr!Tm!Init)
  /\ (Tm!Next <=> Pr!Tm!Next)
  /\ (UNCHANGED Tm!vars <=> UNCHANGED Pr!Tm!vars)
  /\ (Tm!TypeOK <=> Pr!Tm!TypeOK)
  /\ (Tm!ServedOnce <=> Pr!Tm!ServedOnce)
  /\ (Tm!FailsOnlyIfDisturbed <=> Pr!Tm!FailsOnlyIfDisturbed)
<1>1. Tm!MigrationAssumption <=> Pr!Tm!MigrationAssumption
  BY DEF Tm!MigrationAssumption, Pr!Tm!MigrationAssumption
<1>2. Tm!Init <=> Pr!Tm!Init
  BY DEF Tm!Init, Tm!Projects, Tm!Elements, Tm!Down, Pr!Tm!Init,
      Pr!Tm!Projects, Pr!Tm!Elements, Pr!Tm!Down
<1>3. Tm!Next <=> Pr!Tm!Next
  BY DEF Tm!Next, Tm!Projects, Tm!List, Tm!Begin, Tm!Commit, Tm!Crash,
      Tm!Restart, Tm!Deploy, Tm!SaveNew, Tm!SaveOld, Tm!Pending, Tm!First,
      Tm!Taken, Tm!Locked, Tm!Passed, Tm!Failed, Tm!AlreadyMigrated,
      Tm!Unchanged, Tm!Elements, Tm!Named, Tm!NextId, Tm!Down, Tm!NamesLocked,
      Tm!Place, Tm!AvailableMigratedTriggerName, Tm!Cardinality, Pr!Tm!Next,
      Pr!Tm!Projects, Pr!Tm!List, Pr!Tm!Begin, Pr!Tm!Commit, Pr!Tm!Crash,
      Pr!Tm!Restart, Pr!Tm!Deploy, Pr!Tm!SaveNew, Pr!Tm!SaveOld, Pr!Tm!Pending,
      Pr!Tm!First, Pr!Tm!Taken, Pr!Tm!Locked, Pr!Tm!Passed, Pr!Tm!Failed,
      Pr!Tm!AlreadyMigrated, Pr!Tm!Unchanged, Pr!Tm!Elements, Pr!Tm!Named,
      Pr!Tm!NextId, Pr!Tm!Down, Pr!Tm!NamesLocked, Pr!Tm!Place,
      Pr!Tm!AvailableMigratedTriggerName, Pr!Tm!Cardinality
<1>4. UNCHANGED Tm!vars <=> UNCHANGED Pr!Tm!vars
  BY DEF Tm!vars, Pr!Tm!vars
<1>5. Tm!TypeOK <=> Pr!Tm!TypeOK
  BY DEF Tm!TypeOK, Tm!Projects, Pr!Tm!TypeOK, Pr!Tm!Projects
<1>6. Tm!ServedOnce <=> Pr!Tm!ServedOnce
  BY DEF Tm!ServedOnce, Tm!Projects, Tm!Deployed, Tm!Serving, Tm!Elements,
      Tm!Cardinality, Pr!Tm!ServedOnce, Pr!Tm!Projects, Pr!Tm!Deployed,
      Pr!Tm!Serving, Pr!Tm!Elements, Pr!Tm!Cardinality
<1>7. Tm!FailsOnlyIfDisturbed <=> Pr!Tm!FailsOnlyIfDisturbed
  BY DEF Tm!FailsOnlyIfDisturbed, Pr!Tm!FailsOnlyIfDisturbed
<1>. QED BY <1>1, <1>2, <1>3, <1>4, <1>5, <1>6, <1>7

\* AgentSupervision, as it is reasoned about.
LEMMA SameAgentSupervision ==
  /\ (Su!SupervisionAssumption <=> Pr!Su!SupervisionAssumption)
  /\ (Su!Init <=> Pr!Su!Init)
  /\ (Su!Next <=> Pr!Su!Next)
  /\ (UNCHANGED Su!vars <=> UNCHANGED Pr!Su!vars)
  /\ (Su!TypeOK <=> Pr!Su!TypeOK)
  /\ (Su!IdledOutWasIdle <=> Pr!Su!IdledOutWasIdle)
  /\ (Su!ArmedWhenQuiet <=> Pr!Su!ArmedWhenQuiet)
<1>1. Su!SupervisionAssumption <=> Pr!Su!SupervisionAssumption
  BY DEF Su!SupervisionAssumption, Pr!Su!SupervisionAssumption
<1>2. Su!Init <=> Pr!Su!Init
  BY DEF Su!Init, Su!Callers, Su!Rest, Su!Earlier, Pr!Su!Init, Pr!Su!Callers,
      Pr!Su!Rest, Pr!Su!Earlier
<1>3. Su!Next <=> Pr!Su!Next
  BY DEF Su!Next, Su!Live, Su!Work, Su!Ask, Su!Callers, Su!ReadDeadline,
      Su!ExpireAtDeadline, Su!ArmMoved, Su!Fire, Su!RetryTimer, Su!HandleEvent,
      Su!HandleError, Su!ReadByEvent, Su!ExpireByEvent, Su!ArmByEvent, Su!Look,
      Su!ArmLooked, Su!Sent, Su!ReadFinish, Su!CompleteFinish, Su!Start,
      Su!Reconnect, Su!TimerQueryFails, Su!Receive, Su!DispatchFails,
      Su!Finish, Su!FinishFails, Su!Tick, Su!Poll, Su!Crash, Su!Row,
      Su!Settled, Su!Later, Su!Seen, Su!Expire, Su!Due, Su!Arm, Su!Stale,
      Su!StillDue, Su!Over, Su!Wait, Su!Fault, Su!Earlier, Su!Event, Su!Done,
      Su!NewIdle, Su!MaySet, Su!Overran, Su!ArmOrExpire, Su!End, Su!Rest,
      Su!Kind, Su!Told, Su!Counted, Su!Refreshed, Su!Follow, Su!Cardinality,
      Pr!Su!Next, Pr!Su!Live, Pr!Su!Work, Pr!Su!Ask, Pr!Su!Callers,
      Pr!Su!ReadDeadline, Pr!Su!ExpireAtDeadline, Pr!Su!ArmMoved, Pr!Su!Fire,
      Pr!Su!RetryTimer, Pr!Su!HandleEvent, Pr!Su!HandleError,
      Pr!Su!ReadByEvent, Pr!Su!ExpireByEvent, Pr!Su!ArmByEvent, Pr!Su!Look,
      Pr!Su!ArmLooked, Pr!Su!Sent, Pr!Su!ReadFinish, Pr!Su!CompleteFinish,
      Pr!Su!Start, Pr!Su!Reconnect, Pr!Su!TimerQueryFails, Pr!Su!Receive,
      Pr!Su!DispatchFails, Pr!Su!Finish, Pr!Su!FinishFails, Pr!Su!Tick,
      Pr!Su!Poll, Pr!Su!Crash, Pr!Su!Row, Pr!Su!Settled, Pr!Su!Later,
      Pr!Su!Seen, Pr!Su!Expire, Pr!Su!Due, Pr!Su!Arm, Pr!Su!Stale,
      Pr!Su!StillDue, Pr!Su!Over, Pr!Su!Wait, Pr!Su!Fault, Pr!Su!Earlier,
      Pr!Su!Event, Pr!Su!Done, Pr!Su!NewIdle, Pr!Su!MaySet, Pr!Su!Overran,
      Pr!Su!ArmOrExpire, Pr!Su!End, Pr!Su!Rest, Pr!Su!Kind, Pr!Su!Told,
      Pr!Su!Counted, Pr!Su!Refreshed, Pr!Su!Follow, Pr!Su!Cardinality
<1>4. UNCHANGED Su!vars <=> UNCHANGED Pr!Su!vars
  BY DEF Su!vars, Pr!Su!vars
<1>5. Su!TypeOK <=> Pr!Su!TypeOK
  BY DEF Su!TypeOK, Su!Callers, Su!Later, Pr!Su!TypeOK, Pr!Su!Callers,
      Pr!Su!Later
<1>6. Su!IdledOutWasIdle <=> Pr!Su!IdledOutWasIdle
  BY DEF Su!IdledOutWasIdle, Pr!Su!IdledOutWasIdle
<1>7. Su!ArmedWhenQuiet <=> Pr!Su!ArmedWhenQuiet
  BY DEF Su!ArmedWhenQuiet, Su!Callers, Su!Row, Su!Live, Su!Due, Su!Kind,
      Pr!Su!ArmedWhenQuiet, Pr!Su!Callers, Pr!Su!Row, Pr!Su!Live, Pr!Su!Due,
      Pr!Su!Kind
<1>. QED BY <1>1, <1>2, <1>3, <1>4, <1>5, <1>6, <1>7

\* GitHubLifecycle, as it is reasoned about.
LEMMA SameGitHubLifecycle ==
  /\ (Gh!LifecycleAssumption <=> Pr!Gh!LifecycleAssumption)
  /\ (Gh!Init <=> Pr!Gh!Init)
  /\ (Gh!Next <=> Pr!Gh!Next)
  /\ (UNCHANGED Gh!vars <=> UNCHANGED Pr!Gh!vars)
  /\ (Gh!TypeOK <=> Pr!Gh!TypeOK)
  /\ (Gh!SerialEvidenceConverges <=> Pr!Gh!SerialEvidenceConverges)
<1>1. Gh!LifecycleAssumption <=> Pr!Gh!LifecycleAssumption
  BY DEF Gh!LifecycleAssumption, Gh!States, Pr!Gh!LifecycleAssumption,
      Pr!Gh!States
<1>2. Gh!Init <=> Pr!Gh!Init
  BY DEF Gh!Init, Gh!Resting, Pr!Gh!Init, Pr!Gh!Resting
<1>3. Gh!Next <=> Pr!Gh!Next
  BY DEF Gh!Next, Gh!States, Gh!Deliveries, Gh!Happens, Gh!Claim, Gh!Fetch,
      Gh!Apply, Gh!CallFails, Gh!Die, Gh!Rebind, Gh!Bind, Gh!Busy, Gh!Resting,
      Gh!Evidence, Gh!Released, Gh!Cardinality, Pr!Gh!Next, Pr!Gh!States,
      Pr!Gh!Deliveries, Pr!Gh!Happens, Pr!Gh!Claim, Pr!Gh!Fetch, Pr!Gh!Apply,
      Pr!Gh!CallFails, Pr!Gh!Die, Pr!Gh!Rebind, Pr!Gh!Bind, Pr!Gh!Busy,
      Pr!Gh!Resting, Pr!Gh!Evidence, Pr!Gh!Released, Pr!Gh!Cardinality
<1>4. UNCHANGED Gh!vars <=> UNCHANGED Pr!Gh!vars
  BY DEF Gh!vars, Pr!Gh!vars
<1>5. Gh!TypeOK <=> Pr!Gh!TypeOK
  BY DEF Gh!TypeOK, Gh!States, Gh!Deliveries, Pr!Gh!TypeOK, Pr!Gh!States,
      Pr!Gh!Deliveries
<1>6. Gh!SerialEvidenceConverges <=> Pr!Gh!SerialEvidenceConverges
  BY DEF Gh!SerialEvidenceConverges, Gh!Settled, Gh!Current, Gh!Deliveries,
      Pr!Gh!SerialEvidenceConverges, Pr!Gh!Settled, Pr!Gh!Current,
      Pr!Gh!Deliveries
<1>. QED BY <1>1, <1>2, <1>3, <1>4, <1>5, <1>6

\* Billing, as it is reasoned about.
LEMMA SameBilling ==
  /\ (Bi!BillingAssumption <=> Or!Bi!BillingAssumption)
  /\ (Bi!Init <=> Or!Bi!Init)
  /\ (Bi!Next <=> Or!Bi!Next)
  /\ (UNCHANGED Bi!vars <=> UNCHANGED Or!Bi!vars)
  /\ (Bi!TypeOK <=> Or!Bi!TypeOK)
  /\ (Bi!StampConverges <=> Or!Bi!StampConverges)
  /\ (Bi!SeatsAreBilled <=> Or!Bi!SeatsAreBilled)
<1>1. Bi!BillingAssumption <=> Or!Bi!BillingAssumption
  BY DEF Bi!BillingAssumption, Or!Bi!BillingAssumption
<1>2. Bi!Init <=> Or!Bi!Init
  BY DEF Bi!Init, Bi!Idle, Or!Bi!Init, Or!Bi!Idle
<1>3. Bi!Next <=> Or!Bi!Next
  BY DEF Bi!Next, Bi!CompleteCheckout, Bi!StatusChanges, Bi!Repeat,
      Bi!ForgetList, Bi!Deliver, Bi!ChangeSeats, Bi!BeginTrial,
      Bi!BeginCheckout, Bi!Fail, Bi!Works, Bi!world, Bi!bounds, Bi!Statuses,
      Bi!Current, Bi!Unused, Bi!Live, Bi!Idle, Bi!Ends, Bi!UseList, Bi!AskList,
      Bi!ListArrives, Bi!StartTrial, Bi!Checkout, Bi!TakeLock, Bi!ReadState,
      Bi!Stamp, Bi!CountSeats, Bi!Report, Bi!Stampable, Bi!Chosen, Bi!Missed,
      Bi!To, Bi!Terminal, Bi!Reread, Bi!StampOf, Bi!Counted, Or!Bi!Next,
      Or!Bi!CompleteCheckout, Or!Bi!StatusChanges, Or!Bi!Repeat,
      Or!Bi!ForgetList, Or!Bi!Deliver, Or!Bi!ChangeSeats, Or!Bi!BeginTrial,
      Or!Bi!BeginCheckout, Or!Bi!Fail, Or!Bi!Works, Or!Bi!world, Or!Bi!bounds,
      Or!Bi!Statuses, Or!Bi!Current, Or!Bi!Unused, Or!Bi!Live, Or!Bi!Idle,
      Or!Bi!Ends, Or!Bi!UseList, Or!Bi!AskList, Or!Bi!ListArrives,
      Or!Bi!StartTrial, Or!Bi!Checkout, Or!Bi!TakeLock, Or!Bi!ReadState,
      Or!Bi!Stamp, Or!Bi!CountSeats, Or!Bi!Report, Or!Bi!Stampable,
      Or!Bi!Chosen, Or!Bi!Missed, Or!Bi!To, Or!Bi!Terminal, Or!Bi!Reread,
      Or!Bi!StampOf, Or!Bi!Counted
<1>4. UNCHANGED Bi!vars <=> UNCHANGED Or!Bi!vars
  BY DEF Bi!vars, Or!Bi!vars
<1>5. Bi!TypeOK <=> Or!Bi!TypeOK
  BY DEF Bi!TypeOK, Bi!Terminal, Bi!Live, Bi!Jobs, Bi!Steps, Bi!Stampable,
      Or!Bi!TypeOK, Or!Bi!Terminal, Or!Bi!Live, Or!Bi!Jobs, Or!Bi!Steps,
      Or!Bi!Stampable
<1>6. Bi!StampConverges <=> Or!Bi!StampConverges
  BY DEF Bi!StampConverges, Bi!Stampable, Bi!Terminal, Bi!AtRest, Bi!Idle,
      Or!Bi!StampConverges, Or!Bi!Stampable, Or!Bi!Terminal, Or!Bi!AtRest,
      Or!Bi!Idle
<1>7. Bi!SeatsAreBilled <=> Or!Bi!SeatsAreBilled
  BY DEF Bi!SeatsAreBilled, Bi!Stampable, Bi!AtRest, Bi!Idle,
      Or!Bi!SeatsAreBilled, Or!Bi!Stampable, Or!Bi!AtRest, Or!Bi!Idle
<1>. QED BY <1>1, <1>2, <1>3, <1>4, <1>5, <1>6, <1>7

-----------------------------------------------------------------------------
(* The invariant: that of the part that runs *)

IInv ==
  /\ part = "events" => Pr!IInv
  /\ part = "connections" => Pr!CoIInv
  /\ part = "revisions" => Pr!ReIInv
  /\ part = "registry" => Pr!DaIInv
  /\ part = "credentials" => Or!CrIInv
  /\ part = "locks" => Or!LoIInv
  /\ part = "members" => Or!IInv
  /\ part = "setup" => Or!SeIInv
  /\ part = "entitlements" => Or!EnIInv
  /\ part = "tokens" => Pr!ToIInv
  /\ part = "process" => Or!HpIInv
  /\ part = "socket" => Pr!SoIInv
  /\ part = "issues" => Pr!LiIInv
  /\ part = "routing" => Pr!RoIInv
  /\ part = "migration" => Pr!TmIInv
  /\ part = "supervision" => Pr!SuIInv
  /\ part = "github" => Pr!GhIInv
  /\ part = "billing" => Or!BiIInv

\* The part that runs takes its own steps, and stays.
LEMMA PartSteps ==
  ASSUME [Next]_vars
  PROVE  /\ part' = part
         /\ part = "events" => [Ev!Next]_(Ev!vars)
         /\ part = "connections" => [Co!Next]_(Co!vars)
         /\ part = "revisions" => [Re!Next]_(Re!vars)
         /\ part = "registry" => [Da!Next]_(Da!vars)
         /\ part = "credentials" => [Cr!Next]_(Cr!vars)
         /\ part = "locks" => [Lo!Next]_(Lo!vars)
         /\ part = "members" => [Me!Next]_(Me!vars)
         /\ part = "setup" => [Se!Next]_(Se!vars)
         /\ part = "entitlements" => [En!Next]_(En!vars)
         /\ part = "tokens" => [To!Next]_(To!vars)
         /\ part = "process" => [Hp!Next]_(Hp!vars)
         /\ part = "socket" => [So!Next]_(So!vars)
         /\ part = "issues" => [Li!Next]_(Li!vars)
         /\ part = "routing" => [Ro!Next]_(Ro!vars)
         /\ part = "migration" => [Tm!Next]_(Tm!vars)
         /\ part = "supervision" => [Su!Next]_(Su!vars)
         /\ part = "github" => [Gh!Next]_(Gh!vars)
         /\ part = "billing" => [Bi!Next]_(Bi!vars)
<1>1. part' = part
  BY DEF Next, vars
<1>2. part = "events" => [Ev!Next]_(Ev!vars)
  BY DEF Next, vars, Ev!vars
<1>3. part = "connections" => [Co!Next]_(Co!vars)
  BY DEF Next, vars, Co!vars
<1>4. part = "revisions" => [Re!Next]_(Re!vars)
  BY DEF Next, vars, Re!vars
<1>5. part = "registry" => [Da!Next]_(Da!vars)
  BY DEF Next, vars, Da!vars
<1>6. part = "credentials" => [Cr!Next]_(Cr!vars)
  BY DEF Next, vars, Cr!vars
<1>7. part = "locks" => [Lo!Next]_(Lo!vars)
  BY DEF Next, vars, Lo!vars
<1>8. part = "members" => [Me!Next]_(Me!vars)
  BY DEF Next, vars, Me!vars
<1>9. part = "setup" => [Se!Next]_(Se!vars)
  BY DEF Next, vars, Se!vars
<1>10. part = "entitlements" => [En!Next]_(En!vars)
  BY DEF Next, vars, En!vars
<1>11. part = "tokens" => [To!Next]_(To!vars)
  BY DEF Next, vars, To!vars
<1>12. part = "process" => [Hp!Next]_(Hp!vars)
  BY DEF Next, vars, Hp!vars
<1>13. part = "socket" => [So!Next]_(So!vars)
  BY DEF Next, vars, So!vars
<1>14. part = "issues" => [Li!Next]_(Li!vars)
  BY DEF Next, vars, Li!vars
<1>15. part = "routing" => [Ro!Next]_(Ro!vars)
  BY DEF Next, vars, Ro!vars
<1>16. part = "migration" => [Tm!Next]_(Tm!vars)
  BY DEF Next, vars, Tm!vars
<1>17. part = "supervision" => [Su!Next]_(Su!vars)
  BY DEF Next, vars, Su!vars
<1>18. part = "github" => [Gh!Next]_(Gh!vars)
  BY DEF Next, vars, Gh!vars
<1>19. part = "billing" => [Bi!Next]_(Bi!vars)
  BY DEF Next, vars, Bi!vars
<1>. QED BY <1>1, <1>2, <1>3, <1>4, <1>5, <1>6, <1>7, <1>8, <1>9, <1>10, <1>11, <1>12, <1>13, <1>14, <1>15, <1>16, <1>17, <1>18, <1>19

LEMMA Initially ==
  ASSUME Init
  PROVE  IInv
<1>1. part = "events" => Pr!IInv
  BY ControlPlaneAssumption, SameProviderEvents, Pr!Initially DEF Init
<1>2. part = "connections" => Pr!CoIInv
  BY ControlPlaneAssumption, SameProviderConnections, Pr!CoInitially DEF Init
<1>3. part = "revisions" => Pr!ReIInv
  BY ControlPlaneAssumption, SameConfigurationRevisions, Pr!ReInitially DEF Init
<1>4. part = "registry" => Pr!DaIInv
  BY ControlPlaneAssumption, SameDaemonRegistry, Pr!DaInitially DEF Init
<1>5. part = "credentials" => Or!CrIInv
  BY ControlPlaneAssumption, SameCredentials, Or!CrInitially DEF Init
<1>6. part = "locks" => Or!LoIInv
  BY ControlPlaneAssumption, SameLockOrder, Or!LoInitially DEF Init
<1>7. part = "members" => Or!IInv
  BY ControlPlaneAssumption, SameMemberships, Or!InitHolds DEF Init
<1>8. part = "setup" => Or!SeIInv
  BY ControlPlaneAssumption, SameInstanceSetup, Or!SeInitially DEF Init
<1>9. part = "entitlements" => Or!EnIInv
  BY ControlPlaneAssumption, SameEntitlements, Or!EnInitially DEF Init
<1>10. part = "tokens" => Pr!ToIInv
  BY ControlPlaneAssumption, SameLinearTokens, Pr!ToInitially DEF Init
<1>11. part = "process" => Or!HpIInv
  BY ControlPlaneAssumption, SameHubProcess, Or!HpInitially DEF Init
<1>12. part = "socket" => Pr!SoIInv
  BY ControlPlaneAssumption, SameSlackSocket, Pr!SoInitially DEF Init
<1>13. part = "issues" => Pr!LiIInv
  BY ControlPlaneAssumption, SameLinearIssues, Pr!LiInitially DEF Init
<1>14. part = "routing" => Pr!RoIInv
  BY ControlPlaneAssumption, SameEventRouting, Pr!RoInitially DEF Init
<1>15. part = "migration" => Pr!TmIInv
  BY ControlPlaneAssumption, SameTriggerMigration, Pr!TmInitially DEF Init
<1>16. part = "supervision" => Pr!SuIInv
  BY ControlPlaneAssumption, SameAgentSupervision, Pr!SuInitially DEF Init
<1>17. part = "github" => Pr!GhIInv
  BY ControlPlaneAssumption, SameGitHubLifecycle, Pr!GhInitially DEF Init
<1>18. part = "billing" => Or!BiIInv
  BY ControlPlaneAssumption, SameBilling, Or!BiInitially DEF Init
<1>. QED BY <1>1, <1>2, <1>3, <1>4, <1>5, <1>6, <1>7, <1>8, <1>9, <1>10, <1>11, <1>12, <1>13, <1>14, <1>15, <1>16, <1>17, <1>18 DEF IInv

LEMMA Inductive ==
  ASSUME IInv, [Next]_vars
  PROVE  IInv'
<1>0. part' = part
  BY PartSteps
<1>1. part = "events" => (Pr!IInv)'
  BY ControlPlaneAssumption, PartSteps, SameProviderEvents, Pr!Inductive DEF IInv
<1>2. part = "connections" => (Pr!CoIInv)'
  BY ControlPlaneAssumption, PartSteps, SameProviderConnections, Pr!CoInductive DEF IInv
<1>3. part = "revisions" => (Pr!ReIInv)'
  BY ControlPlaneAssumption, PartSteps, SameConfigurationRevisions, Pr!ReInductive DEF IInv
<1>4. part = "registry" => (Pr!DaIInv)'
  BY ControlPlaneAssumption, PartSteps, SameDaemonRegistry, Pr!DaInductive DEF IInv
<1>5. part = "credentials" => (Or!CrIInv)'
  BY ControlPlaneAssumption, PartSteps, SameCredentials, Or!CrInductive DEF IInv
<1>6. part = "locks" => (Or!LoIInv)'
  BY ControlPlaneAssumption, PartSteps, SameLockOrder, Or!LoInductive DEF IInv
<1>7. part = "members" => (Or!IInv)'
  BY ControlPlaneAssumption, PartSteps, SameMemberships, Or!StepKeeps DEF IInv
<1>8. part = "setup" => (Or!SeIInv)'
  BY ControlPlaneAssumption, PartSteps, SameInstanceSetup, Or!SeInductive DEF IInv
<1>9. part = "entitlements" => (Or!EnIInv)'
  BY ControlPlaneAssumption, PartSteps, SameEntitlements, Or!EnInductive DEF IInv
<1>10. part = "tokens" => (Pr!ToIInv)'
  BY ControlPlaneAssumption, PartSteps, SameLinearTokens, Pr!ToInductive DEF IInv
<1>11. part = "process" => (Or!HpIInv)'
  BY ControlPlaneAssumption, PartSteps, SameHubProcess, Or!HpInductive DEF IInv
<1>12. part = "socket" => (Pr!SoIInv)'
  BY ControlPlaneAssumption, PartSteps, SameSlackSocket, Pr!SoInductive DEF IInv
<1>13. part = "issues" => (Pr!LiIInv)'
  BY ControlPlaneAssumption, PartSteps, SameLinearIssues, Pr!LiInductive DEF IInv
<1>14. part = "routing" => (Pr!RoIInv)'
  BY ControlPlaneAssumption, PartSteps, SameEventRouting, Pr!RoInductive DEF IInv
<1>15. part = "migration" => (Pr!TmIInv)'
  BY ControlPlaneAssumption, PartSteps, SameTriggerMigration, Pr!TmInductive DEF IInv
<1>16. part = "supervision" => (Pr!SuIInv)'
  BY ControlPlaneAssumption, PartSteps, SameAgentSupervision, Pr!SuInductive DEF IInv
<1>17. part = "github" => (Pr!GhIInv)'
  BY ControlPlaneAssumption, PartSteps, SameGitHubLifecycle, Pr!GhInductive DEF IInv
<1>18. part = "billing" => (Or!BiIInv)'
  BY ControlPlaneAssumption, PartSteps, SameBilling, Or!BiInductive DEF IInv
<1>. QED BY <1>0, <1>1, <1>2, <1>3, <1>4, <1>5, <1>6, <1>7, <1>8, <1>9, <1>10, <1>11, <1>12, <1>13, <1>14, <1>15, <1>16, <1>17, <1>18 DEF IInv

LEMMA Invariance == Spec => []IInv
<1>1. Init => IInv
  BY Initially
<1>2. IInv /\ [Next]_vars => IInv'
  BY Inductive
<1>. QED BY <1>1, <1>2, PTL DEF Spec

-----------------------------------------------------------------------------
(* What the runs check *)

\* Every variable of each part keeps its type, whatever the constants.
THEOREM TypeCorrect == Spec => []TypeOK
<1>1. IInv /\ part = "events" => Ev!TypeOK
  BY ControlPlaneAssumption, SameProviderEvents, Pr!Typed DEF IInv
<1>2. IInv /\ part = "connections" => Co!TypeOK
  BY SameProviderConnections DEF IInv, Pr!CoIInv
<1>3. IInv /\ part = "github" => Gh!TypeOK
  BY ControlPlaneAssumption, SameGitHubLifecycle, Pr!GhTyped DEF IInv
<1>4. IInv /\ part = "revisions" => Re!TypeOK
  BY SameConfigurationRevisions DEF IInv, Pr!ReIInv
<1>5. IInv /\ part = "registry" => Da!TypeOK
  BY SameDaemonRegistry DEF IInv, Pr!DaIInv
<1>6. IInv /\ part = "credentials" => Cr!TypeOK
  BY SameCredentials DEF IInv, Or!CrIInv
<1>7. IInv /\ part = "locks" => Lo!TypeOK
  BY SameLockOrder DEF IInv, Or!LoIInv
<1>8. IInv /\ part = "billing" => Bi!TypeOK
  BY ControlPlaneAssumption, SameBilling, Or!BiTyped DEF IInv
<1>9. IInv /\ part = "members" => Me!TypeOK
  BY SameMemberships DEF IInv, Or!IInv
<1>10. IInv /\ part = "setup" => Se!TypeOK
  BY SameInstanceSetup DEF IInv, Or!SeIInv
<1>11. IInv /\ part = "routing" => Ro!TypeOK
  BY ControlPlaneAssumption, SameEventRouting, Pr!RoTyped DEF IInv
<1>12. IInv /\ part = "issues" => Li!TypeOK
  BY ControlPlaneAssumption, SameLinearIssues, Pr!LiTyped DEF IInv
<1>13. IInv /\ part = "migration" => Tm!TypeOK
  BY ControlPlaneAssumption, SameTriggerMigration, Pr!TmTyped DEF IInv
<1>14. IInv /\ part = "socket" => So!TypeOK
  BY SameSlackSocket DEF IInv, Pr!SoIInv
<1>15. IInv /\ part = "entitlements" => En!TypeOK
  BY SameEntitlements DEF IInv, Or!EnIInv
<1>16. IInv /\ part = "tokens" => To!TypeOK
  BY SameLinearTokens DEF IInv, Pr!ToIInv
<1>17. IInv /\ part = "supervision" => Su!TypeOK
  BY ControlPlaneAssumption, SameAgentSupervision, Pr!SuTyped DEF IInv
<1>18. IInv /\ part = "process" => Hp!TypeOK
  BY SameHubProcess DEF IInv, Or!HpIInv
<1>19. IInv => TypeOK
  BY <1>1, <1>2, <1>3, <1>4, <1>5, <1>6, <1>7, <1>8, <1>9, <1>10, <1>11, <1>12, <1>13,
     <1>14, <1>15, <1>16, <1>17, <1>18 DEF TypeOK
<1>. QED BY <1>19, Invariance, PTL

\* A denied login stays denied, and a token enrols one daemon (db/pg.ts).
THEOREM CredentialsAlwaysEnd == Spec => []CredentialsEnd
<1>1. IInv /\ part = "credentials" => Cr!DenialIsFinal /\ Cr!OneDaemonPerToken
  BY ControlPlaneAssumption, SameCredentials, Or!CrSafe DEF IInv
<1>2. IInv => CredentialsEnd
  BY <1>1 DEF CredentialsEnd
<1>. QED BY <1>2, Invariance, PTL

\* An organization keeps an owner and to its seats, there is one first operator, who comes
\* with an organization, and what was decided and used is what the trail and the
\* meter say (auth/organization-access.ts, instance-setup/index.ts, entitlements/service.ts).
THEOREM OrganizationsStayWhole == Spec => []OrganizationsAreWhole
<1>1. IInv /\ part = "members" => Me!HasOwner /\ Me!SeatsAreReserved
  BY ControlPlaneAssumption, SameMemberships DEF IInv, Or!IInv
<1>2. IInv /\ part = "setup" => Se!OneOperator /\ Se!CompleteIsWhole
  BY ControlPlaneAssumption, SameInstanceSetup, Or!SeSafe DEF IInv
<1>3. IInv /\ part = "entitlements" => En!OverridesAreKept /\ En!TrailIsChained /\ En!UsageIsCovered
  BY ControlPlaneAssumption, SameEntitlements, Or!EnSafe DEF IInv
<1>4. IInv => OrganizationsAreWhole
  BY <1>1, <1>2, <1>3 DEF OrganizationsAreWhole
<1>. QED BY <1>4, Invariance, PTL

\* Overlapping and repeated deliveries enqueue the runs of the routes that were live when
\* they were first accepted, all of them once acknowledged; entries into a scope run; Slack is
\* told of what was accepted (db/trigger-acceptance.ts, triggers/*/index.ts).
THEOREM DeliveriesStayKept == Spec => []DeliveriesAreKept
<1>1. IInv /\ part = "events" => Ev!RunsFollowSnapshot /\ Ev!AcknowledgedIsEnqueued
  BY ControlPlaneAssumption, SameProviderEvents DEF IInv, Pr!IInv
<1>2. IInv /\ part = "issues" => Li!EntriesRun
  BY ControlPlaneAssumption, SameLinearIssues DEF IInv, Pr!LiIInv
<1>3. IInv /\ part = "socket" => So!AckedIsAccepted /\ So!OneConnection
  BY ControlPlaneAssumption, SameSlackSocket, Pr!SoSafe DEF IInv
<1>4. IInv => DeliveriesAreKept
  BY <1>1, <1>2, <1>3 DEF DeliveriesAreKept
<1>. QED BY <1>4, Invariance, PTL

\* Only live projects have routes, a filter takes what its author asked for, and a trigger is
\* served once through its migration, whatever writes, deployments and starts overlap
\* (configuration/store.ts, triggers/*/match.ts, triggers/migration.ts).
THEOREM RoutesStayLive == Spec => []RoutesAreLive
<1>1. IInv /\ part = "revisions" => Re!RoutesAreLive
  BY ControlPlaneAssumption, SameConfigurationRevisions, Pr!ReSafe DEF IInv
<1>2. IInv /\ part = "routing" => Ro!NothingForeign /\ Ro!NothingMissed
  BY ControlPlaneAssumption, SameEventRouting, Pr!RoNothingIsForeign, Pr!RoNothingIsMissed DEF IInv
<1>3. IInv /\ part = "migration" => Tm!ServedOnce /\ Tm!FailsOnlyIfDisturbed
  BY ControlPlaneAssumption, SameTriggerMigration, Pr!TmSafe DEF IInv
<1>4. IInv => RoutesAreLive
  BY <1>1, <1>2, <1>3 DEF RoutesAreLive
<1>. QED BY <1>4, Invariance, PTL

\* However events are repeated, overlap and fail: when all are answered, the binding of an
\* installation is as GitHub has it if its requests came one after another, the plan is that
\* of the subscription reconciled last, and Stripe bills the seats there are
\* (providers/github/index.ts, applyLifecycle; billing/index.ts).
THEOREM MirrorsKeepConverging == Spec => []MirrorsConverge
<1>1. IInv /\ part = "github" => Gh!SerialEvidenceConverges
  BY ControlPlaneAssumption, SameGitHubLifecycle, Pr!GhSafe DEF IInv
<1>2. IInv /\ part = "billing" => Bi!StampConverges /\ Bi!SeatsAreBilled
  BY ControlPlaneAssumption, SameBilling, Or!BiSafe DEF IInv
<1>3. IInv => MirrorsConverge
  BY <1>1, <1>2 DEF MirrorsConverge
<1>. QED BY <1>3, Invariance, PTL

\* A request that waits for a daemon's answer is on its line, its presence is what the
\* registry holds; an execution fails as idle only when all that was heard of it says so, and
\* has its timer, for any number of daemons, requests and events (daemons/registry.ts,
\* daemons/lifecycle.ts).
THEOREM DaemonsStayWatched == Spec => []DaemonsAreWatched
<1>1. IInv /\ part = "registry" => Da!PendingIsOnTheLine /\ Da!PresenceIsTrue
  BY ControlPlaneAssumption, SameDaemonRegistry, Pr!DaSafe DEF IInv
<1>2. IInv /\ part = "supervision" => Su!IdledOutWasIdle /\ Su!ArmedWhenQuiet
  BY ControlPlaneAssumption, SameAgentSupervision, Pr!SuSafe DEF IInv
<1>3. IInv => DaemonsAreWatched
  BY <1>1, <1>2 DEF DaemonsAreWatched
<1>. QED BY <1>3, Invariance, PTL

\* A connection belongs to the active application, an attempt binds one at most, and a
\* Linear connection holds the newest tokens (db/connections.ts, providers/linear/client.ts).
THEOREM BindingsStayProven == Spec => []BindingsAreProven
<1>1. IInv /\ part = "connections" => Co!BoundToActiveApplication /\ Co!AttemptBindsOnce
  BY ControlPlaneAssumption, SameProviderConnections, Pr!CoSafe DEF IInv
<1>2. IInv /\ part = "tokens" => To!HoldsNewestTokens
  BY ControlPlaneAssumption, SameLinearTokens, Pr!ToSafe DEF IInv
<1>3. IInv => BindingsAreProven
  BY <1>1, <1>2 DEF BindingsAreProven
<1>. QED BY <1>3, Invariance, PTL

\* Transactions wait for one another in an order, save the known exceptions, and processes
\* own the embedded database one at a time (db/pg.ts, db/runtime/internal, server/runtime.ts).
THEOREM WaitsStayOrdered == Spec => []WaitsAreOrdered
<1>1. IInv /\ part = "locks" => Lo!WaitsAreOrdered
  BY ControlPlaneAssumption, SameLockOrder, Or!LoSafe DEF IInv
<1>2. IInv /\ part = "process" => Hp!OwnedAlone /\ Hp!LeavesNoFile /\ Hp!StoppedForGood
  BY ControlPlaneAssumption, SameHubProcess, Or!HpSafe DEF IInv
<1>3. IInv => WaitsAreOrdered
  BY <1>1, <1>2 DEF WaitsAreOrdered
<1>. QED BY <1>3, Invariance, PTL

\* No installation moves to another organization, and nobody takes an organization or an
\* instance that is another's (db/connections.ts, instance-setup/index.ts).
THEOREM TenantsStayKept == Spec => TenantsAreKept
<1>1. IInv /\ [Next]_vars /\ part = "connections" => Co!TenantIsKept /\ Co!BoundByItsConfiguration
  BY ControlPlaneAssumption, PartSteps, SameProviderConnections, Pr!CoBindsByRule DEF IInv
<1>2. IInv /\ [Next]_vars /\ part = "setup" => Se!OwnersStay /\ Se!ClaimedPristine
  BY ControlPlaneAssumption, PartSteps, SameInstanceSetup, Or!SeRightful DEF IInv
<1>3. IInv /\ [Next]_vars =>
      [ /\ part = "connections" => Co!TenantIsKept /\ Co!BoundByItsConfiguration
        /\ part = "setup" => Se!OwnersStay /\ Se!ClaimedPristine ]_vars
  BY <1>1, <1>2
<1>. QED BY <1>3, Invariance, PTL DEF Spec, TenantsAreKept

\* A deployment moves to the head it read or stays, under the authority the project has
\* (configuration/github-sync.ts).
THEOREM DeploymentsOnlyGoForward == Spec => DeploymentsGoForward
<1>1. IInv /\ [Next]_vars /\ part = "revisions" => Re!DeploysForward /\ Re!AuthorityIsRespected
  BY ControlPlaneAssumption, PartSteps, SameConfigurationRevisions, Pr!ReMoves DEF IInv
<1>2. IInv /\ [Next]_vars =>
      [part = "revisions" => Re!DeploysForward /\ Re!AuthorityIsRespected]_vars
  BY <1>1
<1>. QED BY <1>2, Invariance, PTL DEF Spec, DeploymentsGoForward

\* Rights count as they are at the moment of the deed (daemons/registry.ts, db/pg.ts,
\* auth/organization-access.ts, auth/registration-admission.ts).
THEOREM PermissionsStayCurrent == Spec => PermissionsAreCurrent
<1>1. IInv /\ [Next]_vars /\ part = "registry" => Da!AskedAsPermitted
  BY ControlPlaneAssumption, PartSteps, SameDaemonRegistry, Pr!DaAsksPermitted DEF IInv
<1>2. IInv /\ [Next]_vars /\ part = "credentials" => Cr!EnrolledByLiveKey
  BY ControlPlaneAssumption, PartSteps, SameCredentials, Or!CrEnrollsByLiveKey DEF IInv
<1>3. IInv /\ [Next]_vars /\ part = "members" => Me!ChangedByRight /\ Me!JoinsInvited /\ Me!SignsUpInvited
  BY ControlPlaneAssumption, PartSteps, SameMemberships, Or!ChangesByRight, Or!JoinsByInvitation, Or!SignsUpByInvitation DEF IInv
<1>4. IInv /\ [Next]_vars =>
      [ /\ part = "registry" => Da!AskedAsPermitted
        /\ part = "credentials" => Cr!EnrolledByLiveKey
        /\ part = "members" => Me!ChangedByRight /\ Me!JoinsInvited /\ Me!SignsUpInvited ]_vars
  BY <1>1, <1>2, <1>3
<1>. QED BY <1>4, Invariance, PTL DEF Spec, PermissionsAreCurrent

=============================================================================
