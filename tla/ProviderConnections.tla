------------------------ MODULE ProviderConnections ------------------------
(***************************************************************************)
(* One provider's application and the workspaces bound to it: the          *)
(* operator's configuration and its activation                             *)
(* (src/src/provider-applications), the attempts by which administrators   *)
(* of organizations bind an installation, guild or workspace over slow     *)
(* redirects and provider calls (src/src/db/connections.ts), disconnection *)
(* and the provider's own lifecycle events (src/src/providers/github).     *)
(*                                                                         *)
(* Transactions of one provider serialise on an advisory lock; what is     *)
(* read before them is checked again under it.                             *)
(***************************************************************************)
EXTENDS Integers, FiniteSets

CONSTANTS Apps, Organizations, Externals, Attempts, Callbacks, None,
          Legacy,      \* the application of a binding older than the feature
          Flows,       \* subset of {"setup", "transition", "exclusive"}
          MaxVersion,  \* bound on saved configurations
          MaxStarts,   \* bound on attempts and callbacks
          MaxChanges   \* bound on lost authority, disconnections and lifecycle events

VARIABLES
  flow,       \* GitHub: "setup"; Slack and Linear: "transition"; Discord: "exclusive"
  config,     \* runtime_provider_configuration
  activation, \* runtime_provider_activation
  binding,    \* the connection of each external identity
  authority,  \* organizations whose administrator's session and role still stand
  attempt,    \* organization_connection_attempts
  callback,   \* browser callbacks under way
  startup,    \* a process that activates the provider as it starts
  bound,      \* history: bindings made by each attempt
  starts, changes

vars == <<flow, config, activation, binding, authority, attempt, callback, startup, bound,
          starts, changes>>

NoVersion == [app |-> None, version |-> 0]
Unbound == [org |-> None, app |-> None]
NoAttempt == [phase |-> "none", org |-> None, app |-> None, version |-> 0,
              activates |-> FALSE, candidate |-> None]
NoCallback == [pc |-> "idle", of |-> None, phase |-> "none", ext |-> None]
Idle == [pc |-> "idle", app |-> None, version |-> 0]

\* An application is neither older than the feature nor nobody's.
ConnectionsAssumption ==
  /\ MaxVersion \in Nat /\ MaxStarts \in Nat
  /\ Legacy \notin Apps /\ Legacy # None /\ None \notin Apps

TypeOK ==
  LET VersionOf == [app : Apps \cup {None}, version : 0..MaxVersion] IN
  /\ flow \in Flows /\ config \in VersionOf /\ activation \in VersionOf
  /\ binding \in [Externals -> [org : Organizations \cup {None},
                                app : Apps \cup {Legacy, None}]]
  /\ authority \subseteq Organizations
  /\ \A a \in Attempts :
       attempt[a].phase \in {"none", "setup", "authorization", "consumed"}
  /\ \A c \in Callbacks : callback[c].pc \in {"idle", "read", "verified"}
  /\ startup.pc \in {"idle", "read", "claimed"}
  /\ bound \in [Attempts -> 0..MaxStarts]

\* Connections from before the feature have no application.
Init ==
  /\ flow \in Flows
  /\ config = NoVersion /\ activation = NoVersion
  /\ binding \in [Externals -> {Unbound} \cup [org : Organizations, app : {Legacy}]]
  /\ authority = Organizations
  /\ attempt = [a \in Attempts |-> NoAttempt]
  /\ callback = [c \in Callbacks |-> NoCallback]
  /\ startup = Idle
  /\ bound = [a \in Attempts |-> 0]
  /\ starts = 0 /\ changes = 0

\* Mutant: a connection without an application does not count.
CompatibleOrOlder(app) == \A e \in Externals : binding[e].app \in {None, Legacy, app}
\* requireCompatibleConnections
Compatible(app) == \A e \in Externals : binding[e].app \in {None, app}

-----------------------------------------------------------------------------
(* The operator's application *)

\* save: the operator's credentials were verified and a candidate runs; the
\* version the page was loaded with is compared under the lock.
Save(app) ==
  /\ flow # "transition" /\ config.version < MaxVersion
  /\ Compatible(app)
  /\ config' = [app |-> app, version |-> config.version + 1]
  /\ activation' = config'
  /\ UNCHANGED <<flow, binding, authority, attempt, callback, startup, bound, starts, changes>>

\* activateProviderApplicationsAtStartup: the configuration, of the table or with
\* version 0 of the environment, and the connections are read. Processes of a
\* roll-out may have different environments.
StartupRead(app) ==
  LET legacy == config = NoVersion /\ \A e \in Externals : binding[e].app \in {None, Legacy} IN
  /\ startup.pc = "idle" /\ changes < MaxChanges
  /\ changes' = changes + 1
  /\ Compatible(app) \/ legacy
  /\ \/ startup' = [pc |-> "read", app |-> app, version |-> 0]
     \/ config.app = app /\ startup' = [pc |-> "read", app |-> app, version |-> config.version]
  /\ UNCHANGED <<flow, config, activation, binding, authority, attempt, callback, bound, starts>>

\* claimLegacyConnections, one transaction of its own, when there are any.
StartupClaim ==
  /\ startup.pc = "read" /\ startup.version = 0
  /\ \E e \in Externals : binding[e].app = Legacy
  /\ binding' = [e \in Externals |->
       IF binding[e].app = Legacy THEN [binding[e] EXCEPT !.app = startup.app] ELSE binding[e]]
  /\ startup' = [startup EXCEPT !.pc = "claimed"]
  /\ UNCHANGED <<flow, config, activation, authority, attempt, callback, bound, starts, changes>>

\* activate refuses an application that is not that of all connections.
StartupActivate ==
  /\ startup.pc # "idle"
  /\ activation' = IF Compatible(startup.app)
                   THEN [app |-> startup.app, version |-> startup.version] ELSE activation
  /\ startup' = Idle
  /\ UNCHANGED <<flow, config, binding, authority, attempt, callback, bound, starts, changes>>

\* The candidate fails to start, or the process dies.
StartupFails ==
  /\ startup.pc # "idle"
  /\ startup' = Idle
  /\ UNCHANGED <<flow, config, activation, binding, authority, attempt, callback, bound,
                 starts, changes>>

-----------------------------------------------------------------------------
(* Attempts to connect *)

\* startAttempt: of the configuration this process serves, or, when the operator
\* saves Slack or Linear credentials, of the candidate that the callback activates.
StartAttempt(a, o, app, activates) ==
  /\ attempt[a].phase = "none" /\ starts < MaxStarts /\ o \in authority
  /\ IF activates THEN flow = "transition" ELSE activation.app = app
  /\ attempt' = [attempt EXCEPT ![a] =
       [phase |-> IF flow = "setup" THEN "setup" ELSE "authorization", org |-> o, app |-> app,
        version |-> IF activates THEN config.version + 1 ELSE activation.version,
        activates |-> activates, candidate |-> None]]
  /\ starts' = starts + 1
  /\ UNCHANGED <<flow, config, activation, binding, authority, callback, startup, bound, changes>>

Expire(a) ==
  /\ attempt[a].phase \in {"setup", "authorization"}
  /\ attempt' = [attempt EXCEPT ![a].phase = "consumed"]
  /\ UNCHANGED <<flow, config, activation, binding, authority, callback, startup, bound,
                 starts, changes>>

\* lockAttempt and lockStoredAuthority: unconsumed, unexpired, in the phase of the
\* callback, by an administrator with a session.
Usable(a, phase) == attempt[a].phase = phase /\ attempt[a].org \in authority

\* readAttempt, at a callback of the browser, which may come twice. The provider
\* names the installation; in the second phase it is the candidate's.
ReadAttempt(c, a, e) ==
  /\ callback[c].pc = "idle" /\ starts < MaxStarts
  /\ attempt[a].phase \in {"setup", "authorization"} /\ Usable(a, attempt[a].phase)
  /\ attempt[a].candidate \in {None, e}
  /\ callback' = [callback EXCEPT ![c] =
                    [pc |-> "read", of |-> a, phase |-> attempt[a].phase, ext |-> e]]
  /\ starts' = starts + 1
  /\ UNCHANGED <<flow, config, activation, binding, authority, attempt, startup, bound, changes>>

\* requireCurrentAttempt: the attempt's application and version are the activated ones.
Current(a) == activation.app # None /\ activation = [app |-> attempt[a].app, version |-> attempt[a].version]

\* requireConsumableAttempt of a candidate: the configuration has not moved since.
Candidate(a) ==
  /\ config.version + 1 = attempt[a].version
  /\ activation = config

Leave(c) == callback' = [callback EXCEPT ![c] = NoCallback]

\* The callback ends in the phase it began with: a denied or failed verification
\* consumes the attempt or leaves it, GitHub's setup goes on to the authorization.
Verified(c) ==
  LET a == callback[c].of IN
  /\ callback[c].pc = "read"
  /\ \/ /\ callback[c].phase = "authorization"
        /\ callback' = [callback EXCEPT ![c].pc = "verified"]
        /\ UNCHANGED attempt
     \/ Leave(c) /\ UNCHANGED attempt
     \/ /\ Leave(c) /\ Usable(a, callback[c].phase)
        /\ IF attempt[a].activates THEN Candidate(a) ELSE Current(a)
        /\ attempt' = [attempt EXCEPT ![a] =
             IF callback[c].phase = "setup"
             THEN [@ EXCEPT !.phase = "authorization", !.candidate = callback[c].ext]
             ELSE [@ EXCEPT !.phase = "consumed"]]
  /\ UNCHANGED <<flow, config, activation, binding, authority, startup, bound, starts, changes>>

\* Mutant: the application has to be the same, not its version.
MayBindApplication(a) ==
  activation.app = attempt[a].app

\* What the transaction of a binding requires of the application.
MayBind(a) ==
  IF attempt[a].activates
  THEN Candidate(a) /\ Compatible(attempt[a].app)
  ELSE Current(a)

\* Mutant: a rebinding takes an installation over.
TakenOver(e, a) ==
  flow # "exclusive" \/ binding[e].org = None
\* Rebinding refreshes what the same organization holds; Discord's is exclusive.
Free(e, a) ==
  binding[e].org = None \/ (flow # "exclusive" /\ binding[e].org = attempt[a].org)

\* Mutant: the attempt survives its binding.
AttemptKept(a) == attempt
\* consumeLockedAttempt
AttemptConsumed(a) == [attempt EXCEPT ![a].phase = "consumed"]

\* bindGitHub, bindExclusive, bindSlackTransition and bindLinearTransition; a
\* candidate's binding also saves its configuration and activates it.
Bind(c) ==
  LET a == callback[c].of
      e == callback[c].ext
      saved == [app |-> attempt[a].app, version |-> attempt[a].version]
  IN /\ callback[c].pc = "verified"
     /\ Leave(c)
     /\ IF Usable(a, callback[c].phase) /\ MayBind(a) /\ Free(e, a) /\ saved.version <= MaxVersion
        THEN /\ binding' = [binding EXCEPT ![e] = [org |-> attempt[a].org, app |-> attempt[a].app]]
             /\ attempt' = AttemptConsumed(a)
             /\ bound' = [bound EXCEPT ![a] = @ + 1]
             /\ IF attempt[a].activates
                THEN config' = saved /\ activation' = saved
                ELSE UNCHANGED <<config, activation>>
        ELSE UNCHANGED <<binding, attempt, bound, config, activation>>
     /\ UNCHANGED <<flow, authority, startup, starts, changes>>

-----------------------------------------------------------------------------
(* The end of bindings and of authority *)

\* disconnect by an administrator, or the provider's removal of the installation.
Unbind(e) ==
  /\ binding[e] # Unbound /\ changes < MaxChanges
  /\ binding' = [binding EXCEPT ![e] = Unbound]
  /\ changes' = changes + 1
  /\ UNCHANGED <<flow, config, activation, authority, attempt, callback, startup, bound, starts>>

\* The administrator's session ends, or the membership or its role.
LoseAuthority(o) ==
  /\ o \in authority /\ changes < MaxChanges
  /\ authority' = authority \ {o}
  /\ changes' = changes + 1
  /\ UNCHANGED <<flow, config, activation, binding, attempt, callback, startup, bound, starts>>

Next ==
  \/ \E app \in Apps : Save(app) \/ StartupRead(app)
  \/ StartupClaim \/ StartupActivate \/ StartupFails
  \/ \E a \in Attempts :
       \/ Expire(a)
       \/ \E o \in Organizations, app \in Apps, activates \in BOOLEAN :
            StartAttempt(a, o, app, activates)
       \/ \E c \in Callbacks, e \in Externals : ReadAttempt(c, a, e)
  \/ \E c \in Callbacks : Verified(c) \/ Bind(c)
  \/ \E e \in Externals : Unbind(e)
  \/ \E o \in Organizations : LoseAuthority(o)

Spec == Init /\ [][Next]_vars

-----------------------------------------------------------------------------
(* Properties *)

\* Once an application is active, every connection is of that application,
\* whatever the operator saves, processes activate at their start and callbacks
\* bind meanwhile: events and credentials of another application are never mixed.
BoundToActiveApplication ==
  activation.app # None =>
    \A e \in Externals : binding[e].app \in {None, activation.app}

\* An attempt binds one workspace, however often the browser repeats its callback.
AttemptBindsOnce == \A a \in Attempts : bound[a] <= 1

\* An installation never passes from one organization to another while it is bound,
\* and it is bound only while the one who asked still has the authority.
TenantIsKept ==
  \A e \in Externals :
     binding'[e].org # binding[e].org /\ binding'[e].org # None =>
       binding[e].org = None /\ binding'[e].org \in authority

\* A connection is made by the very configuration its administrator was sent out
\* with: not by one that the operator has replaced in between.
BoundByItsConfiguration ==
  \A a \in Attempts : bound'[a] # bound[a] =>
     activation' = [app |-> attempt[a].app, version |-> attempt[a].version]
=============================================================================
