--------------------------- MODULE EventRouting ---------------------------
(***************************************************************************)
(* A project's triggers name a connection by its slug and a repository, a  *)
(* workspace or a project; the deployment resolves them to ids             *)
(* (src/src/configuration/store.ts), an event of a provider is routed to   *)
(* the project by those ids (acceptProvider of                             *)
(* src/src/db/trigger-acceptance.ts) and then matched with every trigger   *)
(* of the project (match.ts of src/src/triggers). Connections come and go, *)
(* and repositories are renamed, meanwhile. A project has one trigger that *)
(* names something, and may have another that takes every event.           *)
(***************************************************************************)
EXTENDS Integers, FiniteSets, Sequences

CONSTANTS Accounts, Things, Names, None,
          MaxIds,      \* bound on the connections made
          MaxChanges,  \* bound on what happens to connections and repositories
          MaxDeploys,  \* bound on the revisions
          MaxRollbacks

VARIABLES
  provider,
  home,       \* the account a repository (or Linear project) is in
  names,      \* the names of the repositories at GitHub now, None for a deleted one
  rows,       \* the connections: [id, account]
  listed,     \* github_repositories: [connection, thing, name]
  revisions,  \* [authored, filter, at], for the trigger that names something, and whether
              \* the other exists
  active,     \* the active revision, 0 for none
  routes,     \* project_trigger_routes
  work,       \* the activation under way: the revision and the routes compiled for it
  made, changes, rollbacks

Worlds == [rows : SUBSET [id : 1..MaxIds, account : Accounts],
           names : [Things -> Names \cup {None}]]

\* What stands for nothing is no name, no id and no world.
RoutingAssumption ==
  None \notin Accounts \cup Things \cup Names \cup Nat /\ None \notin Worlds /\ MaxIds \in Nat

vars == <<provider, home, names, rows, listed, revisions, active, routes, work,
          made, changes, rollbacks>>

Slug(account) == <<"slug", account>>
Ids == {row.id : row \in rows}
Resources == CASE provider = "github" -> Names
               [] provider = "slack" -> {Slug(a) : a \in Accounts}
               [] provider = "linear" -> Things

Authored == [connection : {Slug(a) : a \in Accounts} \cup {None}, resource : Resources \cup {None}]
Everything == [connection |-> None, resource |-> None]
World == [rows |-> rows, names |-> names]

TypeOK ==
  /\ \A row \in rows : row.id \in 1..made /\ row.account \in Accounts
  /\ \A l \in listed : l.connection \in Ids /\ l.thing \in Things
  /\ active \in 0..Len(revisions)
  /\ \A route \in routes : route.connection \in 1..made
  /\ \A k \in DOMAIN revisions : revisions[k].authored \in Authored

Init ==
  /\ provider \in {"github", "slack", "linear"}
  /\ home \in [Things -> Accounts]
  /\ names \in {f \in [Things -> Names] : \A s, t \in Things : f[s] = f[t] => s = t}
  /\ rows = {} /\ listed = {} /\ revisions = <<>> /\ active = 0 /\ routes = {}
  /\ work = None
  /\ made = 0 /\ changes = 0 /\ rollbacks = 0

-----------------------------------------------------------------------------
(* The world *)

Changed ==
  /\ changes < MaxChanges /\ changes' = changes + 1
  /\ UNCHANGED <<provider, home, revisions, active, work, rollbacks>>

\* bind: a new row; a row that was removed comes back under another id.
Connect(a) ==
  /\ ~\E row \in rows : row.account = a
  /\ made < MaxIds /\ made' = made + 1
  /\ rows' = rows \cup {[id |-> made', account |-> a]}
  /\ UNCHANGED <<provider, home, names, listed, revisions, active, routes, work, changes,
                 rollbacks>>

\* disconnect: the connection's routes and its listing go with it.
Disconnect(row) ==
  /\ Changed
  /\ rows' = rows \ {row}
  /\ routes' = {route \in routes : route.connection # row.id}
  /\ listed' = {l \in listed : l.connection # row.id}
  /\ UNCHANGED <<names, made>>

\* A repository is renamed or deleted at GitHub.
Rename(t, n) ==
  /\ Changed /\ provider = "github"
  /\ names[t] # None /\ n # names[t]
  /\ n = None \/ \A s \in Things : names[s] # n
  /\ names' = [names EXCEPT ![t] = n]
  /\ UNCHANGED <<rows, listed, routes, made>>

\* upsertGitHubRepositories: what the installation has now; nothing is removed.
Refresh(row) ==
  LET has == {t \in Things : home[t] = row.account /\ names[t] # None} IN
  /\ provider = "github"
  /\ listed' = {l \in listed : l.connection # row.id \/ l.thing \notin has}
                 \cup {[connection |-> row.id, thing |-> t, name |-> names[t]] : t \in has}
  /\ UNCHANGED <<provider, home, names, rows, revisions, active, routes, work, made, changes,
                 rollbacks>>

-----------------------------------------------------------------------------
(* The deployment *)

Unresolved(authored) == [connection |-> authored.connection, resource |-> authored.resource,
                         connectionId |-> None, resourceId |-> None]

\* connectionCandidates
Candidates(f) == {row \in rows : f.connection \in {None, Slug(row.account)}}

\* resolveResource: what the authored name stands for among the candidates.
Resolved(f) ==
  CASE provider = "github" ->
         {[connectionId |-> l.connection, resourceId |-> l.thing] :
            l \in {l \in listed : /\ l.name = f.resource
                                  /\ \E row \in Candidates(f) : row.id = l.connection}}
    [] provider = "slack" ->
         {[connectionId |-> row.id, resourceId |-> row.account] :
            row \in {row \in Candidates(f) : Slug(row.account) = f.resource}}
    [] provider = "linear" ->
         {[connectionId |-> row.id, resourceId |-> f.resource] : row \in Candidates(f)}

\* A filter that a deployment has resolved before stands as it is.
Settled(f) == f.connectionId # None /\ f.resourceId # None

Compiles(f) ==
  \/ Settled(f)
  \/ /\ f.connection # None => Candidates(f) # {}
     /\ f.resource # None => Cardinality(Resolved(f)) = 1

\* compileTriggers: the filter that is stored. GitHub's keeps the name that was authored,
\* the others have the provider's own id in its place.
Compiled(f) ==
  IF Settled(f) THEN f
  ELSE IF f.resource # None
  THEN LET it == CHOOSE x \in Resolved(f) : TRUE IN
       [f EXCEPT !.connectionId = it.connectionId, !.resourceId = it.resourceId,
                 !.resource = IF provider = "github" THEN @ ELSE it.resourceId]
  ELSE [f EXCEPT !.connectionId = IF f.connection = None THEN @
                                  ELSE (CHOOSE row \in Candidates(f) : TRUE).id]

\* Mutant: a trigger is routed by the name that was authored.
RoutedByName(f) ==
  IF f.resource # None THEN {[connection |-> Compiled(f).connectionId, resource |-> f.resource]}
  ELSE {[connection |-> row.id, resource |-> None] : row \in Candidates(f)}
\* ... and its routes.
RoutesOf(f) ==
  IF Compiled(f).resourceId # None
  THEN {[connection |-> Compiled(f).connectionId, resource |-> Compiled(f).resourceId]}
  ELSE {[connection |-> row.id, resource |-> None] : row \in Candidates(f)}

\* The listing is as GitHub would answer.
ListingIsCurrent ==
  provider = "github" =>
    listed = {[connection |-> p[1].id, thing |-> p[2], name |-> names[p[2]]] :
                p \in {q \in rows \X Things : /\ home[q[2]] = q[1].account
                                              /\ names[q[2]] # None}}

\* prepareCompiledRevision, insertProjectConfigurationRevision
Deploy(authored, other) ==
  /\ work = None /\ Len(revisions) < MaxDeploys
  /\ Compiles(Unresolved(authored))
  /\ revisions' = Append(revisions,
       [authored |-> authored, other |-> other, filter |-> Compiled(Unresolved(authored)),
        at |-> IF ListingIsCurrent THEN World ELSE None])
  /\ work' = [revision |-> Len(revisions'), compiled |-> FALSE, routes |-> {}]
  /\ UNCHANGED <<provider, home, names, rows, listed, active, routes, made, changes, rollbacks>>

\* rollback: findProjectConfigurationRollbackTarget
Rollback ==
  /\ work = None /\ active > 1 /\ rollbacks < MaxRollbacks
  /\ work' = [revision |-> active - 1, compiled |-> FALSE, routes |-> {}]
  /\ rollbacks' = rollbacks + 1
  /\ UNCHANGED <<provider, home, names, rows, listed, revisions, active, routes, made, changes>>

\* compileTriggerRoutes of an activation or a rollback: from the stored filters.
CompileRoutes ==
  /\ work # None /\ ~work.compiled
  /\ LET of == revisions[work.revision] IN
     work' = IF Compiles(of.filter)
             THEN [work EXCEPT !.compiled = TRUE,
                               !.routes = RoutesOf(of.filter)
                                  \cup IF of.other THEN RoutesOf(Unresolved(Everything)) ELSE {}]
             ELSE None
  /\ UNCHANGED <<provider, home, names, rows, listed, revisions, active, routes, made, changes,
                 rollbacks>>

\* activateProjectConfigurationRevision
Activate ==
  /\ work # None /\ work.compiled
  /\ active' = work.revision /\ routes' = work.routes /\ work' = None
  /\ UNCHANGED <<provider, home, names, rows, listed, revisions, made, changes, rollbacks>>

Next ==
  \/ \E a \in Accounts : Connect(a)
  \/ \E row \in rows : Disconnect(row) \/ Refresh(row)
  \/ \E t \in Things, n \in Names \cup {None} : Rename(t, n)
  \/ \E authored \in Authored, other \in BOOLEAN : Deploy(authored, other)
  \/ Rollback \/ CompileRoutes \/ Activate

Spec == Init /\ [][Next]_vars

-----------------------------------------------------------------------------
(* An event *)

\* What can happen at the provider now, and reach the hub.
Events ==
  CASE provider = "github" ->
         {[account |-> home[t], resource |-> t] : t \in {t \in Things : names[t] # None}}
    [] provider = "slack" -> {[account |-> a, resource |-> a] : a \in Accounts}
    [] provider = "linear" ->
         {[account |-> home[t], resource |-> t] : t \in Things}
           \cup {[account |-> a, resource |-> None] : a \in Accounts}

\* matchesFilter of github/match.ts: the name that was authored, and the id it stood for.
MatchesRepository(f, e) ==
  /\ f.resource \in {None, names[e.resource]}
  /\ f.resourceId \in {None, e.resource}

\* matchesFilters of slack/match.ts, matchesFilter of discord/match.ts: the workspace's id.
MatchesWorkspace(f, e) == f.resource \in {None, e.resource}

\* matchesIssueScope of linear/match.ts
MatchesProject(f, e) == f.resource \in {None, e.resource}

Fits(f, e) ==
  CASE provider = "github" -> MatchesRepository(f, e)
    [] provider = "slack" -> MatchesWorkspace(f, e)
    [] provider = "linear" -> MatchesProject(f, e)

\* Mutant: an event's connection is left to the route.
AnyConnection(f, e, row) == Fits(f, e)
\* The connection of the route is the filter's, and the rest fits.
Matches(f, e, row) == f.connectionId \in {None, row.id} /\ Fits(f, e)

\* acceptProvider and the match: the event starts a run of the trigger.
Taken(f, e) ==
  \E row \in rows :
    /\ row.account = e.account
    /\ \E route \in routes : route.connection = row.id /\ route.resource \in {None, e.resource}
    /\ Matches(f, e, row)

-----------------------------------------------------------------------------
(* Properties *)

\* What the author of a trigger asks for.
Means(authored, e) ==
  /\ authored.connection \in {None, Slug(e.account)}
  /\ authored.resource \in {None, CASE provider = "github" -> names[e.resource]
                                    [] provider = "slack" -> Slug(e.account)
                                    [] provider = "linear" -> e.resource}

\* A trigger never takes an event that its author did not ask for, whatever has become of
\* connections and names since it was compiled, whichever trigger the event was routed for,
\* and after a rollback (compileTriggers, match.ts).
NothingForeign ==
  active # 0 =>
    \A e \in Events : Taken(revisions[active].filter, e) => Means(revisions[active].authored, e)

\* A trigger takes every event its author asked for as long as the connections and the
\* names are those it was compiled with, if the listing was current then
\* (compileTriggers, acceptProvider).
NothingMissed ==
  active # 0 /\ revisions[active].at = World =>
    \A e \in Events : /\ Means(revisions[active].authored, e)
                      /\ \E row \in rows : row.account = e.account
                      => Taken(revisions[active].filter, e)
=============================================================================
