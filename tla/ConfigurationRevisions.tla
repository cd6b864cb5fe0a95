----------------------- MODULE ConfigurationRevisions -----------------------
(***************************************************************************)
(* The configuration of one project: revisions are inserted, validated and *)
(* activated by pushes to a repository (configuration/github-sync.ts), by  *)
(* the editor and the public interface, and the authority over it passes   *)
(* between GitHub and the editor (configuration/store.ts,                  *)
(* projects/dashboard.ts and the transactions of db/pg.ts). A deployment   *)
(* reads the target, the head of the branch, files at the provider and the *)
(* daemons before it writes; nothing but the project's row orders them.    *)
(***************************************************************************)
EXTENDS Integers, Sequences

CONSTANTS Deployers,     \* requests under way at once
          MaxCommits,    \* bound on pushes to the branch
          MaxRevisions,  \* bound on revisions
          MaxDecisions   \* bound on changes of authority and archivings

VARIABLES
  head,       \* the commit at the head of the default branch
  authority,  \* project_configuration_sources.kind
  archived,   \* projects.status
  revisions,  \* project_configuration_revisions, in the order of version
  active,     \* active_configuration_revision_id
  routed,     \* the revision whose routes are in project_trigger_routes
  deployer,   \* the requests under way
  decisions

vars == <<head, authority, archived, revisions, active, routed, deployer, decisions>>

\* commit: 0 for a bundle written by hand. moved: another request changed the
\* active revision or the authority since this one began (history).
NoDeployment == [pc |-> "idle", kind |-> "none", commit |-> 0, rev |-> 0, moved |-> FALSE]
NoRevision == [kind |-> "none", commit |-> 0, valid |-> FALSE]

\* The branch has a head.
RevisionsAssumption == MaxCommits \in Nat \ {0} /\ MaxRevisions \in Nat /\ MaxDecisions \in Nat

TypeOK ==
  /\ head \in 1..MaxCommits /\ authority \in {"manual", "github"} /\ archived \in BOOLEAN
  /\ Len(revisions) <= MaxRevisions
  /\ {active, routed} \subseteq 0..Len(revisions)
  /\ \A i \in 1..Len(revisions) :
       revisions[i] \in [kind : {"manual", "github"}, commit : 0..MaxCommits, valid : BOOLEAN]
  /\ \A d \in Deployers :
       /\ deployer[d].pc \in {"idle", "targeted", "compiled", "inserted", "switching"}
       /\ deployer[d].rev \in 0..Len(revisions)

Init ==
  /\ head = 1 /\ authority = "manual" /\ archived = FALSE
  /\ revisions = <<>> /\ active = 0 /\ routed = 0
  /\ deployer = [d \in Deployers |-> NoDeployment]
  /\ decisions = 0

\* d is done, and what the others were told before is old.
Moved(d) ==
  [x \in Deployers |-> IF x = d \/ deployer[x].pc = "idle" THEN NoDeployment
                       ELSE [deployer[x] EXCEPT !.moved = TRUE]]
Leave(d) == deployer' = [deployer EXCEPT ![d] = NoDeployment]
Begun(d, pc, kind, commit, rev) ==
  deployer' = [deployer EXCEPT ![d] =
    [pc |-> pc, kind |-> kind, commit |-> commit, rev |-> rev, moved |-> FALSE]]

-----------------------------------------------------------------------------
(* Deployments *)

\* Mutant: a push is deployed whoever has the authority.
TargetOfPush == ~archived
\* findGitHubConfigurationTarget with automaticDeploymentEnabled, which is set with
\* the source and goes with it.
Target == authority = "github" /\ ~archived

\* A push's webhook arrives, late or again, or the page asks (commit 0).
BeginSync(d, commit) ==
  /\ deployer[d].pc = "idle" /\ Target
  /\ Begun(d, "targeted", "github", commit, 0)
  /\ UNCHANGED <<head, authority, archived, revisions, active, routed, decisions>>

\* Mutant: the pushed commit is deployed as it is.
HeadForPush(commit) == IF commit = 0 THEN head ELSE commit
\* readDefaultBranchHead: a push that is not the head is superseded.
HeadFor(commit) == IF commit \in {0, head} THEN head ELSE 0

SyncHead(d) ==
  LET at == HeadFor(deployer[d].commit) IN
  /\ deployer[d].pc = "targeted"
  /\ IF at = 0 THEN Leave(d)
     ELSE deployer' = [deployer EXCEPT ![d].pc = "compiled", ![d].commit = at]
  /\ UNCHANGED <<head, authority, archived, revisions, active, routed, decisions>>

\* saveManualConfiguration looks at the authority first.
BeginSave(d) ==
  /\ deployer[d].pc = "idle" /\ authority = "manual"
  /\ Begun(d, "compiled", "manual", 0, 0)
  /\ UNCHANGED <<head, authority, archived, revisions, active, routed, decisions>>

\* installConfiguration of the public interface: it deploys under either authority,
\* and the project of the bundle's name is restored when it was archived.
BeginInstall(d) ==
  /\ deployer[d].pc = "idle"
  /\ archived' = FALSE
  /\ Begun(d, "compiled", "install", 0, 0)
  /\ UNCHANGED <<head, authority, revisions, active, routed, decisions>>

Inserted(kind, commit, valid) ==
  revisions' = Append(revisions, [kind |-> kind, commit |-> commit, valid |-> valid])

\* insertProjectConfigurationRevision: the version after the last; nothing is
\* inserted in an archived project. An invalid revision ends the request.
Insert(d, valid) ==
  LET k == deployer[d] IN
  /\ k.pc = "compiled" /\ ~archived /\ Len(revisions) < MaxRevisions
  /\ Inserted(IF k.kind = "github" THEN "github" ELSE "manual", k.commit, valid)
  /\ IF valid THEN deployer' = [deployer EXCEPT ![d].pc = "inserted", ![d].rev = Len(revisions) + 1]
     ELSE Leave(d)
  /\ UNCHANGED <<head, authority, archived, active, routed, decisions>>

\* Mutant: the revision is locked, the project not looked at.
RevisionOnly(rev) == revisions[rev].valid
\* lockValidProjectRevision
Activatable(rev) == revisions[rev].valid /\ ~archived

\* activateProjectConfigurationRevision replaces the routes and the pointer, after
\* the daemons were asked (a refusal is a failure).
Activate(d) ==
  LET rev == deployer[d].rev IN
  /\ deployer[d].pc = "inserted" /\ Activatable(rev)
  /\ active' = rev /\ routed' = rev
  /\ deployer' = Moved(d)
  /\ UNCHANGED <<head, authority, archived, revisions, decisions>>

\* The provider, a daemon or a query fails, two inserts take one version, or the
\* process dies.
Fail(d) ==
  /\ deployer[d].pc # "idle"
  /\ Leave(d)
  /\ UNCHANGED <<head, authority, archived, revisions, active, routed, decisions>>

-----------------------------------------------------------------------------
(* Authority *)

\* setProjectGitHubConfigurationSource
UseGitHub ==
  /\ ~archived /\ decisions < MaxDecisions
  /\ authority' = "github"
  /\ deployer' = [d \in Deployers |-> IF deployer[d].pc = "idle" THEN NoDeployment
                                      ELSE [deployer[d] EXCEPT !.moved = TRUE]]
  /\ decisions' = decisions + 1
  /\ UNCHANGED <<head, archived, revisions, active, routed>>

\* switchToManual reads the active configuration and compiles its routes ...
BeginSwitch(d) ==
  /\ deployer[d].pc = "idle" /\ active # 0
  /\ Begun(d, "switching", "switch", revisions[active].commit, active)
  /\ UNCHANGED <<head, authority, archived, revisions, active, routed, decisions>>

\* ... switchProjectConfigurationToManual inserts it as a revision and activates it.
Switch(d) ==
  LET rev == deployer[d].rev IN
  /\ deployer[d].pc = "switching"
  /\ active # 0 /\ ~archived /\ Len(revisions) < MaxRevisions
  /\ Inserted("manual", revisions[rev].commit, revisions[rev].valid)
  /\ authority' = "manual"
  /\ active' = Len(revisions) + 1 /\ routed' = active'
  /\ deployer' = Moved(d)
  /\ UNCHANGED <<head, archived, decisions>>

\* archiveProject
Archive ==
  /\ ~archived /\ decisions < MaxDecisions
  /\ archived' = TRUE /\ authority' = "manual" /\ active' = 0 /\ routed' = 0
  /\ deployer' = [d \in Deployers |-> IF deployer[d].pc = "idle" THEN NoDeployment
                                      ELSE [deployer[d] EXCEPT !.moved = TRUE]]
  /\ decisions' = decisions + 1
  /\ UNCHANGED <<head, revisions>>

Push ==
  /\ head < MaxCommits
  /\ head' = head + 1
  /\ UNCHANGED <<authority, archived, revisions, active, routed, deployer, decisions>>

Next ==
  \/ \E d \in Deployers :
       \/ \E commit \in 0..head : BeginSync(d, commit)
       \/ SyncHead(d) \/ BeginSave(d) \/ BeginInstall(d)
       \/ \E valid \in BOOLEAN : Insert(d, valid)
       \/ Activate(d) \/ Fail(d) \/ BeginSwitch(d) \/ Switch(d)
  \/ UseGitHub \/ Archive \/ Push

Spec == Init /\ [][Next]_vars

-----------------------------------------------------------------------------
(* Properties *)

\* Events are routed by the active revision, which was found valid and belongs to a
\* project that is not archived: also when the archiving overtakes a deployment.
RoutesAreLive ==
  /\ routed = active
  /\ active # 0 => revisions[active].valid /\ ~archived

Of(i) == IF i = 0 THEN NoRevision ELSE revisions[i]
Deploys(d) == deployer[d].pc = "inserted" /\ deployer'[d].pc = "idle" /\ active' = deployer[d].rev

\* However late and often pushes are delivered, a synchronisation puts an older
\* commit in the place of a newer one only when the newer was activated while it
\* was under way (which the code does not look for again).
DeploysForward ==
  \A d \in Deployers :
     Deploys(d) /\ ~deployer[d].moved /\ deployer[d].kind = "github"
       /\ Of(active).kind = "github"
       => deployer[d].commit >= Of(active).commit

\* A deployment from GitHub or the editor happens under its own authority, and a
\* switch to manual leaves the configuration in force as it is, unless another
\* request moved them after the check.
AuthorityIsRespected ==
  \A d \in Deployers :
     ~deployer[d].moved =>
       /\ Deploys(d) /\ deployer[d].kind # "install" => authority = deployer[d].kind
       /\ deployer[d].pc = "switching" /\ deployer'[d].pc = "idle" /\ active' > Len(revisions) =>
            Of(active).commit = revisions'[active'].commit /\ revisions'[active'].valid
=============================================================================
