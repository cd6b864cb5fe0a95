------------------------------ MODULE Executions ------------------------------
(***************************************************************************)
(* What the executions of runs are given, and what goes with them again:   *)
(* their credentials and the sprites they run on. A behaviour chooses one  *)
(* part at the start and only that part takes steps. The constants of a    *)
(* part have its prefix.                                                   *)
(***************************************************************************)
EXTENDS Integers, FiniteSets

CONSTANTS
  None,
  auLaunches, auProcs, auHosts, auHome, auMaxFaults,
  spMaxMachines, spExecutions, spMaxSaves, spMaxFaults

VARIABLES
  part,
  auActive, auProc, auFlag, auEnding, auLaunch, auFound, auReturned,
  auRecord, auLease, auToken, auDue, auTimers, auRelease, auFaults, auAstray,
  spUp, spMachine, spKey, spDaemon, spJob, spRetiring, spThere, spScript,
  spTasks, spExec, spOn, spReady, spHeld, spHold, spRecreated, spOwed,
  spAction, spRefresh, spSaves, spFaults, spRevived, spStray, spEarly,
  spCut, spLost

Au == INSTANCE ExecutionAuthority WITH
    Launches <- auLaunches, Procs <- auProcs, Hosts <- auHosts,
    Home <- auHome, MaxFaults <- auMaxFaults, active <- auActive,
    proc <- auProc, flag <- auFlag, ending <- auEnding, launch <- auLaunch,
    found <- auFound, returned <- auReturned, record <- auRecord,
    lease <- auLease, token <- auToken, due <- auDue, timers <- auTimers,
    release <- auRelease, faults <- auFaults, astray <- auAstray

Sp == INSTANCE Sprites WITH
    MaxMachines <- spMaxMachines, Executions <- spExecutions,
    MaxSaves <- spMaxSaves, MaxFaults <- spMaxFaults, up <- spUp,
    machine <- spMachine, key <- spKey, daemon <- spDaemon, job <- spJob,
    retiring <- spRetiring, there <- spThere, script <- spScript,
    tasks <- spTasks, exec <- spExec, on <- spOn, ready <- spReady,
    held <- spHeld, hold <- spHold, recreated <- spRecreated,
    owed <- spOwed, action <- spAction, refresh <- spRefresh,
    saves <- spSaves, faults <- spFaults, revived <- spRevived,
    stray <- spStray, early <- spEarly, cut <- spCut, lost <- spLost

varsAu ==
  <<auActive, auProc, auFlag, auEnding, auLaunch, auFound, auReturned,
    auRecord, auLease, auToken, auDue, auTimers, auRelease, auFaults,
    auAstray>>
varsSp ==
  <<spUp, spMachine, spKey, spDaemon, spJob, spRetiring, spThere, spScript,
    spTasks, spExec, spOn, spReady, spHeld, spHold, spRecreated, spOwed,
    spAction, spRefresh, spSaves, spFaults, spRevived, spStray, spEarly,
    spCut, spLost>>

vars ==
  <<part, auActive, auProc, auFlag, auEnding, auLaunch, auFound, auReturned,
    auRecord, auLease, auToken, auDue, auTimers, auRelease, auFaults,
    auAstray, spUp, spMachine, spKey, spDaemon, spJob, spRetiring, spThere,
    spScript, spTasks, spExec, spOn, spReady, spHeld, spHold, spRecreated,
    spOwed, spAction, spRefresh, spSaves, spFaults, spRevived, spStray,
    spEarly, spCut, spLost>>

OthersAu ==
  <<part, spUp, spMachine, spKey, spDaemon, spJob, spRetiring, spThere,
    spScript, spTasks, spExec, spOn, spReady, spHeld, spHold, spRecreated,
    spOwed, spAction, spRefresh, spSaves, spFaults, spRevived, spStray,
    spEarly, spCut, spLost>>
OthersSp ==
  <<part, auActive, auProc, auFlag, auEnding, auLaunch, auFound, auReturned,
    auRecord, auLease, auToken, auDue, auTimers, auRelease, auFaults,
    auAstray>>

\* What the parts ask of their constants.
ASSUME ExecutionsAssumption == Au!AuthorityAssumption /\ Sp!SpritesAssumption

\* MCExecutions adds the engine and the workflows, which have their own variables.
Parts == {"authority", "sprites", "engine", "workflows"}

Init ==
  /\ part \in Parts
  /\ Au!Init
  /\ Sp!Init

\* Only the chosen part takes steps.
Next ==
  \/ part = "authority" /\ Au!Next /\ UNCHANGED OthersAu
  \/ part = "sprites" /\ Sp!Next /\ UNCHANGED OthersSp

\* The calls that credentials and sprites need return.
Fairness ==
  /\ WF_varsAu(part = "authority" /\ Au!Proceeding)
  /\ \A m \in Sp!Machines : /\ WF_varsSp(part = "sprites" /\ Sp!JobStep(m))
                           /\ WF_varsSp(part = "sprites" /\ Sp!RetireStep(m))
  /\ \A x \in spExecutions : /\ WF_varsSp(part = "sprites" /\ Sp!DispatchStep(x))
                            /\ WF_varsSp(part = "sprites" /\ Sp!EndStep(x))
                            /\ WF_varsSp(part = "sprites" /\ Sp!RefreshStep(x))
  /\ WF_varsSp(part = "sprites" /\ Sp!Start)

Spec == Init /\ [][Next]_vars /\ Fairness

-----------------------------------------------------------------------------
\* Every variable of every part has its type.
TypeOK == Au!TypeOK /\ Sp!TypeOK

\* What work needs is good: the credentials of a live execution, the same for every
\* launch of it and with a lease that outlives a crash; and one machine per trigger
\* (execution-authority/index.ts, daemons/sprites/activation.ts).
WorkIsEquipped ==
  /\ TypeOK
  /\ Au!CommittedIsGood /\ Au!OneEnvironment /\ Au!TokensAreLeased
  /\ Sp!OneMachine

\* What work had ends with it: credentials are revoked without waiting for their deadline,
\* the hold on a sprite is released, the key and the sprite of a machine that is over go
\* (execution-authority/index.ts, daemons/lifecycle.ts).
WorkLeavesNothing == Au!NothingIsKept /\ Sp!HoldsEnd /\ Sp!RemainsEnd

=============================================================================
