-------------------------------- MODULE Sprites --------------------------------
(***************************************************************************)
(* The machine that a trigger rents (src/src/daemons/sprites/activation.ts *)
(* and src/src/daemons/lifecycle.ts): made in the background, enrolled     *)
(* with a key of its own, held awake for each execution, retired when its  *)
(* trigger changes. All machines of a trigger have one name at the         *)
(* provider, and calls go by that name. One process, which may crash.      *)
(***************************************************************************)
EXTENDS Integers, FiniteSets

CONSTANTS MaxMachines, \* bound: activations
          Executions,
          MaxSaves,    \* bound: retirements and revocations by people
          MaxFaults,   \* bound: failed calls, runs cut off, crashes
          None

VARIABLES
  up,
  machine,   \* machines.status
  key,       \* the enrolment key of each
  daemon,    \* the daemon enrolled as that machine
  job,       \* where the activation of a machine, or its recovery, is
  retiring,  \* where its retirement or the cleanup after a revocation is
  there,     \* the sprite at the provider: the machine that it was created for
  script,    \* the connect scripts that run on it
  tasks,     \* executions that hold it awake
  exec,      \* "queued", "live" or "over"
  on,        \* launchIntent.environment.machineId of a row
  ready,     \* the machine that prepareSpriteDispatch answered with
  held,      \* heldSpriteExecutions
  hold,      \* pendingHolds: the machine, and whether the call was answered
  recreated, \* recreatedSpriteExecutions, and the activation
  owed,      \* whose end is still to be followed up
  action,    \* the hub action of an execution that ended
  refresh,   \* refreshSpriteHolds of an execution
  saves, faults,
  revived,   \* history: machines set alive after they were terminated
  stray,     \* machines whose daemon enrolled as a machine of its own
  early,     \* history: machines that were retired while they were spawning
  cut,       \* history: machines with a call lost to a failure or a crash
  lost       \* history: executions whose hold or release was

Machines == 1 .. MaxMachines

SpritesAssumption ==
  MaxMachines \in Nat /\ MaxSaves \in Nat /\ MaxFaults \in Nat /\ None \notin Machines

provider == <<there, script, tasks>>
memory == <<ready, held, hold, recreated, refresh>>
work == <<exec, on, owed, action>>
rows == <<machine, key, daemon>>
history == <<revived, stray, early, cut, lost>>
vars == <<up, rows, job, retiring, provider, memory, work, saves, faults, history>>

Jobs == {"none", "begun", "leftover", "create", "connect", "connecting", "failing", "revoking",
         "destroying", "found", "done"}

TypeOK ==
  /\ up \in BOOLEAN
  /\ machine \in [Machines -> {"none", "spawning", "alive", "terminated"}]
  /\ key \in [Machines -> {"none", "live", "revoked"}]
  /\ daemon \in [Machines -> {"none", "active", "revoked"}]
  /\ job \in [Machines -> Jobs]
  /\ retiring \in [Machines -> {"none", "destroy", "revoke", "terminate", "fail", "ending", "remove"}]
  /\ there \in Machines \cup {None} /\ script \subseteq Machines /\ tasks \subseteq Executions
  /\ exec \in [Executions -> {"queued", "live", "over"}]
  /\ on \in [Executions -> Machines \cup {None}] /\ ready \in [Executions -> Machines \cup {None}]
  /\ held \in [Executions -> Machines \cup {None}]
  /\ hold \in [Executions -> [m : Machines, answered : BOOLEAN] \cup {None}]
  /\ recreated \in [Executions -> Machines \cup {None}] /\ owed \subseteq Executions
  /\ action \in [Executions -> {"none", "open", "done"}]
  /\ refresh \in [Executions -> {"none", "asked", "held"}]
  /\ saves \in 0 .. MaxSaves /\ faults \in 0 .. MaxFaults
  /\ revived \subseteq Machines /\ stray \subseteq Machines /\ early \subseteq Machines /\ cut \subseteq Machines
  /\ lost \subseteq Executions

Init ==
  /\ up = TRUE
  /\ machine = [m \in Machines |-> "none"] /\ key = [m \in Machines |-> "none"]
  /\ daemon = [m \in Machines |-> "none"] /\ job = [m \in Machines |-> "none"]
  /\ retiring = [m \in Machines |-> "none"]
  /\ there = None /\ script = {} /\ tasks = {}
  /\ exec = [x \in Executions |-> "queued"] /\ on = [x \in Executions |-> None]
  /\ ready = [x \in Executions |-> None] /\ held = [x \in Executions |-> None]
  /\ hold = [x \in Executions |-> None] /\ recreated = [x \in Executions |-> None] /\ owed = {}
  /\ action = [x \in Executions |-> "none"] /\ refresh = [x \in Executions |-> "none"]
  /\ saves = 0 /\ faults = 0 /\ revived = {} /\ stray = {} /\ early = {} /\ cut = {} /\ lost = {}

Live == {m \in Machines : machine[m] \in {"spawning", "alive"}}
Fault == faults < MaxFaults /\ faults' = faults + 1
To(m, at) == job' = [job EXCEPT ![m] = at]
Ends(m) == machine' = [machine EXCEPT ![m] = "terminated"]

\* provider.destroy: whatever has the name goes, with its scripts and tasks.
Destroyed == there' = None /\ script' = {} /\ tasks' = {}

-----------------------------------------------------------------------------
(* Activation: its job *)

NextRow(m) == {k \in Machines : job[k] = "none"} = m .. MaxMachines

\* The trigger is saved, and none of its machines is live.
Save ==
  /\ up /\ saves < MaxSaves /\ Live = {} /\ saves' = saves + 1
  /\ \E m \in Machines : NextRow(m) /\ To(m, "begun")
  /\ UNCHANGED <<up, rows, retiring, provider, memory, work, faults, history>>

\* Mutant: only what was read before is looked at.
AlwaysVacant == TRUE
\* insertSpriteMachine looks again under the trigger's lock.
Vacant == Live = {}

\* The key is made, then the row; the key is given back when another was first.
Insert(m) ==
  /\ up /\ job[m] = "begun"
  /\ IF Vacant
     THEN /\ machine' = [machine EXCEPT ![m] = "spawning"]
          /\ key' = [key EXCEPT ![m] = "live"] /\ To(m, "leftover")
     ELSE /\ key' = [key EXCEPT ![m] = "revoked"] /\ To(m, "done") /\ UNCHANGED machine
  /\ UNCHANGED <<up, daemon, retiring, provider, memory, work, saves, faults, history>>

DestroyLeftover(m) ==
  /\ up /\ job[m] = "leftover" /\ To(m, "create") /\ Destroyed
  /\ UNCHANGED <<up, rows, retiring, memory, work, saves, faults, history>>

\* A name that is taken is refused.
Create(m) ==
  /\ up /\ job[m] = "create"
  /\ IF there = None THEN there' = m /\ To(m, "connect") /\ UNCHANGED <<script, tasks>>
     ELSE To(m, "failing") /\ UNCHANGED provider
  /\ UNCHANGED <<up, rows, retiring, memory, work, saves, faults, history>>

\* Everything from the prefix to the connect script, which runs on what has the name.
Connect(m) ==
  /\ up /\ job[m] = "connect"
  /\ IF there = None THEN To(m, "failing") /\ UNCHANGED script
     ELSE To(m, "connecting") /\ script' = script \cup {m}
  /\ UNCHANGED <<up, rows, retiring, there, tasks, memory, work, saves, faults, history>>

\* enrollDaemon, called by the script, whatever became of the process that started it
Enroll(m) ==
  /\ m \in script /\ key[m] = "live" /\ daemon[m] = "none" /\ m \notin stray
  /\ IF machine[m] = "spawning"
     THEN /\ machine' = [machine EXCEPT ![m] = "alive"] /\ key' = [key EXCEPT ![m] = "revoked"]
          /\ daemon' = [daemon EXCEPT ![m] = "active"] /\ UNCHANGED stray
     ELSE stray' = stray \cup {m} /\ UNCHANGED rows
  /\ script' = script \ {m}
  /\ UNCHANGED <<up, job, retiring, there, tasks, memory, work, saves, faults, revived, early, cut, lost>>

\* The script is through, or was destroyed with the sprite.
Connected(m) ==
  /\ up /\ job[m] = "connecting" /\ m \notin script
  /\ To(m, IF daemon[m] # "none" \/ m \in stray THEN "done" ELSE "failing")
  /\ UNCHANGED <<up, rows, retiring, provider, memory, work, saves, faults, history>>

\* Nothing is given back when the row is not inserted.
InsertFails(m) ==
  /\ up /\ job[m] = "begun" /\ Fault /\ To(m, "done")
  /\ key' \in {key, [key EXCEPT ![m] = "live"]} /\ cut' = cut \cup {m}
  /\ UNCHANGED <<up, machine, daemon, retiring, provider, memory, work, saves, revived, stray,
                 early, lost>>

\* A call fails; the connect script may be through nevertheless, or refused the key.
CallFails(m) ==
  /\ up /\ job[m] \in {"create", "connect", "connecting"} /\ Fault
  /\ To(m, "failing")
  /\ UNCHANGED <<up, rows, retiring, provider, memory, work, saves, history>>

\* The catch block, in three steps
Terminate(m) ==
  /\ up /\ job[m] = "failing" /\ Ends(m) /\ To(m, "revoking")
  /\ UNCHANGED <<up, key, daemon, retiring, provider, memory, work, saves, faults, history>>

\* Mutant: the key outlives the failure.
Unrevoked(m) == key
KeyRevoked(m) == [key EXCEPT ![m] = "revoked"]

RevokeKey(m) ==
  /\ up /\ job[m] = "revoking" /\ key' = KeyRevoked(m) /\ To(m, "destroying")
  /\ UNCHANGED <<up, machine, daemon, retiring, provider, memory, work, saves, faults, history>>

DestroyFailed(m) ==
  /\ up /\ job[m] = "destroying" /\ To(m, "done") /\ Destroyed
  /\ UNCHANGED <<up, rows, retiring, memory, work, saves, faults, history>>

\* destroyBestEffort: the sprite stays when the provider fails.
DestroyFails(m) ==
  /\ up /\ job[m] \in {"leftover", "destroying"} /\ Fault
  /\ To(m, IF job[m] = "leftover" THEN "create" ELSE "done")
  /\ cut' = cut \cup ({there} \ {None})
  /\ UNCHANGED <<up, rows, retiring, provider, memory, work, saves, revived, stray, early, lost>>

-----------------------------------------------------------------------------
(* Retirement *)

\* A save or a recreation that found no execution on the machine; or its daemon is
\* revoked by somebody.
Retire(m) ==
  /\ up /\ saves < MaxSaves /\ m \in Live /\ retiring[m] = "none"
  /\ \/ /\ \A x \in Executions : exec[x] = "live" => on[x] # m
        /\ retiring' = [retiring EXCEPT ![m] = "destroy"] /\ UNCHANGED daemon
     \/ /\ daemon[m] = "active"
        /\ retiring' = [retiring EXCEPT ![m] = "fail"]
        /\ daemon' = [daemon EXCEPT ![m] = "revoked"]
  /\ saves' = saves + 1
  /\ early' = IF machine[m] = "spawning" THEN early \cup {m} ELSE early
  /\ UNCHANGED <<up, machine, key, job, provider, memory, work, faults, revived, stray, cut, lost>>

\* retireSprite
DestroyRetired(m) ==
  /\ up /\ retiring[m] = "destroy" /\ retiring' = [retiring EXCEPT ![m] = "revoke"]
  /\ Destroyed
  /\ UNCHANGED <<up, rows, job, memory, work, saves, faults, history>>

RevokeRetired(m) ==
  /\ up /\ retiring[m] = "revoke" /\ retiring' = [retiring EXCEPT ![m] = "terminate"]
  /\ daemon' = [daemon EXCEPT ![m] = IF @ = "active" THEN "revoked" ELSE @]
  /\ UNCHANGED <<up, machine, key, job, provider, memory, work, saves, faults, history>>

TerminateRetired(m) ==
  /\ up /\ retiring[m] = "terminate" /\ retiring' = [retiring EXCEPT ![m] = "none"]
  /\ Ends(m)
  /\ UNCHANGED <<up, key, daemon, job, provider, memory, work, saves, faults, history>>

\* failPendingExecutionsForDisconnectedMachine: its executions end, then it does, then
\* what has its name is destroyed.
FailExecutions(m) ==
  /\ up /\ retiring[m] = "fail" /\ retiring' = [retiring EXCEPT ![m] = "ending"]
  /\ LET failed == {x \in Executions : exec[x] = "live" /\ on[x] = m} IN
     /\ exec' = [x \in Executions |-> IF x \in failed THEN "over" ELSE exec[x]]
     /\ owed' = owed \cup failed
  /\ UNCHANGED <<up, rows, job, provider, memory, on, action, saves, faults, history>>

EndDisconnected(m) ==
  /\ up /\ retiring[m] = "ending" /\ retiring' = [retiring EXCEPT ![m] = "remove"]
  /\ Ends(m)
  /\ UNCHANGED <<up, key, daemon, job, provider, memory, work, saves, faults, history>>

RemoveDisconnected(m) ==
  /\ up /\ retiring[m] = "remove" /\ retiring' = [retiring EXCEPT ![m] = "none"]
  /\ Destroyed
  /\ UNCHANGED <<up, rows, job, memory, work, saves, faults, history>>

-----------------------------------------------------------------------------
(* prepareSpriteDispatch *)

Forgotten(x) ==
  /\ held' = [held EXCEPT ![x] = None] /\ recreated' = [recreated EXCEPT ![x] = None]

\* Without a machine one is made, once; the next time the run fails.
Recreate(x) ==
  /\ up /\ exec[x] = "queued" /\ ready[x] = None /\ Live = {} /\ recreated[x] = None
  /\ \E m \in Machines : NextRow(m) /\ To(m, "begun") /\ recreated' = [recreated EXCEPT ![x] = m]
  /\ UNCHANGED <<up, rows, retiring, provider, ready, held, hold, refresh, work, saves, faults,
                 history>>

Unavailable(x) ==
  /\ up /\ exec[x] = "queued" /\ ready[x] = None /\ Live = {} /\ recreated[x] # None
  /\ job[recreated[x]] # "begun"
  /\ Forgotten(x) /\ exec' = [exec EXCEPT ![x] = "over"] /\ owed' = owed \cup {x}
  /\ UNCHANGED <<up, rows, job, retiring, provider, ready, hold, refresh, on, action, saves, faults,
                 history>>

\* A machine that is alive is held first.
Prepare(x) ==
  /\ up /\ exec[x] = "queued" /\ ready[x] = None
  /\ \E m \in Live :
       /\ machine[m] = "alive" /\ daemon[m] # "none"
       /\ IF held[x] # None THEN ready' = [ready EXCEPT ![x] = m] /\ UNCHANGED hold
          ELSE /\ hold[x] = None /\ UNCHANGED ready
               /\ hold' = [hold EXCEPT ![x] = [m |-> m, answered |-> FALSE]]
  /\ UNCHANGED <<up, rows, job, retiring, provider, held, recreated, refresh, work, saves, faults,
                 history>>

\* The engine inserts the execution, if its run is still running.
Launch(x) ==
  /\ up /\ ready[x] # None /\ ready' = [ready EXCEPT ![x] = None]
  /\ IF exec[x] = "queued"
     THEN exec' = [exec EXCEPT ![x] = "live"] /\ on' = [on EXCEPT ![x] = ready[x]]
     ELSE UNCHANGED <<exec, on>>
  /\ UNCHANGED <<up, rows, job, retiring, provider, held, hold, recreated, refresh, owed, action,
                 saves, faults, history>>

\* holdSprite: the provider's answer. Without the sprite the machine is over.
HoldLands(x) ==
  /\ up /\ hold[x] # None /\ ~hold[x].answered
  /\ hold' = [hold EXCEPT ![x].answered = TRUE]
  /\ IF there # None
     THEN /\ tasks' = tasks \cup {x} /\ held' = [held EXCEPT ![x] = hold[x].m]
          /\ UNCHANGED machine
     ELSE Ends(hold[x].m) /\ UNCHANGED <<tasks, held>>
  /\ UNCHANGED <<up, key, daemon, job, retiring, there, script, ready, recreated, refresh, work,
                 saves, faults, history>>

\* The hold times out, and may have been granted.
HoldTimesOut(x) ==
  /\ up /\ hold[x] # None /\ ~hold[x].answered /\ Fault
  /\ hold' = [hold EXCEPT ![x] = None]
  /\ \/ there # None /\ tasks' = tasks \cup {x} /\ lost' = lost \cup {x}
     \/ UNCHANGED <<tasks, lost>>
  /\ UNCHANGED <<up, rows, job, retiring, there, script, ready, held, recreated, refresh, work,
                 saves, revived, stray, early, cut>>

\* releaseHeldSprite
Released(x) ==
  IF held[x] = None THEN UNCHANGED <<tasks, held, recreated>>
  ELSE tasks' = tasks \ {x} /\ Forgotten(x)

\* Mutant: a hold is not looked at again after it landed.
NeverOver(x) == FALSE
\* the run is read again
RunOver(x) == exec[x] = "over"

HoldChecked(x) ==
  /\ up /\ hold[x] # None /\ hold[x].answered
  /\ hold' = [hold EXCEPT ![x] = None]
  /\ IF RunOver(x) THEN Released(x) ELSE UNCHANGED <<tasks, held, recreated>>
  /\ UNCHANGED <<up, rows, job, retiring, there, script, ready, refresh, work, saves, faults,
                 history>>

-----------------------------------------------------------------------------
(* The end of an execution, and its hold *)

\* A run is over before it has an execution (its deadline), or the execution ends, with
\* or without a hub action.
End(x) ==
  /\ \/ exec[x] = "queued" /\ Fault /\ UNCHANGED action
     \/ /\ exec[x] = "live" /\ UNCHANGED faults
        /\ \E a \in {"none", "open"} : action' = [action EXCEPT ![x] = a]
  /\ up /\ exec' = [exec EXCEPT ![x] = "over"] /\ owed' = owed \cup {x}
  /\ UNCHANGED <<up, rows, job, retiring, provider, memory, on, saves, history>>

\* notifyWorkflowRunTerminal, of a step without an execution
FollowRun(x) ==
  /\ up /\ x \in owed /\ on[x] = None /\ owed' = owed \ {x}
  /\ Released(x)
  /\ UNCHANGED <<up, rows, job, retiring, there, script, ready, hold, refresh, exec, on, action,
                 saves, faults, history>>

\* releaseSpriteHold, after the attempt of the hub action where there is one. It goes
\* by the row, so it needs no memory.
FollowExecution(x) ==
  /\ up /\ x \in owed /\ on[x] # None /\ owed' = owed \ {x}
  /\ tasks' = tasks \ {x} /\ Forgotten(x)
  /\ action' = [action EXCEPT ![x] = IF @ = "open" /\ daemon[on[x]] = "active" THEN "done" ELSE @]
  /\ UNCHANGED <<up, rows, job, retiring, there, script, ready, hold, refresh, exec, on, saves,
                 faults, history>>

\* The release is not answered, or the action is not.
ReleaseFails(x) ==
  /\ up /\ x \in owed /\ (on[x] # None \/ held[x] # None) /\ Fault
  /\ owed' = owed \ {x} /\ Forgotten(x) /\ lost' = lost \cup {x}
  /\ UNCHANGED <<up, rows, job, retiring, provider, ready, hold, refresh, exec, on, action, saves,
                 revived, stray, early, cut>>

\* refreshSpriteHolds, of one execution
Refresh(x) ==
  /\ up /\ refresh[x] = "none" /\ exec[x] = "live" /\ machine[on[x]] = "alive"
  /\ refresh' = [refresh EXCEPT ![x] = "asked"]
  /\ UNCHANGED <<up, rows, job, retiring, provider, ready, held, hold, recreated, work, saves,
                 faults, history>>

RefreshLands(x) ==
  /\ up /\ refresh[x] = "asked"
  /\ IF there = None THEN refresh' = [refresh EXCEPT ![x] = "none"] /\ UNCHANGED tasks
     ELSE refresh' = [refresh EXCEPT ![x] = "held"] /\ tasks' = tasks \cup {x}
  /\ UNCHANGED <<up, rows, job, retiring, there, script, ready, held, hold, recreated, work, saves,
                 faults, history>>

RefreshChecked(x) ==
  /\ up /\ refresh[x] = "held" /\ refresh' = [refresh EXCEPT ![x] = "none"]
  /\ IF exec[x] = "over"
     THEN IF action[x] # "open" THEN tasks' = tasks \ {x} /\ Forgotten(x)
          ELSE UNCHANGED <<tasks, held, recreated>>
     ELSE held' = [held EXCEPT ![x] = on[x]] /\ UNCHANGED <<tasks, recreated>>
  /\ UNCHANGED <<up, rows, job, retiring, there, script, ready, hold, work, saves, faults, history>>

-----------------------------------------------------------------------------
(* The process *)

\* What was under way is lost, with the memory.
Crash ==
  /\ up /\ Fault /\ up' = FALSE
  /\ job' = [m \in Machines |-> IF job[m] = "none" THEN "none" ELSE "done"]
  /\ retiring' = [m \in Machines |-> "none"]
  /\ ready' = [x \in Executions |-> None] /\ held' = [x \in Executions |-> None]
  /\ hold' = [x \in Executions |-> None] /\ refresh' = [x \in Executions |-> "none"]
  /\ recreated' = [x \in Executions |-> None]
  /\ owed' = {x \in owed : on[x] = None}
  /\ cut' = cut \cup {m \in Machines : retiring[m] # "none" \/ job[m] \in {"revoking", "destroying"}}
                \cup {m \in Machines : job[m] \notin {"none", "done"} /\ machine[m] = "terminated"}
  /\ lost' = lost \cup {x \in Executions : exec[x] # "live"}
  /\ UNCHANGED <<rows, provider, exec, on, action, saves, revived, stray, early>>

\* Mutant: what was being made is left to the next save.
LeftSpawning(m) == FALSE
Interrupted(m) == machine[m] = "spawning"

\* recoverSprites begins with the machines that are spawning, recoverPendingHubActions
\* with the open actions.
Start ==
  /\ ~up /\ up' = TRUE
  /\ job' = [m \in Machines |-> IF Interrupted(m) THEN "found" ELSE job[m]]
  /\ owed' = owed \cup {x \in Executions : action[x] = "open"}
  /\ UNCHANGED <<rows, retiring, provider, memory, exec, on, action, saves, faults, history>>

\* reconcileSpawningSprites: it is alive when its daemon enrolled, whatever happened
\* since it was found; else it is over, and its key and sprite go.
Recover(m) ==
  /\ up /\ job[m] = "found"
  /\ IF daemon[m] # "none"
     THEN /\ machine' = [machine EXCEPT ![m] = "alive"] /\ To(m, "done")
          /\ revived' = IF machine[m] = "terminated" THEN revived \cup {m} ELSE revived
     ELSE Ends(m) /\ To(m, "revoking") /\ UNCHANGED revived
  /\ UNCHANGED <<up, key, daemon, retiring, provider, memory, work, saves, faults, stray, early, cut, lost>>

-----------------------------------------------------------------------------
JobStep(m) ==
  \/ Insert(m) \/ DestroyLeftover(m) \/ Create(m) \/ Connect(m) \/ Enroll(m) \/ Connected(m)
  \/ Terminate(m) \/ RevokeKey(m) \/ DestroyFailed(m) \/ Recover(m)
RetireStep(m) ==
  \/ DestroyRetired(m) \/ RevokeRetired(m) \/ TerminateRetired(m)
  \/ FailExecutions(m) \/ EndDisconnected(m) \/ RemoveDisconnected(m)
DispatchStep(x) ==
  Recreate(x) \/ Unavailable(x) \/ Prepare(x) \/ Launch(x) \/ HoldLands(x) \/ HoldChecked(x)
EndStep(x) == FollowRun(x) \/ FollowExecution(x)
RefreshStep(x) == RefreshLands(x) \/ RefreshChecked(x)

Next ==
  \/ \E m \in Machines : JobStep(m) \/ InsertFails(m) \/ CallFails(m) \/ DestroyFails(m) \/ Retire(m) \/ RetireStep(m)
  \/ \E x \in Executions :
       \/ DispatchStep(x) \/ HoldTimesOut(x) \/ End(x) \/ EndStep(x) \/ ReleaseFails(x)
       \/ Refresh(x) \/ RefreshStep(x)
  \/ Save \/ Crash \/ Start

\* Calls return, the engine looks at its runs, and a process that crashed starts again.
Fairness ==
  /\ \A m \in Machines : WF_vars(JobStep(m)) /\ WF_vars(RetireStep(m))
  /\ \A x \in Executions : WF_vars(DispatchStep(x)) /\ WF_vars(EndStep(x)) /\ WF_vars(RefreshStep(x))
  /\ WF_vars(Start)

Spec == Init /\ [][Next]_vars /\ Fairness

-----------------------------------------------------------------------------
\* A trigger has one machine, however activations, retirements and restarts overlap; a
\* machine that was terminated while a restart looked at it is the exception.
OneMachine == Cardinality(Live \ revived) <= 1

\* An execution that waits for its sprite is launched or fails in the end, without
\* waiting for the deadline of its run.
QueuedIsServed == \A x \in Executions : exec[x] = "queued" ~> exec[x] # "queued"

\* No hold on a machine outlives its execution, however the two cross, save where a release, a hold or
\* the process failed, or the hub action stays open.
HoldsEnd ==
  <>[](\A x \in tasks :
         there \in Live => exec[x] # "over" \/ x \in lost \/ action[x] = "open")

\* The key of a machine that is over ends, and so does its sprite, save where a call or
\* the process failed, or a machine was retired while it was spawning.
RemainsEnd ==
  <>[](/\ \A m \in Machines : m \notin Live /\ key[m] = "live" => m \in cut \cup early
       /\ there # None => there \in Live \cup cut \cup early)
=============================================================================
