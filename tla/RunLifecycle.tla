---------------------------- MODULE RunLifecycle ----------------------------
(***************************************************************************)
(* What a workflow run is to its users: the steps of the trigger, one after*)
(* the other, each skipped or executed, and one outcome.  WorkflowEngine   *)
(* implements it (trigger_runs and workflow_step_runs, seen from outside). *)
(***************************************************************************)
EXTENDS Naturals

CONSTANTS Runs, NumSteps, MeterLimit

VARIABLES
  status,  \* the run's status
  done,    \* how many of its steps succeeded or were skipped
  active,  \* the next step is being executed
  used     \* executions begun, over all runs

abstractVars == <<status, done, active, used>>

Init ==
  /\ status = [r \in Runs |-> "none"]
  /\ done = [r \in Runs |-> 0]
  /\ active = [r \in Runs |-> FALSE]
  /\ used = 0

Accept(r) ==
  /\ status[r] = "none"
  /\ status' = [status EXCEPT ![r] = "running"]
  /\ UNCHANGED <<done, active, used>>

\* The next step begins: a unit of the meter pays for it.
Begin(r) ==
  /\ status[r] = "running" /\ ~active[r] /\ done[r] < NumSteps
  /\ used < MeterLimit
  /\ active' = [active EXCEPT ![r] = TRUE]
  /\ used' = used + 1
  /\ UNCHANGED <<status, done>>

\* The step that is executed succeeds, or the next one is skipped.
Advance(r) ==
  /\ status[r] = "running" /\ done[r] < NumSteps
  /\ done' = [done EXCEPT ![r] = @ + 1]
  /\ active' = [active EXCEPT ![r] = FALSE]
  /\ UNCHANGED <<status, used>>

Succeed(r) ==
  /\ status[r] = "running" /\ ~active[r] /\ done[r] = NumSteps
  /\ status' = [status EXCEPT ![r] = "succeeded"]
  /\ UNCHANGED <<done, active, used>>

\* A failure or a deadline ends a run at any time, one sweep several of them.
Abort(R) ==
  /\ \A r \in R : status[r] = "running"
  /\ \E outcome \in [R -> {"failed", "timed_out"}] :
       status' = [r \in Runs |-> IF r \in R THEN outcome[r] ELSE status[r]]
  /\ active' = [r \in Runs |-> active[r] /\ r \notin R]
  /\ UNCHANGED <<done, used>>

Next ==
  \/ \E r \in Runs : Accept(r) \/ Begin(r) \/ Advance(r) \/ Succeed(r)
  \/ \E R \in SUBSET Runs : Abort(R)

Spec == Init /\ [][Next]_abstractVars
=============================================================================
