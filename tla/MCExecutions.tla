----------------------------- MODULE MCExecutions -----------------------------
(***************************************************************************)
(* Runs to the end, with what their executions are given: to a small       *)
(* instance of Executions this adds the engine and the workflows it runs,  *)
(* as parts of their own.                                                  *)
(***************************************************************************)
EXTENDS Executions, Sequences, TLC

CONSTANTS NoRun, NoEngine

\* Each launch of the execution is in a process of its own.
Home == "m1" :> "p1" @@ "m2" :> "p2"

VARIABLES
  enRun, enStep, enExec, enOverdue, enDue, enWakeup, enHolder, enUsed,
  enNotify, enCondition, enConnected, enWorker, enFaults,
  cwDocument, cwVerdict, cwPrompt, cwInput, cwRun, cwStep, cwLaunch

En == INSTANCE WorkflowEngine WITH
    Runs <- {"r1"}, NumSteps <- 2, Engines <- {"e1"}, Redelivered <- {},
    MeterLimit <- 2, Conditions <- {"run", "skip", "error"}, MaxFaults <- 2,
    run <- enRun, step <- enStep, exec <- enExec, overdue <- enOverdue,
    due <- enDue, wakeup <- enWakeup, holder <- enHolder, used <- enUsed,
    notify <- enNotify, condition <- enCondition, connected <- enConnected,
    worker <- enWorker, faults <- enFaults

Cw == INSTANCE CompiledWorkflows WITH
    Environments <- {"a", "b"}, Agents <- {"a", "b"},
    Prompts <- {[kind |-> "string", text |-> "long"]}, document <- cwDocument,
    verdict <- cwVerdict, prompt <- cwPrompt, input <- cwInput, run <- cwRun,
    step <- cwStep, launch <- cwLaunch

varsEn ==
  <<enRun, enStep, enExec, enOverdue, enDue, enWakeup, enHolder, enUsed,
    enNotify, enCondition, enConnected, enWorker, enFaults>>
varsCw ==
  <<cwDocument, cwVerdict, cwPrompt, cwInput, cwRun, cwStep, cwLaunch>>

\* The chosen part starts in any of its initial states, the others in one.
MCInit ==
  /\ Init
  /\ En!Init
  /\ part = "engine" \/ enCondition = [r \in {"r1"} |-> [i \in 1 .. 2 |-> "run"]]
  /\ Cw!Init

\* Only the chosen part takes steps.
MCNext ==
  \/ Next /\ UNCHANGED <<varsEn, varsCw>>
  \/ part = "engine" /\ En!Next /\ UNCHANGED <<vars, varsCw>>
  \/ part = "workflows" /\ Cw!Next /\ UNCHANGED <<vars, varsEn>>

\* The engine keeps polling; what else goes on is the premise of its properties.
MCSpec ==
  /\ MCInit /\ [][MCNext]_<<vars, varsEn, varsCw>>
  /\ Fairness
  /\ \A e \in {"e1"} : WF_varsEn(part = "engine" /\ En!Working(e))

-----------------------------------------------------------------------------
\* What the compiler accepts can be run: the environment and the agent that a step selects
\* exist and the arrival's text has no say in them, an expression fails a run only over an
\* output that is not there, and a prompt has the context it names; every variable has its
\* type (config/compiler.ts, workflows/engine.ts).
AcceptedWorkflowsRun ==
  /\ part = "engine" => En!TypeOK
  /\ part = "workflows" => /\ Cw!TypeOK
                           /\ Cw!SelectionsExist /\ Cw!PromptHasNoAuthority
                           /\ Cw!FailsForCause /\ Cw!ContextIsGiven

\* An accepted run ends: by its deadline at the latest, by its own work when agents
\* answer, and without waiting for ever for a sprite (workflows/engine.ts,
\* daemons/lifecycle.ts).
RunsEnd ==
  /\ En!EveryRunEnds /\ En!UndisturbedRunEnds
  /\ part = "sprites" => Sp!QueuedIsServed

=============================================================================
