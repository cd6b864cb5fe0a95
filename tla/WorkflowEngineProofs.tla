------------------------ MODULE WorkflowEngineProofs ------------------------
(***************************************************************************)
(* What holds of WorkflowEngine for every number of runs, steps, engines,  *)
(* faults and redeliveries: the type invariant, the consistency of runs,   *)
(* steps and executions, and that no outcome is ever rewritten.            *)
(* Then what holds while one process runs the engine, however many runs    *)
(* and steps there are: no single fault loses an execution that was not    *)
(* handed off, and as long as none is lost steps run in order, agents work *)
(* for live runs only and a run succeeds after its last step.              *)
(***************************************************************************)
EXTENDS WorkflowEngine, FiniteSetTheorems, TLAPS

(* The rows of the database and what an engine keeps between its calls *)
DbType ==
  /\ run \in [Runs -> RunStatus]
  /\ step \in [Runs -> [Steps -> StepStatus]]
  /\ exec \in [Runs -> [Steps -> ExecStatus]]
  /\ wakeup \in [Runs -> {"none", "unleased", "leased", "lapsed"}]
  /\ holder \in [Runs -> Engines \cup {NoEngine}]
  /\ notify \in [Runs -> BOOLEAN]

WorkerType == [pc : Position, at : Runs \cup {NoRun}, recovering : BOOLEAN,
               seen : [Steps -> StepStatus], next : Steps \cup {0},
               late : BOOLEAN, visited : SUBSET Runs]

RestType ==
  /\ overdue \in [Runs -> BOOLEAN]
  /\ due \in [Runs -> [Steps -> BOOLEAN]]
  /\ used \in Nat
  /\ condition \in [Runs -> [Steps -> Conditions]]
  /\ connected \in Engines \cup {NoEngine}
  /\ worker \in [Engines -> WorkerType]
  /\ faults \in 0..MaxFaults

(* A run with its steps and executions.  The first part says what Accept may
   rely on, the second why no step is left to fail after its run has ended
   well, the third why an execution and its step end together. *)
RunInv(r) ==
  /\ run[r] = "none" => /\ wakeup[r] = "none"
                        /\ \A i \in Steps : step[r][i] = "pending" /\ exec[r][i] = "none"
  /\ run[r] = "running" => \A i \in Steps : step[r][i] \notin {"failed", "timed_out"}
  /\ notify[r] <=> run[r] \in EndedRun
  /\ \A i \in Steps :
       /\ exec[r][i] = "none" => step[r][i] # "succeeded"
       /\ exec[r][i] # "none" => step[r][i] \notin {"pending", "skipped"}
       /\ exec[r][i] \in EndedExec => step[r][i] \in EndedStep

DbInv == DbType /\ \A r \in Runs : RunInv(r)

(* The control position of an engine determines which locals it may use. *)
Processing == Position \ {"idle", "recover", "claim"}
Chosen == {"build", "defer", "create", "dispatch", "settle", "skip", "fail", "deny"}

WorkerOk(w) ==
  /\ w.at # NoRun => run[w.at] # "none"
  /\ w.pc \in Processing => w.at \in Runs
  /\ w.pc \in Chosen => w.next \in Steps

WorkerInv == \A e \in Engines : WorkerOk(worker[e])

IInv == DbInv /\ RestType /\ WorkerInv /\ used <= MeterLimit

(* What no step does to the rows *)
Final ==
  \A r \in Runs :
    /\ run[r] \in EndedRun => run'[r] = run[r]
    /\ \A i \in Steps :
         /\ step[r][i] \in EndedStep => step'[r][i] = step[r][i]
         /\ exec[r][i] \in EndedExec => exec'[r][i] = exec[r][i]

(* A transaction keeps the rows consistent, rewrites no outcome and removes no run. *)
Kept == DbInv' /\ Final /\ \A r \in Runs : run[r] # "none" => run'[r] # "none"

-----------------------------------------------------------------------------
(* The transactions *)

\* A transaction that leaves the rows alone keeps them.
LEMMA UnchangedKeeps ==
  ASSUME DbInv, UNCHANGED <<runVars, lease>>
  PROVE  Kept
BY DEF Kept, DbInv, DbType, RunInv, Final, runVars, lease

\* Writing only the wakeup of existing runs keeps the rows.
LEMMA WakeupKeeps ==
  ASSUME DbInv, UNCHANGED runVars,
         wakeup' \in [Runs -> {"none", "unleased", "leased", "lapsed"}],
         holder' \in [Runs -> Engines \cup {NoEngine}],
         \A r \in Runs : run[r] = "none" => wakeup'[r] = "none"
  PROVE  Kept
BY DEF Kept, DbInv, DbType, RunInv, Final, runVars

\* Timing out running runs and live executions keeps the rows.
LEMMA TimeOutKeeps ==
  ASSUME DbInv, NEW R, NEW late, TimeOut(R, late),
         \A r \in R : run[r] = "running",
         \A r \in Runs, i \in Steps : <<r, i>> \in late => exec[r][i] \in LiveExec
  PROVE  Kept
<1>1. DbType'
  BY DEF DbInv, DbType, TimeOut, RunStatus, StepStatus, ExecStatus
<1>2. ASSUME NEW r \in Runs PROVE RunInv(r)'
  <2>. USE RunInv(r) DEF DbInv, DbType, TimeOut, RunInv, RunStatus
  <2>1. /\ run'[r] = "none" => run[r] = "none"
        /\ run'[r] = "running" =>
             /\ run[r] = "running" /\ r \notin R
             /\ \A i \in Steps : <<r, i>> \notin late
        /\ notify'[r] <=> run'[r] \in EndedRun
    BY DEF EndedRun
  <2>2. run'[r] = "none" => /\ wakeup'[r] = "none"
                            /\ \A i \in Steps : step'[r][i] = "pending" /\ exec'[r][i] = "none"
    BY <2>1 DEF OpenStep, LiveExec
  <2>3. run'[r] = "running" => \A i \in Steps : step'[r][i] \notin {"failed", "timed_out"}
    BY <2>1
  <2>4. ASSUME NEW i \in Steps
        PROVE  /\ exec'[r][i] = "none" => step'[r][i] # "succeeded"
               /\ exec'[r][i] # "none" => step'[r][i] \notin {"pending", "skipped"}
               /\ exec'[r][i] \in EndedExec => step'[r][i] \in EndedStep
    BY DEF StepStatus, ExecStatus, LiveExec, OpenStep, EndedStep, EndedExec
  <2>. QED BY <2>1, <2>2, <2>3, <2>4
<1>3. Final
  BY DEF DbInv, DbType, TimeOut, Final, LiveExec, OpenStep, EndedRun, EndedStep, EndedExec
<1>4. \A r \in Runs : run[r] # "none" => run'[r] # "none"
  BY DEF TimeOut
<1>. QED BY <1>1, <1>2, <1>3, <1>4 DEF Kept, DbInv

\* Settling the step of an execution that ends, or that ended before, keeps the rows.
LEMMA FinishStepKeeps ==
  ASSUME DbInv, NEW r \in Runs, NEW i \in Steps, NEW outcome \in EndedExec,
         exec[r][i] \in LiveExec \cup {outcome},
         exec' = [exec EXCEPT ![r][i] = outcome],
         FinishStep(r, i, outcome)
  PROVE  Kept
<1>1. DbType'
  <2>. outcome \in ExecStatus /\ outcome \in StepStatus
    BY DEF EndedExec, ExecStatus, StepStatus
  <2>4. exec' \in [Runs -> [Steps -> ExecStatus]]
    BY DEF DbInv, DbType
  <2>1. step' \in [Runs -> [Steps -> StepStatus]]
    <3>1. CASE step[r][i] \in EndedStep
      BY <3>1 DEF DbInv, DbType, FinishStep
    <3>2. CASE step[r][i] \notin EndedStep
      <4>1. step' = [step EXCEPT ![r][i] = outcome]
        BY <3>2 DEF FinishStep
      <4>. QED BY <4>1 DEF DbInv, DbType
    <3>. QED BY <3>1, <3>2
  <2>2. run' \in [Runs -> RunStatus] /\ notify' \in [Runs -> BOOLEAN]
    BY DEF DbInv, DbType, FinishStep, RunStatus, EndedExec
  <2>3. /\ wakeup' \in [Runs -> {"none", "unleased", "leased", "lapsed"}]
        /\ holder' \in [Runs -> Engines \cup {NoEngine}]
    BY DEF DbInv, DbType, FinishStep, Wake, DeleteWakeup, lease
  <2>. QED BY <2>1, <2>2, <2>3, <2>4 DEF DbType
<1>2. ASSUME NEW q \in Runs PROVE RunInv(q)'
  BY DEF DbInv, DbType, RunInv, FinishStep, Wake, DeleteWakeup, lease, RunStatus, StepStatus,
         ExecStatus, LiveExec, EndedRun, EndedStep, EndedExec
<1>3. Final
  BY DEF DbInv, DbType, FinishStep, Final, LiveExec, EndedRun, EndedStep, EndedExec
<1>4. \A q \in Runs : run[q] # "none" => run'[q] # "none"
  BY DEF DbInv, DbType, FinishStep, EndedExec
<1>. QED BY <1>1, <1>2, <1>3, <1>4 DEF Kept, DbInv

\* Ending a live execution, in time or not, keeps the rows.
LEMMA CompleteKeeps ==
  ASSUME DbInv, NEW r \in Runs, NEW i \in Steps, NEW outcome \in EndedExec,
         exec[r][i] \in LiveExec, Complete(r, i, outcome)
  PROVE  Kept
<1>1. CASE run[r] = "running" /\ overdue[r]
  <2>1. TimeOut({r}, {})
    BY <1>1 DEF Complete
  <2>. QED BY <1>1, <2>1, TimeOutKeeps
<1>2. CASE ~(run[r] = "running" /\ overdue[r]) /\ StepDue(r, i)
  <2>1. TimeOut({}, {<<r, i>>})
    BY <1>2 DEF Complete
  <2>. QED BY <2>1, TimeOutKeeps
<1>3. CASE ~(run[r] = "running" /\ overdue[r]) /\ ~StepDue(r, i)
  BY <1>3, FinishStepKeeps DEF Complete
<1>. QED BY <1>1, <1>2, <1>3

\* Failing a run with one of its steps keeps the rows.
LEMMA FailRunKeeps ==
  ASSUME DbInv, NEW r \in Runs, NEW i \in Steps, NEW status \in {"failed", "timed_out"},
         FailRun(r, i, status), exec' = exec
  PROVE  Kept
<1>1. DbType'
  <2>1. step' \in [Runs -> [Steps -> StepStatus]]
    <3>1. CASE step' = step
      BY <3>1 DEF DbInv, DbType
    <3>2. CASE step' = [step EXCEPT ![r][i] = IF step[r][i] \in OpenStep THEN status
                                              ELSE step[r][i]]
      <4>1. (IF step[r][i] \in OpenStep THEN status ELSE step[r][i]) \in StepStatus
        BY DEF DbInv, DbType, StepStatus
      <4>. QED BY <3>2, <4>1 DEF DbInv, DbType
    <3>. QED BY <3>1, <3>2 DEF FailRun
  <2>2. /\ run' \in [Runs -> RunStatus]
        /\ notify' \in [Runs -> BOOLEAN]
        /\ wakeup' \in [Runs -> {"none", "unleased", "leased", "lapsed"}]
        /\ holder' \in [Runs -> Engines \cup {NoEngine}]
    BY DEF DbInv, DbType, FailRun, DeleteWakeup, RunStatus
  <2>. QED BY <2>1, <2>2 DEF DbInv, DbType
<1>2. ASSUME NEW q \in Runs PROVE RunInv(q)'
  <2>0. RunInv(q) /\ RunInv(r) /\ DbType
    BY DEF DbInv
  <2>1. CASE run[r] # "running" \/ q # r
    <3>1. /\ run'[q] = run[q] /\ step'[q] = step[q] /\ exec'[q] = exec[q]
          /\ notify'[q] = notify[q] /\ wakeup'[q] = wakeup[q]
      BY <2>0, <2>1 DEF DbType, FailRun, DeleteWakeup
    <3>. QED BY <2>0, <3>1 DEF RunInv
  <2>2. CASE run[r] = "running" /\ q = r
    <3>1. run'[r] = status /\ notify'[r] = TRUE
      BY <2>0, <2>2 DEF DbType, FailRun
    <3>2. \A j \in Steps : \/ step'[r][j] = step[r][j]
                           \/ step[r][j] \in OpenStep /\ step'[r][j] = status /\ j = i
      BY <2>0, <2>2 DEF DbType, FailRun
    <3>3. step[r][i] = "pending" => exec[r][i] = "none"
      BY <2>0 DEF RunInv
    <3>. QED BY <2>0, <2>2, <3>1, <3>2, <3>3 DEF RunInv, OpenStep, EndedRun, EndedStep, EndedExec
  <2>. QED BY <2>1, <2>2
<1>3. Final
  BY DEF DbInv, DbType, FailRun, Final, OpenStep, EndedRun, EndedStep, EndedExec
<1>4. \A q \in Runs : run[q] # "none" => run'[q] # "none"
  BY DEF DbInv, DbType, FailRun
<1>. QED BY <1>1, <1>2, <1>3, <1>4 DEF Kept, DbInv
\* Replacing a live status by a live one keeps the rows.
LEMMA LiveKeeps ==
  ASSUME DbInv, NEW r \in Runs, NEW i \in Steps, NEW status \in LiveExec,
         exec[r][i] \in LiveExec, exec' = [exec EXCEPT ![r][i] = status],
         UNCHANGED <<run, step, notify, lease>>
  PROVE  Kept
<1>1. DbType'
  <2>. status \in ExecStatus
    BY DEF LiveExec, ExecStatus
  <2>. QED BY DEF DbInv, DbType, lease
<1>2. ASSUME NEW q \in Runs PROVE RunInv(q)'
  BY DEF DbInv, DbType, RunInv, lease, LiveExec, EndedExec
<1>3. Final
  BY DEF DbInv, DbType, Final, LiveExec, EndedExec
<1>. QED BY <1>1, <1>2, <1>3 DEF Kept, DbInv

-----------------------------------------------------------------------------
(* The engines' locals *)

\* A run, once accepted, stays: what the other engines hold stays valid.
LEMMA WorkersKeep ==
  ASSUME worker \in [Engines -> WorkerType], WorkerInv, Kept, UNCHANGED worker
  PROVE  WorkerInv'
BY DEF WorkerInv, WorkerOk, WorkerType, Kept

\* An engine may replace its locals by others that are valid.
LEMMA WorkerKeeps ==
  ASSUME worker \in [Engines -> WorkerType], WorkerInv, Kept,
         NEW e \in Engines, NEW w \in WorkerType, WorkerOk(w),
         worker' = [worker EXCEPT ![e] = w]
  PROVE  worker' \in [Engines -> WorkerType] /\ WorkerInv'
<1>1. worker' \in [Engines -> WorkerType]
  OBVIOUS
<1>2. ASSUME NEW f \in Engines PROVE WorkerOk(worker[f])'
  <2>1. worker'[f] \in WorkerType /\ WorkerOk(worker'[f])
    BY DEF WorkerInv
  <2>. QED BY <2>1 DEF WorkerOk, WorkerType, Kept
<1>. QED BY <1>1, <1>2 DEF WorkerInv

\* It may go on with the run and step it has.
LEMMA GotoKeeps ==
  ASSUME worker \in [Engines -> WorkerType], WorkerInv, Kept,
         NEW e \in Engines, NEW pc \in Position, Goto(e, pc),
         pc \in Processing => worker[e].pc \in Processing,
         pc \in Chosen => worker[e].pc \in Chosen
  PROVE  worker' \in [Engines -> WorkerType] /\ WorkerInv'
<1>. DEFINE w == [worker[e] EXCEPT !.pc = pc]
<1>1. w \in WorkerType /\ WorkerOk(w)
  BY DEF WorkerInv, WorkerOk, WorkerType
<1>2. worker' = [worker EXCEPT ![e] = w]
  BY DEF Goto
<1>. QED BY <1>1, <1>2, WorkerKeeps

\* It may forget them and look for the next wakeup.
LEMMA NextWakeupKeeps ==
  ASSUME worker \in [Engines -> WorkerType], WorkerInv, Kept,
         NEW e \in Engines, NEW deferred \in SUBSET Runs, NextWakeup(e, deferred)
  PROVE  worker' \in [Engines -> WorkerType] /\ WorkerInv'
<1>. DEFINE w == [IdleWorker EXCEPT !.pc = "claim", !.visited = worker[e].visited \cup deferred]
<1>1. w \in WorkerType /\ WorkerOk(w)
  BY DEF WorkerOk, WorkerType, IdleWorker, Unseen, Position, Processing, Chosen, StepStatus
<1>2. worker' = [worker EXCEPT ![e] = w]
  BY DEF NextWakeup
<1>. QED BY <1>1, <1>2, WorkerKeeps
-----------------------------------------------------------------------------
(* The invariant *)

\* The invariant holds when the database is empty.
LEMMA InitIInv == Init => IInv
<1>. SUFFICES ASSUME Init PROVE IInv
  OBVIOUS
<1>1. DbInv
  BY DEF Init, DbInv, DbType, RunInv, RunStatus, StepStatus, ExecStatus, EndedRun, EndedExec
<1>2. IdleWorker \in WorkerType /\ WorkerOk(IdleWorker)
  BY DEF IdleWorker, Unseen, WorkerType, WorkerOk, Position, Processing, Chosen, StepStatus
<1>3. RestType /\ WorkerInv /\ used <= MeterLimit
  BY <1>2, LimitsAssumption DEF Init, RestType, WorkerInv
<1>. QED BY <1>1, <1>3 DEF IInv

\* What a step establishes besides the rows.
RestKept == RestType' /\ WorkerInv' /\ used' <= MeterLimit

\* The steps of the world leave the engines alone.
LEMMA WorldKeeps ==
  ASSUME IInv, NEW r \in Runs,
         \/ Accept(r) \/ RunDeadlinePasses(r) \/ LeaseLapses(r)
         \/ \E i \in Steps : \/ AgentStarts(r, i) \/ StepDeadlinePasses(r, i)
                            \/ \E outcome \in EndedExec : AgentEnds(r, i, outcome)
  PROVE  Kept /\ RestKept
<1>. USE DEF IInv
<1>1. CASE Accept(r)
  <2>1. Kept
    BY <1>1 DEF Accept, Wake, Kept, DbInv, DbType, RunInv, Final, RunStatus, EndedRun
  <2>2. RestType' /\ used' <= MeterLimit /\ UNCHANGED worker
    BY <1>1 DEF Accept, RestType, clock, world
  <2>. QED BY <2>1, <2>2, WorkersKeep DEF RestKept, RestType
<1>2. CASE RunDeadlinePasses(r)
  <2>1. Kept
    BY <1>2, UnchangedKeeps DEF RunDeadlinePasses
  <2>2. RestType' /\ used' <= MeterLimit /\ UNCHANGED worker
    BY <1>2 DEF RunDeadlinePasses, RestType, world
  <2>. QED BY <2>1, <2>2, WorkersKeep DEF RestKept, RestType
<1>3. CASE LeaseLapses(r)
  <2>1. Kept
    BY <1>3, WakeupKeeps DEF LeaseLapses, DbInv, DbType, RunInv
  <2>2. RestType' /\ used' <= MeterLimit /\ UNCHANGED worker
    BY <1>3 DEF LeaseLapses, RestType, world, clock
  <2>. QED BY <2>1, <2>2, WorkersKeep DEF RestKept, RestType
<1>4. ASSUME NEW i \in Steps, AgentStarts(r, i) PROVE Kept /\ RestKept
  <2>1. Kept
    BY <1>4, LiveKeeps DEF AgentStarts, LiveExec
  <2>2. RestType' /\ used' <= MeterLimit /\ UNCHANGED worker
    BY <1>4 DEF AgentStarts, RestType, world, clock
  <2>. QED BY <2>1, <2>2, WorkersKeep DEF RestKept, RestType
<1>5. ASSUME NEW i \in Steps, StepDeadlinePasses(r, i) PROVE Kept /\ RestKept
  <2>1. Kept
    BY <1>5, UnchangedKeeps DEF StepDeadlinePasses
  <2>2. RestType' /\ used' <= MeterLimit /\ UNCHANGED worker
    BY <1>5 DEF StepDeadlinePasses, RestType, world
  <2>. QED BY <2>1, <2>2, WorkersKeep DEF RestKept, RestType
<1>6. ASSUME NEW i \in Steps, NEW outcome \in EndedExec, AgentEnds(r, i, outcome)
      PROVE  Kept /\ RestKept
  <2>1. Kept
    BY <1>6, CompleteKeeps DEF AgentEnds
  <2>2. RestType' /\ used' <= MeterLimit /\ UNCHANGED worker
    BY <1>6 DEF AgentEnds, RestType, world, clock
  <2>. QED BY <2>1, <2>2, WorkersKeep DEF RestKept, RestType
<1>. QED BY <1>1, <1>2, <1>3, <1>4, <1>5, <1>6

\* Connections, crashes and rejected calls leave the rows alone.
LEMMA FaultsKeep ==
  ASSUME IInv, NEW e \in Engines, Disconnect \/ Connect(e) \/ Crash(e) \/ Rejected(e)
  PROVE  Kept /\ RestKept
<1>. USE DEF IInv
<1>0. Kept
  BY UnchangedKeeps DEF Disconnect, Connect, Crash, Rejected
<1>f. faults < MaxFaults => faults + 1 \in 0..MaxFaults
  BY LimitsAssumption DEF RestType
<1>1. CASE Disconnect
  <2>1. RestType' /\ used' <= MeterLimit /\ UNCHANGED worker
    BY <1>1, <1>f DEF Disconnect, RestType, clock
  <2>. QED BY <1>0, <2>1, WorkersKeep DEF RestKept, RestType
<1>2. CASE Connect(e)
  <2>1. RestType' /\ used' <= MeterLimit /\ UNCHANGED worker
    BY <1>2 DEF Connect, RestType, clock
  <2>. QED BY <1>0, <2>1, WorkersKeep DEF RestKept, RestType
<1>3. CASE Crash(e)
  <2>1. IdleWorker \in WorkerType /\ WorkerOk(IdleWorker)
    BY DEF IdleWorker, Unseen, WorkerType, WorkerOk, Position, Processing, Chosen, StepStatus
  <2>2. worker' \in [Engines -> WorkerType] /\ WorkerInv'
    BY <1>0, <1>3, <2>1, WorkerKeeps DEF Crash, RestType
  <2>3. RestType' /\ used' <= MeterLimit
    BY <1>3, <1>f, <2>2 DEF Crash, RestType, clock
  <2>. QED BY <1>0, <2>2, <2>3 DEF RestKept
<1>4. CASE Rejected(e)
  <2>1. worker' \in [Engines -> WorkerType] /\ WorkerInv'
    <3>1. NextWakeup(e, {})
      BY <1>4 DEF Rejected, NextWakeup
    <3>. QED BY <1>0, <3>1, NextWakeupKeeps DEF RestType
  <2>2. RestType' /\ used' <= MeterLimit
    BY <1>4, <1>f, <2>1 DEF Rejected, RestType, clock
  <2>. QED BY <1>0, <2>1, <2>2 DEF RestKept
<1>. QED BY <1>1, <1>2, <1>3, <1>4
\* The steps of an engine up to the choice of a step: they write wakeups,
\* deadlines and the steps of executions that have ended.
LEMMA PreparingKeeps ==
  ASSUME IInv, NEW e \in Engines,
         \/ SweepDeadlines(e) \/ RecoverWakeups(e) \/ NothingToClaim(e)
         \/ \E r \in Runs : Claim(e, r)
         \/ LoadRun(e) \/ Reconcile(e) \/ ReloadRun(e) \/ ListSteps(e) \/ FindLive(e)
         \/ ChooseStep(e)
  PROVE  Kept /\ RestKept
<1>. USE DEF IInv
<1>w. worker \in [Engines -> WorkerType] /\ WorkerInv
  BY DEF RestType
<1>1. CASE SweepDeadlines(e)
  <2>1. Kept
    BY <1>1, TimeOutKeeps DEF SweepDeadlines, OverdueRuns, LateSteps
  <2>2. worker' \in [Engines -> WorkerType] /\ WorkerInv'
    BY <1>1, <1>w, <2>1, GotoKeeps DEF SweepDeadlines, Position, Processing, Chosen
  <2>. QED BY <1>1, <2>1, <2>2 DEF SweepDeadlines, RestKept, RestType, clock, world
<1>2. CASE RecoverWakeups(e)
  <2>1. Kept
    BY <1>2, WakeupKeeps DEF RecoverWakeups, DbInv, DbType, RunInv
  <2>2. worker' \in [Engines -> WorkerType] /\ WorkerInv'
    BY <1>2, <1>w, <2>1, GotoKeeps DEF RecoverWakeups, Position, Processing, Chosen
  <2>. QED BY <1>2, <2>1, <2>2 DEF RecoverWakeups, RestKept, RestType, clock, world
<1>3. CASE NothingToClaim(e)
  <2>1. Kept
    BY <1>3, UnchangedKeeps DEF NothingToClaim
  <2>2. IdleWorker \in WorkerType /\ WorkerOk(IdleWorker)
    BY DEF IdleWorker, Unseen, WorkerType, WorkerOk, Position, Processing, Chosen, StepStatus
  <2>3. worker' \in [Engines -> WorkerType] /\ WorkerInv'
    BY <1>3, <1>w, <2>1, <2>2, WorkerKeeps DEF NothingToClaim
  <2>. QED BY <1>3, <2>1, <2>3 DEF NothingToClaim, RestKept, RestType, clock, world
<1>4. ASSUME NEW r \in Runs, Claim(e, r) PROVE Kept /\ RestKept
  <2>1. Kept
    <3>1. wakeup[r] # "none" /\ UNCHANGED runVars
      BY <1>4 DEF Claim, Claimable
    <3>2. wakeup' = [wakeup EXCEPT ![r] = "leased"] /\ holder' = [holder EXCEPT ![r] = e]
      BY <1>4 DEF Claim
    <3>3. \A q \in Runs : run[q] = "none" => wakeup'[q] = "none"
      BY <3>1, <3>2 DEF DbInv, DbType, RunInv
    <3>. QED BY <3>1, <3>2, <3>3, WakeupKeeps DEF DbInv, DbType
  <2>. DEFINE w == [worker[e] EXCEPT !.pc = "load", !.at = r, !.recovering = (wakeup[r] = "lapsed")]
  <2>2. w \in WorkerType
    <3>1. worker[e] \in WorkerType /\ "load" \in Position
      BY <1>w DEF Position
    <3>. QED BY <3>1 DEF WorkerType
  <2>3. WorkerOk(w)
    <3>1. run[r] # "none"
      BY <1>4 DEF Claim, Claimable, DbInv, RunInv
    <3>. QED BY <1>w, <3>1 DEF WorkerOk, WorkerType, Chosen
  <2>4. worker' = [worker EXCEPT ![e] = w]
    BY <1>4 DEF Claim
  <2>5. worker' \in [Engines -> WorkerType] /\ WorkerInv'
    BY <1>w, <2>1, <2>2, <2>3, <2>4, WorkerKeeps
  <2>. QED BY <1>4, <2>1, <2>5 DEF Claim, RestKept, RestType, clock, world
<1>5. CASE LoadRun(e)
  <2>1. Kept
    BY <1>5, UnchangedKeeps DEF LoadRun
  <2>2. worker' \in [Engines -> WorkerType] /\ WorkerInv'
    BY <1>5, <1>w, <2>1, GotoKeeps DEF LoadRun, Position, Processing, Chosen
  <2>. QED BY <1>5, <2>1, <2>2 DEF LoadRun, RestKept, RestType, clock, world
<1>6. CASE Reconcile(e)
  <2>. DEFINE r == worker[e].at
              stale == {i \in Steps : step[r][i] = "running" /\ exec[r][i] \in EndedExec}
  <2>0. r \in Runs /\ worker[e].pc = "reconcile"
    BY <1>6, <1>w DEF Reconcile, WorkerInv, WorkerOk, Processing, Position
  <2>1. CASE stale = {}
    <3>1. Kept
      BY <1>6, <2>1, UnchangedKeeps DEF Reconcile, runVars
    <3>2. worker' \in [Engines -> WorkerType] /\ WorkerInv'
      BY <1>6, <1>w, <2>0, <2>1, <3>1, GotoKeeps DEF Reconcile, Position, Processing, Chosen
    <3>. QED BY <1>6, <3>1, <3>2 DEF Reconcile, RestKept, RestType, clock, world
  <2>2. CASE stale # {}
    <3>1. PICK i \in stale : FinishStep(r, i, exec[r][i])
      BY <1>6, <2>2 DEF Reconcile
    <3>2. exec' = [exec EXCEPT ![r][i] = exec[r][i]]
      BY <1>6, <2>0 DEF Reconcile, DbInv, DbType
    <3>3. Kept
      BY <2>0, <3>1, <3>2, FinishStepKeeps
    <3>4. worker' = worker
      BY <1>6, <2>2 DEF Reconcile
    <3>. QED BY <1>6, <1>w, <3>3, <3>4, WorkersKeep DEF Reconcile, RestKept, RestType, clock, world
  <2>. QED BY <2>1, <2>2
<1>7. CASE ReloadRun(e)
  <2>1. Kept
    BY <1>7, UnchangedKeeps DEF ReloadRun
  <2>2. worker' \in [Engines -> WorkerType] /\ WorkerInv'
    BY <1>7, <1>w, <2>1, GotoKeeps DEF ReloadRun, Position, Processing, Chosen
  <2>. QED BY <1>7, <2>1, <2>2 DEF ReloadRun, RestKept, RestType, clock, world
<1>8. CASE ListSteps(e)
  <2>0. Kept
    BY <1>8, UnchangedKeeps DEF ListSteps
  <2>. DEFINE r == worker[e].at
              ended == {i \in Steps : step[r][i] \in {"failed", "timed_out"}}
  <2>1. worker[e] \in WorkerType /\ WorkerOk(worker[e]) /\ r \in Runs /\ step[r] \in [Steps -> StepStatus]
    BY <1>8, <1>w DEF ListSteps, WorkerInv, WorkerOk, Processing, Position, DbInv, DbType
  <2>2. CASE ended = {}
    <3>. DEFINE w == [worker[e] EXCEPT !.seen = step[r], !.pc = "live"]
    <3>1. w \in WorkerType /\ WorkerOk(w)
      BY <2>1 DEF WorkerType, WorkerOk, Position, Processing, Chosen
    <3>2. worker' = [worker EXCEPT ![e] = w]
      BY <1>8, <2>2 DEF ListSteps
    <3>3. worker' \in [Engines -> WorkerType] /\ WorkerInv'
      BY <1>w, <2>0, <3>1, <3>2, WorkerKeeps
    <3>. QED BY <1>8, <2>0, <3>3 DEF ListSteps, RestKept, RestType, clock, world
  <2>3. CASE ended # {}
    <3>1. PICK i \in First(ended) :
            worker' = [worker EXCEPT ![e].seen = step[r], ![e].next = i, ![e].pc = "fail"]
      BY <1>8, <2>3 DEF ListSteps
    <3>. DEFINE w == [worker[e] EXCEPT !.seen = step[r], !.next = i, !.pc = "fail"]
    <3>2. w \in WorkerType /\ WorkerOk(w)
      BY <2>1 DEF First, WorkerType, WorkerOk, Position, Processing, Chosen
    <3>3. worker' = [worker EXCEPT ![e] = w]
      BY <3>1
    <3>4. worker' \in [Engines -> WorkerType] /\ WorkerInv'
      BY <1>w, <2>0, <3>2, <3>3, WorkerKeeps
    <3>. QED BY <1>8, <2>0, <3>4 DEF ListSteps, RestKept, RestType, clock, world
  <2>. QED BY <2>2, <2>3
<1>9. CASE FindLive(e)
  <2>1. Kept
    BY <1>9, UnchangedKeeps DEF FindLive
  <2>2. worker' \in [Engines -> WorkerType] /\ WorkerInv'
    BY <1>9, <1>w, <2>1, GotoKeeps DEF FindLive, Position, Processing, Chosen
  <2>. QED BY <1>9, <2>1, <2>2 DEF FindLive, RestKept, RestType, clock, world
<1>10. CASE ChooseStep(e)
  <2>0. Kept
    BY <1>10, UnchangedKeeps DEF ChooseStep
  <2>1. worker[e] \in WorkerType /\ WorkerOk(worker[e]) /\ worker[e].at \in Runs
        /\ overdue[worker[e].at] \in BOOLEAN
    BY <1>10, <1>w DEF ChooseStep, WorkerInv, WorkerOk, Processing, Position, RestType
  <2>2. CASE Candidates(e) = {}
    <3>1. worker' \in [Engines -> WorkerType] /\ WorkerInv'
      BY <1>10, <1>w, <2>0, <2>2, GotoKeeps DEF ChooseStep, Position, Processing, Chosen
    <3>. QED BY <1>10, <2>0, <3>1 DEF ChooseStep, RestKept, RestType, clock, world
  <2>3. CASE Candidates(e) # {}
    <3>0. PICK i \in First(Candidates(e)) : \E outcome \in Outcomes(e, i) :
            worker' = [worker EXCEPT
              ![e].next = i,
              ![e].late = overdue[worker[e].at],
              ![e].pc = IF outcome = "run" THEN "build"
                        ELSE IF outcome = "skip" THEN "skip" ELSE "fail"]
      BY <1>10, <2>3 DEF ChooseStep
    <3>1. PICK outcome \in Outcomes(e, i) :
            worker' = [worker EXCEPT
              ![e].next = i,
              ![e].late = overdue[worker[e].at],
              ![e].pc = IF outcome = "run" THEN "build"
                        ELSE IF outcome = "skip" THEN "skip" ELSE "fail"]
      BY <3>0
    <3>. DEFINE pc == IF outcome = "run" THEN "build"
                      ELSE IF outcome = "skip" THEN "skip" ELSE "fail"
                w == [worker[e] EXCEPT !.next = i, !.late = overdue[worker[e].at], !.pc = pc]
    <3>2. i \in Steps
      BY DEF First, Candidates
    <3>3. pc \in Position
      BY DEF Position
    <3>4. w \in WorkerType /\ WorkerOk(w)
      BY <2>1, <3>2, <3>3 DEF WorkerType, WorkerOk
    <3>5. worker' = [worker EXCEPT ![e] = w]
      BY <3>1
    <3>6. worker' \in [Engines -> WorkerType] /\ WorkerInv'
      BY <1>w, <2>0, <3>4, <3>5, WorkerKeeps
    <3>. QED BY <1>10, <2>0, <3>6 DEF ChooseStep, RestKept, RestType, clock, world
  <2>. QED BY <2>2, <2>3
<1>. QED BY <1>1, <1>2, <1>3, <1>4, <1>5, <1>6, <1>7, <1>8, <1>9, <1>10
\* Creating the execution of a step: none of the ways out disturbs the rows.
LEMMA CreateExecutionKeeps ==
  ASSUME IInv, NEW e \in Engines, CreateExecution(e)
  PROVE  Kept /\ RestKept
<1>. USE DEF IInv
<1>. DEFINE r == worker[e].at
            i == worker[e].next
<1>1. worker \in [Engines -> WorkerType] /\ WorkerInv /\ r \in Runs /\ i \in Steps
      /\ worker[e].pc = "create"
  BY DEF CreateExecution, RestType, WorkerInv, WorkerOk, Processing, Chosen, Position
<1>2. Kept
  <2>1. CASE UNCHANGED <<runVars, lease>>
    BY <2>1, UnchangedKeeps
  <2>2. CASE run[r] = "running" /\ TimeOut({r}, {})
    BY <2>2, TimeOutKeeps
  <2>3. CASE /\ run[r] = "running" /\ exec[r][i] = "none"
             /\ exec' = [exec EXCEPT ![r][i] = "prehandoff"]
             /\ step' = [step EXCEPT ![r][i] = "running"]
             /\ UNCHANGED <<run, notify, lease>>
    <3>1. DbType'
      BY <1>1, <2>3 DEF DbInv, DbType, lease, StepStatus, ExecStatus
    <3>2. ASSUME NEW q \in Runs PROVE RunInv(q)'
      BY <1>1, <2>3 DEF DbInv, DbType, RunInv, lease, EndedExec
    <3>3. Final
      <4>1. step[r][i] \notin EndedStep
        BY <1>1, <2>3 DEF DbInv, RunInv, EndedStep
      <4>. QED BY <1>1, <2>3, <4>1 DEF DbInv, DbType, Final, EndedExec
    <3>. QED BY <2>3, <3>1, <3>2, <3>3 DEF Kept, DbInv
  <2>. QED BY <2>1, <2>2, <2>3 DEF CreateExecution
<1>3. used' \in Nat /\ used' <= MeterLimit
  BY LimitsAssumption DEF CreateExecution, Reserve, CanReserve, RestType
<1>4. PICK pc \in {"delete", "dispatch", "settle", "deny"} : Goto(e, pc)
  BY DEF CreateExecution
<1>5. worker' \in [Engines -> WorkerType] /\ WorkerInv'
  BY <1>1, <1>2, <1>4, GotoKeeps DEF Position, Processing, Chosen
<1>. QED BY <1>2, <1>3, <1>5 DEF CreateExecution, RestKept, RestType, clock, world

\* The other steps of an engine that has chosen a step, or found none left.
LEMMA ProcessingKeeps ==
  ASSUME IInv, NEW e \in Engines,
         \/ BuildIntent(e) \/ Defer(e) \/ HandOff(e) \/ Settle(e) \/ Delete(e)
         \/ Skip(e) \/ Fail(e) \/ Finish(e)
  PROVE  Kept /\ RestKept
<1>. USE DEF IInv
<1>w. worker \in [Engines -> WorkerType] /\ WorkerInv
  BY DEF RestType
<1>f. faults < MaxFaults => faults + 1 \in 0..MaxFaults
  BY LimitsAssumption DEF RestType
<1>. DEFINE r == worker[e].at
            i == worker[e].next
<1>r. r \in Runs /\ run[r] # "none"
  BY <1>w, NamesAssumption DEF BuildIntent, Defer, HandOff, Settle, Delete, Skip, Fail, Finish,
     WorkerInv, WorkerOk, Processing, Position
<1>i. worker[e].pc \in Chosen => i \in Steps
  BY <1>w DEF WorkerInv, WorkerOk
<1>1. CASE BuildIntent(e)
  <2>1. Kept
    BY <1>1, UnchangedKeeps DEF BuildIntent
  <2>2. worker' \in [Engines -> WorkerType] /\ WorkerInv'
    BY <1>1, <1>w, <2>1, GotoKeeps DEF BuildIntent, Position, Processing, Chosen
  <2>. QED BY <1>1, <1>f, <2>1, <2>2 DEF BuildIntent, RestKept, RestType, clock
<1>2. CASE Defer(e)
  <2>1. Kept
    BY <1>2, <1>r, WakeupKeeps DEF Defer, DbInv, DbType, RunInv
  <2>2. worker' \in [Engines -> WorkerType] /\ WorkerInv'
    BY <1>2, <1>w, <1>r, <2>1, NextWakeupKeeps DEF Defer
  <2>. QED BY <1>2, <2>1, <2>2 DEF Defer, RestKept, RestType, clock, world
<1>3. CASE HandOff(e)
  <2>0. i \in Steps
    BY <1>3, <1>i DEF HandOff, Chosen
  <2>1. Kept
    <3>1. CASE /\ exec' = [exec EXCEPT ![r][i] = IF @ = "prehandoff" THEN "spawning" ELSE @]
               /\ UNCHANGED <<run, step, notify, lease, faults>>
      <4>1. CASE exec[r][i] = "prehandoff"
        <5>1. exec' = [exec EXCEPT ![r][i] = "spawning"]
          BY <3>1, <4>1
        <5>. QED BY <1>r, <2>0, <3>1, <4>1, <5>1, LiveKeeps DEF LiveExec
      <4>2. CASE exec[r][i] # "prehandoff"
        <5>1. exec' = exec
          BY <1>r, <2>0, <3>1, <4>2 DEF DbInv, DbType
        <5>. QED BY <3>1, <5>1, UnchangedKeeps DEF runVars
      <4>. QED BY <4>1, <4>2
    <3>2. CASE exec[r][i] \in LiveExec /\ Complete(r, i, "failed")
      BY <1>r, <2>0, <3>2, CompleteKeeps DEF EndedExec
    <3>. QED BY <1>3, <3>1, <3>2 DEF HandOff, LiveExec
  <2>2. worker' \in [Engines -> WorkerType] /\ WorkerInv'
    BY <1>3, <1>w, <2>1, GotoKeeps DEF HandOff, Position, Processing, Chosen
  <2>. QED BY <1>3, <1>f, <2>1, <2>2 DEF HandOff, RestKept, RestType, clock
<1>4. CASE Settle(e)
  <2>0. i \in Steps
    BY <1>4, <1>i DEF Settle, Chosen
  <2>1. Kept
    <3>1. CASE exec[r][i] \in EndedExec /\ FinishStep(r, i, exec[r][i])
      <4>1. exec' = [exec EXCEPT ![r][i] = exec[r][i]]
        BY <1>4, <1>r, <2>0 DEF Settle, DbInv, DbType
      <4>. QED BY <1>r, <2>0, <3>1, <4>1, FinishStepKeeps
    <3>2. CASE exec[r][i] \notin EndedExec
      BY <1>4, <3>2, UnchangedKeeps DEF Settle, runVars
    <3>. QED BY <1>4, <3>1, <3>2 DEF Settle
  <2>2. worker' \in [Engines -> WorkerType] /\ WorkerInv'
    BY <1>4, <1>w, <2>1, GotoKeeps DEF Settle, Position, Processing, Chosen
  <2>. QED BY <1>4, <2>1, <2>2 DEF Settle, RestKept, RestType, clock, world
<1>5. CASE Delete(e)
  <2>1. Kept
    BY <1>5, <1>r, WakeupKeeps DEF Delete, DeleteWakeup, DbInv, DbType, RunInv
  <2>2. worker' \in [Engines -> WorkerType] /\ WorkerInv'
    BY <1>5, <1>w, <2>1, NextWakeupKeeps DEF Delete
  <2>. QED BY <1>5, <2>1, <2>2 DEF Delete, RestKept, RestType, clock, world
<1>6. CASE Skip(e)
  <2>0. i \in Steps
    BY <1>6, <1>i DEF Skip, Chosen
  <2>1. Kept
    <3>1. CASE step[r][i] = "pending"
      <4>1. /\ step' = [step EXCEPT ![r][i] = "skipped"] /\ Wake(r)
            /\ UNCHANGED <<run, exec, notify>>
        BY <1>6, <3>1 DEF Skip
      <4>2. DbType'
        BY <1>r, <2>0, <4>1 DEF DbInv, DbType, Wake, StepStatus
      <4>3. ASSUME NEW q \in Runs PROVE RunInv(q)'
        BY <1>r, <2>0, <3>1, <4>1 DEF DbInv, DbType, RunInv, Wake, EndedExec, EndedStep
      <4>4. Final
        BY <1>r, <2>0, <3>1, <4>1 DEF DbInv, DbType, Final, EndedStep
      <4>. QED BY <4>1, <4>2, <4>3, <4>4 DEF Kept, DbInv
    <3>2. CASE step[r][i] # "pending"
      BY <1>6, <3>2, UnchangedKeeps DEF Skip, runVars
    <3>. QED BY <3>1, <3>2
  <2>2. worker' \in [Engines -> WorkerType] /\ WorkerInv'
    BY <1>6, <1>w, <2>1, NextWakeupKeeps DEF Skip
  <2>. QED BY <1>6, <2>1, <2>2 DEF Skip, RestKept, RestType, clock, world
<1>7. CASE Fail(e)
  <2>0. i \in Steps
    BY <1>7, <1>i DEF Fail, Chosen
  <2>1. Kept
    BY <1>7, <1>r, <2>0, FailRunKeeps DEF Fail
  <2>2. worker' \in [Engines -> WorkerType] /\ WorkerInv'
    <3>1. CASE Goto(e, "delete")
      BY <1>7, <1>w, <2>1, <3>1, GotoKeeps DEF Fail, Position, Processing, Chosen
    <3>2. CASE NextWakeup(e, {})
      BY <1>w, <2>1, <3>2, NextWakeupKeeps
    <3>. QED BY <1>7, <3>1, <3>2 DEF Fail
  <2>. QED BY <1>7, <2>1, <2>2 DEF Fail, RestKept, RestType, clock, world
<1>8. CASE Finish(e)
  <2>1. Kept
    <3>1. CASE /\ run[r] = "running"
               /\ run' = [run EXCEPT ![r] = "succeeded"]
               /\ notify' = [notify EXCEPT ![r] = TRUE]
               /\ UNCHANGED <<step, exec, lease>>
      <4>1. DbType'
        BY <1>r, <3>1 DEF DbInv, DbType, lease, RunStatus
      <4>2. ASSUME NEW q \in Runs PROVE RunInv(q)'
        BY <1>r, <3>1 DEF DbInv, DbType, RunInv, lease, EndedRun
      <4>3. Final
        BY <1>r, <3>1 DEF DbInv, DbType, Final, EndedRun
      <4>. QED BY <3>1, <4>1, <4>2, <4>3 DEF Kept, DbInv, DbType
    <3>2. CASE UNCHANGED <<runVars, lease>>
      BY <3>2, UnchangedKeeps
    <3>3. CASE FailRun(r, 1, "failed") /\ exec' = exec
      <4>1. 1 \in Steps
        BY NumStepsAssumption DEF Steps
      <4>. QED BY <1>r, <3>3, <4>1, FailRunKeeps
    <3>. QED BY <1>8, <3>1, <3>2, <3>3 DEF Finish, runVars
  <2>2. worker' \in [Engines -> WorkerType] /\ WorkerInv'
    <3>1. CASE Goto(e, "delete")
      BY <1>8, <1>w, <2>1, <3>1, GotoKeeps DEF Finish, Position, Processing, Chosen
    <3>2. CASE NextWakeup(e, {})
      BY <1>w, <2>1, <3>2, NextWakeupKeeps
    <3>. QED BY <1>8, <3>1, <3>2 DEF Finish
  <2>. QED BY <1>8, <1>f, <2>1, <2>2 DEF Finish, RestKept, RestType, clock
<1>. QED BY <1>1, <1>2, <1>3, <1>4, <1>5, <1>6, <1>7, <1>8

\* Every step keeps the invariant and rewrites no outcome.
LEMMA NextKeeps ==
  ASSUME IInv, [Next]_vars
  PROVE  IInv' /\ Final
<1>1. ASSUME NEW r \in Runs,
             \/ Accept(r) \/ RunDeadlinePasses(r) \/ LeaseLapses(r)
             \/ \E i \in Steps : \/ AgentStarts(r, i) \/ StepDeadlinePasses(r, i)
                                \/ \E outcome \in EndedExec : AgentEnds(r, i, outcome)
      PROVE  Kept /\ RestKept
  BY <1>1, WorldKeeps
<1>2. ASSUME Disconnect PROVE Kept /\ RestKept
  <2>1. connected \in Engines
    BY <1>2 DEF Disconnect, IInv, RestType
  <2>. QED BY <1>2, <2>1, FaultsKeep
<1>3. ASSUME NEW e \in Engines, Connect(e) \/ Crash(e) \/ Rejected(e)
      PROVE  Kept /\ RestKept
  BY <1>3, FaultsKeep
<1>4. ASSUME NEW e \in Engines, Working(e)
      PROVE  Kept /\ RestKept
  BY <1>4, PreparingKeeps, CreateExecutionKeeps, ProcessingKeeps DEF Working
<1>5. ASSUME UNCHANGED vars PROVE Kept /\ RestKept
  <2>1. Kept
    BY <1>5, UnchangedKeeps DEF IInv, vars, runVars, lease
  <2>. QED BY <1>5, <2>1, WorkersKeep DEF IInv, vars, RestKept, RestType
<1>6. Kept /\ RestKept
  <2>1. CASE Next
    BY <1>1, <1>2, <1>3, <1>4, <2>1 DEF Next
  <2>. QED BY <1>5, <2>1
<1>. QED BY <1>6 DEF Kept, RestKept, IInv

-----------------------------------------------------------------------------
(* Theorems *)

\* The invariant holds in every reachable state.
THEOREM Invariance == Spec => []IInv
<1>1. Init => IInv
  BY InitIInv
<1>2. IInv /\ [Next]_vars => IInv'
  BY NextKeeps
<1>. QED BY <1>1, <1>2, PTL DEF Spec

\* Every variable keeps its type.
THEOREM TypeCorrect == Spec => []TypeOK
<1>1. IInv => TypeOK
  BY DEF IInv, DbInv, DbType, RestType, WorkerType, TypeOK
<1>. QED BY <1>1, Invariance, PTL

\* An execution that has ended, by whatever transaction, has its step ended.
THEOREM ExecutionEndsStep == Spec => []EndedExecutionEndsStep
<1>1. IInv => EndedExecutionEndsStep
  BY DEF IInv, DbInv, RunInv, EndedExecutionEndsStep
<1>. QED BY <1>1, Invariance, PTL

\* A run's terminal notification is pending exactly when it has ended.
THEOREM RunEndNotified == Spec => []EndedRunIsNotified
<1>1. IInv => EndedRunIsNotified
  BY DEF IInv, DbInv, RunInv, EndedRunIsNotified
<1>. QED BY <1>1, Invariance, PTL

\* No ended run, executed step or execution ever changes its outcome, whatever
\* engines, agents, deadlines and redeliveries do and in whatever order.
THEOREM OutcomesFinal == Spec => EndedIsFinal
<1>1. IInv /\ [Next]_vars => [\A r \in Runs :
       /\ run[r] \in EndedRun => run'[r] = run[r]
       /\ \A i \in Steps :
            /\ step[r][i] \in EndedStep => step'[r][i] = step[r][i]
            /\ exec[r][i] \in EndedExec => exec'[r][i] = exec[r][i]]_vars
  BY NextKeeps DEF Final
<1>. QED BY <1>1, Invariance, PTL DEF Spec, EndedIsFinal
-----------------------------------------------------------------------------
(* The meter *)

MeterInv == IsFiniteSet(Executions) /\ used = Cardinality(Executions)

\* Ending executions makes none.
LEMMA EndingMakesNone ==
  ASSUME DbInv, NEW r \in Runs, NEW i \in Steps, NEW outcome \in EndedExec,
         \/ exec' = exec
         \/ \E R, late : TimeOut(R, late)
         \/ exec[r][i] # "none" /\ Complete(r, i, outcome)
  PROVE  Executions' = Executions
<1>1. ASSUME NEW R, NEW late, TimeOut(R, late) PROVE Executions' = Executions
  BY <1>1 DEF TimeOut, Executions, LiveExec
<1>2. CASE exec[r][i] # "none" /\ exec' = [exec EXCEPT ![r][i] = outcome]
  BY <1>2 DEF DbInv, DbType, Executions, EndedExec
<1>. QED BY <1>1, <1>2 DEF Complete, Executions

\* Only the creation of an execution changes the set of executions or the meter.
LEMMA OnlyCreationCounts ==
  ASSUME IInv, [Next]_vars
  PROVE  \/ Executions' = Executions /\ used' = used
         \/ /\ used' = used + 1
            /\ \E p \in (Runs \X Steps) \ Executions : Executions' = Executions \cup {p}
<1>. USE DEF IInv
<1>. DEFINE Same == Executions' = Executions /\ used' = used
<1>1. ASSUME UNCHANGED <<exec, used>> PROVE Same
  BY <1>1 DEF Executions
<1>2. ASSUME NEW r \in Runs, NEW i \in Steps, AgentStarts(r, i) PROVE Same
  BY <1>2 DEF AgentStarts, Executions, DbInv, DbType
<1>3. ASSUME NEW r \in Runs, NEW i \in Steps, NEW outcome \in EndedExec,
             AgentEnds(r, i, outcome)
      PROVE  Same
  BY <1>3, EndingMakesNone DEF AgentEnds, LiveExec
<1>4. ASSUME NEW e \in Engines, SweepDeadlines(e) PROVE Same
  BY <1>4 DEF SweepDeadlines, TimeOut, Executions, LiveExec
<1>5. ASSUME NEW e \in Engines, HandOff(e) PROVE Same
  <2>. DEFINE r == worker[e].at
              i == worker[e].next
  <2>1. r \in Runs /\ i \in Steps
    BY <1>5 DEF HandOff, RestType, WorkerInv, WorkerOk, Processing, Chosen, Position
  <2>2. CASE exec' = [exec EXCEPT ![r][i] = IF @ = "prehandoff" THEN "spawning" ELSE @]
    BY <1>5, <2>1, <2>2 DEF HandOff, Executions, DbInv, DbType
  <2>3. CASE exec[r][i] # "none" /\ Complete(r, i, "failed")
    BY <1>5, <2>1, <2>3, EndingMakesNone DEF HandOff, EndedExec
  <2>. QED BY <1>5, <2>2, <2>3 DEF HandOff
<1>6. ASSUME NEW e \in Engines, CreateExecution(e)
      PROVE  \/ Same
             \/ /\ used' = used + 1
                /\ \E p \in (Runs \X Steps) \ Executions : Executions' = Executions \cup {p}
  <2>. DEFINE r == worker[e].at
              i == worker[e].next
  <2>1. r \in Runs /\ i \in Steps
    BY <1>6 DEF CreateExecution, RestType, WorkerInv, WorkerOk, Processing, Chosen, Position
  <2>2. CASE /\ exec[r][i] = "none" /\ Reserve
             /\ exec' = [exec EXCEPT ![r][i] = "prehandoff"]
    <3>1. <<r, i>> \in (Runs \X Steps) \ Executions
      BY <2>1, <2>2 DEF Executions
    <3>2. Executions' = Executions \cup {<<r, i>>}
      BY <2>1, <2>2 DEF Executions, DbInv, DbType
    <3>. QED BY <2>2, <3>1, <3>2 DEF Reserve
  <2>3. CASE TimeOut({r}, {}) /\ used' = used
    BY <2>3 DEF TimeOut, Executions, LiveExec
  <2>. QED BY <1>1, <1>6, <2>2, <2>3 DEF CreateExecution, runVars
<1>7. ASSUME NEW r \in Runs, Accept(r) \/ RunDeadlinePasses(r) \/ LeaseLapses(r)
      PROVE  Same
  BY <1>1, <1>7 DEF Accept, RunDeadlinePasses, LeaseLapses, runVars
<1>8. ASSUME NEW r \in Runs, NEW i \in Steps, StepDeadlinePasses(r, i) PROVE Same
  BY <1>1, <1>8 DEF StepDeadlinePasses, runVars
<1>9. ASSUME NEW e \in Engines, Disconnect \/ Connect(e) \/ Crash(e) \/ Rejected(e)
      PROVE  Same
  BY <1>1, <1>9 DEF Disconnect, Connect, Crash, Rejected, runVars
<1>10. ASSUME NEW e \in Engines,
              \/ RecoverWakeups(e) \/ NothingToClaim(e) \/ \E r \in Runs : Claim(e, r)
              \/ LoadRun(e) \/ Reconcile(e) \/ ReloadRun(e) \/ ListSteps(e) \/ FindLive(e)
              \/ ChooseStep(e) \/ BuildIntent(e) \/ Defer(e)
              \/ Settle(e) \/ Delete(e) \/ Skip(e) \/ Fail(e) \/ Finish(e)
       PROVE  Same
  BY <1>1, <1>10 DEF RecoverWakeups, NothingToClaim, Claim, LoadRun, Reconcile, ReloadRun,
     ListSteps, FindLive, ChooseStep, BuildIntent, Defer, Settle, Delete, Skip, Fail, Finish, runVars
<1>11. ASSUME NEW e \in Engines, Working(e)
       PROVE  \/ Same
              \/ /\ used' = used + 1
                 /\ \E p \in (Runs \X Steps) \ Executions : Executions' = Executions \cup {p}
  BY <1>4, <1>5, <1>6, <1>10, <1>11 DEF Working
<1>12. CASE Disconnect
  BY <1>1, <1>12 DEF Disconnect, runVars
<1>13. CASE UNCHANGED vars
  BY <1>1, <1>13 DEF vars
<1>. QED
  <2>1. CASE Next
    BY <1>2, <1>3, <1>7, <1>8, <1>9, <1>11, <1>12, <2>1 DEF Next
  <2>. QED BY <1>13, <2>1

\* The meter counts every execution once and never exceeds the limit: neither
\* replays, denied reservations, crashes nor two engines cost a unit more.
THEOREM MeterExact == Spec => []MeterCountsExecutions
<1>1. Init => MeterInv
  <2>. SUFFICES ASSUME Init PROVE MeterInv
    OBVIOUS
  <2>1. Executions = {}
    BY DEF Init, Executions
  <2>. QED BY <2>1, FS_EmptySet DEF Init, MeterInv
<1>2. MeterInv /\ IInv /\ [Next]_vars => MeterInv'
  <2>. SUFFICES ASSUME MeterInv, IInv, [Next]_vars PROVE MeterInv'
    OBVIOUS
  <2>1. CASE Executions' = Executions /\ used' = used
    BY <2>1 DEF MeterInv
  <2>2. ASSUME used' = used + 1, NEW p \in (Runs \X Steps) \ Executions,
               Executions' = Executions \cup {p}
        PROVE  MeterInv'
    BY <2>2, FS_AddElement DEF MeterInv
  <2>. QED BY <2>1, <2>2, OnlyCreationCounts
<1>3. MeterInv /\ IInv => MeterCountsExecutions
  BY DEF MeterInv, IInv, MeterCountsExecutions
<1>. QED BY <1>1, <1>2, <1>3, Invariance, PTL DEF Spec

-----------------------------------------------------------------------------
(* One engine *)

\* One Hub process: the embedded database cannot be shared, and the engine's
\* decisions are made for a run that nobody else processes.
OneEngine == \A e, f \in Engines : e = f

Leases == {"leased", "lapsed"}
HandedOff == {"spawning", "running"}
LostStep == {"failed", "timed_out"}

\* The executions of a run: an executing step has a live execution of a running
\* run; the steps before an execution are done; a run that ends otherwise has a
\* lost step before those that never began; and a creation that a lease still
\* covers was decided by the condition.
RunInOrder(r) ==
  /\ \A i \in Steps : step[r][i] = "running" <=> exec[r][i] \in LiveExec
  /\ \A i \in Steps : exec[r][i] \in LiveExec => run[r] = "running"
  /\ \A i, j \in Steps :
       i < j /\ (exec[r][j] # "none" \/ (run[r] = "running" /\ step[r][j] = "skipped"))
         => step[r][i] \in DoneStep
  /\ run[r] = "succeeded" => \A i \in Steps : step[r][i] \in DoneStep
  /\ run[r] \in EndedRun => \A j \in Steps : step[r][j] = "pending" =>
       \E i \in Steps : i < j /\ step[r][i] \in LostStep
  /\ run[r] = "running" /\ wakeup[r] \in Leases =>
       \A i \in Steps : exec[r][i] = "prehandoff" => condition[r][i] = "run"

\* Before the engine has created an execution ...
Undecided == {"load", "reconcile", "reload", "list", "live", "choose", "build", "defer", "create"}
\* ... and after it has chosen the step, to work on it or to give it up.
Launching == {"build", "defer", "create"}
GivingUp == {"skip", "fail", "deny"}

\* What an engine may rely on while the run it works on goes on.  The listed
\* steps are the steps, but for one that has succeeded since: then the run was
\* woken again.
Listed(w, r) ==
  \A i \in Steps :
    /\ \/ w.seen[i] = step[r][i]
       \/ w.seen[i] = "running" /\ step[r][i] = "succeeded" /\ wakeup[r] \notin Leases
    /\ w.seen[i] # "pending" => \A j \in Steps : j < i => w.seen[j] \in DoneStep

WorkInOrder(w) ==
  LET r == w.at IN
  r \in Runs /\ run[r] = "running" =>
    /\ w.pc \in Undecided => \A i \in Steps : exec[r][i] = "prehandoff" => w.recovering
    /\ w.pc \in {"live", "choose"} => Listed(w, r)
    /\ w.pc \in {"choose"} \cup Launching => \A i \in Steps : exec[r][i] \notin HandedOff
    /\ w.pc \in Launching =>
         /\ \A i \in Steps : exec[r][i] = "prehandoff" => i = w.next
         /\ condition[r][w.next] = "run" \/ wakeup[r] \notin Leases
         /\ exec[r][w.next] = "none" => step[r][w.next] = "pending"
    /\ w.pc \in Launching \cup GivingUp =>
         \A i \in Steps : i < w.next => step[r][i] \in DoneStep
    /\ w.pc \in GivingUp => /\ \A i \in Steps : exec[r][i] \notin LiveExec
                            /\ step[r][w.next] = "pending"
    /\ w.pc = "finish" => \A i \in Steps : step[r][i] \in DoneStep

RowsInOrder == \A r \in Runs : RunInOrder(r)
WorkersInOrder == \A e \in Engines : WorkInOrder(worker[e])
OrderInv == RowsInOrder /\ WorkersInOrder

-----------------------------------------------------------------------------
(* The transactions *)

\* A run that goes on keeps its rows.
Same(r) == /\ run[r] = "running" /\ step'[r] = step[r] /\ exec'[r] = exec[r]
           /\ wakeup'[r] = wakeup[r]

\* At most one execution of a run is live.
LEMMA OneLive ==
  ASSUME NEW r \in Runs, RunInOrder(r), NEW i \in Steps, NEW j \in Steps,
         exec[r][i] \in LiveExec, exec[r][j] \in LiveExec
  PROVE  i = j
<1>1. Steps \subseteq Int
  BY DEF Steps
<1>2. step[r][i] \notin DoneStep /\ step[r][j] \notin DoneStep /\ exec[r][i] # "none" /\ exec[r][j] # "none"
  BY DEF RunInOrder, DoneStep, LiveExec
<1>3. ~(i < j) /\ ~(j < i)
  BY <1>2 DEF RunInOrder
<1>. QED BY <1>1, <1>3

\* Rows that stay as they are stay in order, unless a lease is taken.
LEMMA SameInOrder ==
  ASSUME NEW r \in Runs, RunInOrder(r), run'[r] = run[r], step'[r] = step[r], exec'[r] = exec[r],
         condition' = condition, wakeup'[r] \in Leases => wakeup[r] \in Leases
  PROVE  RunInOrder(r)'
BY DEF RunInOrder

\* Timing out runs and steps keeps the order.
LEMMA TimeOutInOrder ==
  ASSUME DbInv, RowsInOrder, NEW R, NEW late, TimeOut(R, late), condition' = condition,
         \A r \in Runs, i \in Steps : <<r, i>> \in late => exec[r][i] \in LiveExec
  PROVE  RowsInOrder' /\ \A r \in Runs : run'[r] = "running" => Same(r)
<1>. SUFFICES ASSUME NEW r \in Runs PROVE RunInOrder(r)' /\ (run'[r] = "running" => Same(r))
  BY DEF RowsInOrder
<1>0. RunInOrder(r) /\ RunInv(r)
  BY DEF RowsInOrder, DbInv
<1>1. CASE r \in R
  <2>1. /\ run'[r] # "running" /\ (run'[r] = "succeeded" => run[r] = "succeeded")
        /\ \A i \in Steps : /\ exec'[r][i] = IF exec[r][i] \in LiveExec THEN "failed" ELSE exec[r][i]
                            /\ step'[r][i] = IF step[r][i] \in OpenStep THEN "timed_out" ELSE step[r][i]
    BY <1>1 DEF TimeOut
  <2>2. \A i \in Steps : exec'[r][i] \notin LiveExec /\ step'[r][i] \notin OpenStep
                         /\ (step[r][i] \in DoneStep => step'[r][i] = step[r][i])
                         /\ (exec'[r][i] # "none" => exec[r][i] # "none")
    BY <2>1 DEF OpenStep, LiveExec, DoneStep
  <2>. QED BY <1>0, <2>1, <2>2 DEF RunInOrder, OpenStep
<1>2. CASE r \notin R /\ \E k \in Steps : <<r, k>> \in late
  <2>1. PICK k \in Steps : <<r, k>> \in late
    BY <1>2
  <2>2. exec[r][k] \in LiveExec /\ run[r] = "running" /\ step[r][k] = "running"
    BY <1>0, <2>1 DEF RunInOrder
  <2>3. \A i \in Steps : <<r, i>> \in late => i = k
    BY <1>0, <2>2, OneLive
  <2>4. /\ run'[r] = "failed"
        /\ \A i \in Steps : i # k => exec'[r][i] = exec[r][i] /\ step'[r][i] = step[r][i]
        /\ exec'[r][k] = "failed" /\ step'[r][k] = "timed_out"
    BY <1>2, <2>1, <2>2, <2>3 DEF TimeOut, OpenStep
  <2>5. \A i \in Steps : i # k => exec[r][i] \notin LiveExec /\ step[r][i] # "running"
    BY <1>0, <2>2, OneLive DEF RunInOrder
  <2>6. \A j \in Steps : step[r][j] = "pending" => k < j
    <3>. SUFFICES ASSUME NEW j \in Steps, step[r][j] = "pending", ~(k < j) PROVE FALSE
      OBVIOUS
    <3>1. j < k
      BY <2>2 DEF Steps
    <3>. QED BY <1>0, <2>2, <3>1 DEF RunInOrder, DoneStep, LiveExec
  <2>. QED BY <1>0, <2>2, <2>4, <2>5, <2>6 DEF RunInOrder, LiveExec, DoneStep, LostStep
<1>3. CASE r \notin R /\ ~ \E k \in Steps : <<r, k>> \in late
  <2>1. run'[r] = run[r] /\ wakeup'[r] = wakeup[r]
    BY <1>3 DEF TimeOut
  <2>2. step'[r] = step[r] /\ exec'[r] = exec[r]
    BY <1>3 DEF TimeOut, DbInv, DbType
  <2>. QED BY <1>0, <2>1, <2>2, SameInOrder DEF Same
<1>. QED BY <1>1, <1>2, <1>3

\* Ending a live execution keeps the order: its run ends with it, or goes on
\* woken again, with the step done.
Advanced(r, i) ==
  /\ run[r] = "running" /\ exec[r][i] \in LiveExec
  /\ step'[r] = [step[r] EXCEPT ![i] = "succeeded"]
  /\ exec'[r] = [exec[r] EXCEPT ![i] = "succeeded"]
  /\ wakeup'[r] = "unleased"

\* A step that ends by its agent's outcome leaves the rows in order.
LEMMA CompleteInOrder ==
  ASSUME DbInv, RowsInOrder, NEW r \in Runs, NEW i \in Steps, NEW outcome \in EndedExec,
         exec[r][i] \in LiveExec, Complete(r, i, outcome), condition' = condition
  PROVE  RowsInOrder' /\ \A q \in Runs :
           run'[q] = "running" =>
             IF q = r THEN Advanced(r, i) /\ ~StepDue(r, i) /\ outcome = "succeeded" ELSE Same(q)
<1>0. /\ RunInOrder(r) /\ run[r] = "running" /\ step[r][i] = "running"
      /\ step[r] \in [Steps -> StepStatus] /\ exec[r] \in [Steps -> ExecStatus]
  BY DEF RowsInOrder, RunInOrder, DbInv, DbType
<1>1. CASE TimeOut({r}, {})
  <2>1. run'[r] # "running"
    BY <1>0, <1>1 DEF TimeOut
  <2>. QED BY <1>1, <2>1, TimeOutInOrder
<1>2. CASE TimeOut({}, {<<r, i>>})
  <2>1. run'[r] # "running"
    BY <1>0, <1>2 DEF TimeOut
  <2>. QED BY <1>2, <2>1, TimeOutInOrder
<1>3. CASE ~overdue[r] /\ ~StepDue(r, i)
  <2>1. exec' = [exec EXCEPT ![r][i] = outcome] /\ step' = [step EXCEPT ![r][i] = outcome]
    BY <1>0, <1>3 DEF Complete, FinishStep, EndedStep
  <2>2. ASSUME NEW q \in Runs, q # r PROVE RunInOrder(q)' /\ (run'[q] = "running" => Same(q))
    <3>1. /\ run'[q] = run[q] /\ step'[q] = step[q] /\ exec'[q] = exec[q]
          /\ wakeup'[q] = wakeup[q]
      BY <1>0, <1>3, <2>1, <2>2 DEF Complete, FinishStep, Wake, DeleteWakeup, DbInv, DbType,
         EndedStep
    <3>. QED BY <3>1, SameInOrder DEF RowsInOrder, Same
  <2>3. step'[r] = [step[r] EXCEPT ![i] = outcome] /\ exec'[r] = [exec[r] EXCEPT ![i] = outcome]
    BY <2>1 DEF DbInv, DbType
  <2>4. \A k \in Steps : k # i => exec[r][k] \notin LiveExec /\ step[r][k] # "running"
    BY <1>0, OneLive DEF RunInOrder
  <2>5. /\ \A k \in Steps : k # i => exec'[r][k] = exec[r][k] /\ step'[r][k] = step[r][k]
        /\ exec'[r][i] = outcome /\ step'[r][i] = outcome
    BY <1>0, <2>3
  <2>6. \A j \in Steps : step[r][j] = "pending" => i < j
    <3>. SUFFICES ASSUME NEW j \in Steps, step[r][j] = "pending", ~(i < j) PROVE FALSE
      OBVIOUS
    <3>1. j < i
      BY <1>0 DEF Steps
    <3>. QED BY <1>0, <3>1 DEF RunInOrder, DoneStep, LiveExec
  <2>7. CASE outcome = "succeeded"
    <3>1. run'[r] = "running" /\ wakeup'[r] = "unleased"
      BY <1>0, <1>3, <2>7 DEF Complete, FinishStep, Wake, DbInv, DbType, EndedStep
    <3>2. Advanced(r, i)
      BY <1>0, <2>3, <2>7, <3>1 DEF Advanced
    <3>3. RunInOrder(r)'
      BY <1>0, <2>4, <2>5, <2>7, <3>1 DEF RunInOrder, LiveExec, DoneStep, Leases, EndedRun
    <3>. QED BY <1>3, <2>2, <2>7, <3>2, <3>3 DEF RowsInOrder
  <2>8. CASE outcome = "failed"
    <3>1. run'[r] = "failed"
      BY <1>0, <1>3, <2>8 DEF Complete, FinishStep, DbInv, DbType, EndedStep
    <3>2. RunInOrder(r)'
      BY <1>0, <2>4, <2>5, <2>6, <2>8, <3>1 DEF RunInOrder, LiveExec, DoneStep, LostStep
    <3>. QED BY <2>2, <3>1, <3>2 DEF RowsInOrder
  <2>. QED BY <2>7, <2>8 DEF EndedExec
<1>. QED BY <1>0, <1>1, <1>2, <1>3 DEF Complete

\* Failing a run with its next step keeps the order.
LEMMA FailRunInOrder ==
  ASSUME DbInv, RowsInOrder, NEW r \in Runs, NEW i \in Steps, NEW status \in LostStep,
         FailRun(r, i, status), exec' = exec, condition' = condition,
         run[r] = "running" => /\ \A j \in Steps : exec[r][j] \notin LiveExec
                               /\ \A j \in Steps : j < i => step[r][j] \in DoneStep
                               /\ \/ step[r][i] = "pending"
                                  \/ \A j \in Steps : step[r][j] \in DoneStep
  PROVE  RowsInOrder' /\ \A q \in Runs : run'[q] = "running" => Same(q)
<1>1. CASE run[r] # "running"
  <2>1. UNCHANGED <<run, step, exec, wakeup>>
    BY <1>1 DEF FailRun
  <2>. QED BY <2>1, SameInOrder DEF RowsInOrder, Same
<1>2. CASE run[r] = "running"
  <2>1. /\ step' = [step EXCEPT ![r][i] = IF step[r][i] \in OpenStep THEN status ELSE step[r][i]]
        /\ run' = [run EXCEPT ![r] = status] /\ wakeup' = [wakeup EXCEPT ![r] = "none"]
    BY <1>2 DEF FailRun, DeleteWakeup
  <2>2. ASSUME NEW q \in Runs, q # r PROVE RunInOrder(q)' /\ (run'[q] = "running" => Same(q))
    <3>1. run'[q] = run[q] /\ step'[q] = step[q] /\ wakeup'[q] = wakeup[q]
      BY <2>1, <2>2 DEF DbInv, DbType
    <3>. QED BY <3>1, SameInOrder DEF RowsInOrder, Same
  <2>3. run'[r] = status
    BY <2>1 DEF DbInv, DbType
  <2>4. /\ \A j \in Steps : j # i => step'[r][j] = step[r][j]
        /\ step'[r][i] = IF step[r][i] \in OpenStep THEN status ELSE step[r][i]
    BY <2>1 DEF DbInv, DbType
  <2>5. RunInOrder(r)
    BY DEF RowsInOrder
  <2>6. \A j \in Steps : step[r][j] = "pending" => j = i \/ i < j
    BY <1>2 DEF Steps, DoneStep
  <2>7. RunInOrder(r)'
    BY <1>2, <2>3, <2>4, <2>5, <2>6 DEF RunInOrder, LostStep, DoneStep, OpenStep, LiveExec
  <2>. QED BY <2>2, <2>3, <2>7 DEF RowsInOrder, LostStep
<1>. QED BY <1>1, <1>2

-----------------------------------------------------------------------------
(* What the engine relies on *)

\* What others do to a run that goes on: an agent starts or succeeds.
Moves(r) ==
  /\ run[r] = "running"
  /\ wakeup'[r] \in Leases => wakeup[r] \in Leases
  /\ \A i \in Steps :
       \/ step'[r][i] = step[r][i] /\ exec'[r][i] = exec[r][i]
       \/ step'[r][i] = step[r][i] /\ exec[r][i] \in HandedOff /\ exec'[r][i] = "running"
       \/ /\ step[r][i] = "running" /\ exec[r][i] \in HandedOff
          /\ step'[r][i] = "succeeded" /\ exec'[r][i] = "succeeded" /\ wakeup'[r] \notin Leases

\* They do not invalidate what an engine has read.
LEMMA MovesKeep ==
  ASSUME NEW w \in WorkerType, WorkerOk(w), WorkInOrder(w), condition' = condition,
         \A r \in Runs : w.at = r /\ run'[r] = "running" => Moves(r)
  PROVE  WorkInOrder(w)'
<1>. SUFFICES ASSUME NEW r \in Runs, w.at = r, run'[r] = "running" PROVE WorkInOrder(w)'
  BY DEF WorkInOrder
<1>. USE Moves(r) DEF Moves, HandedOff
<1>1. run[r] = "running" /\ WorkInOrder(w)
  OBVIOUS
<1>2. w.pc \in Undecided => \A i \in Steps : exec'[r][i] = "prehandoff" => w.recovering
  BY <1>1 DEF WorkInOrder
<1>3. w.pc \in {"live", "choose"} => Listed(w, r)'
  <2>. SUFFICES ASSUME w.pc \in {"live", "choose"} PROVE Listed(w, r)'
    OBVIOUS
  <2>1. Listed(w, r)
    BY <1>1 DEF WorkInOrder
  <2>. QED BY <2>1 DEF Listed
<1>4. w.pc \in {"choose"} \cup Launching => \A i \in Steps : exec'[r][i] \notin HandedOff
  BY <1>1 DEF WorkInOrder
<1>5. w.pc \in Launching /\ w.next \in Steps =>
         /\ \A i \in Steps : exec'[r][i] = "prehandoff" => i = w.next
         /\ condition'[r][w.next] = "run" \/ wakeup'[r] \notin Leases
         /\ exec'[r][w.next] = "none" => step'[r][w.next] = "pending"
  BY <1>1 DEF WorkInOrder
<1>6. w.pc \in Launching \cup GivingUp => \A i \in Steps : i < w.next => step'[r][i] \in DoneStep
  BY <1>1 DEF WorkInOrder, DoneStep
<1>7. w.pc \in GivingUp /\ w.next \in Steps =>
         (\A i \in Steps : exec'[r][i] \notin LiveExec) /\ step'[r][w.next] = "pending"
  BY <1>1 DEF WorkInOrder, LiveExec
<1>8. w.pc = "finish" => \A i \in Steps : step'[r][i] \in DoneStep
  BY <1>1 DEF WorkInOrder, DoneStep
<1>9. w.pc \in Launching \cup GivingUp => w.next \in Steps
  BY DEF WorkerOk, Chosen, Launching, GivingUp
<1>. QED BY <1>1, <1>2, <1>3, <1>4, <1>5, <1>6, <1>7, <1>8, <1>9 DEF WorkInOrder

\* When only such moves are made, the engines may go on.
LEMMA OthersKeep ==
  ASSUME IInv, OrderInv, RowsInOrder', condition' = condition, UNCHANGED worker,
         \A r \in Runs : run[r] # "none" /\ run'[r] = "running" => Moves(r)
  PROVE  OrderInv'
<1>. SUFFICES ASSUME NEW e \in Engines PROVE WorkInOrder(worker[e])'
  BY DEF OrderInv, WorkersInOrder
<1>1. worker[e] \in WorkerType /\ WorkerOk(worker[e]) /\ WorkInOrder(worker[e])
  BY DEF IInv, RestType, WorkerInv, OrderInv, WorkersInOrder
<1>2. \A r \in Runs : worker[e].at = r /\ run'[r] = "running" => Moves(r)
  BY <1>1, NamesAssumption DEF WorkerOk
<1>3. ASSUME NEW w \in WorkerType, w = worker[e] PROVE WorkInOrder(w)'
  BY <1>1, <1>2, <1>3, MovesKeep
<1>. QED BY <1>1, <1>3

\* The one engine replaces its locals by others that are in order.
LEMMA OwnKeeps ==
  ASSUME IInv, OneEngine, RowsInOrder', NEW e \in Engines, NEW w, WorkInOrder(w)',
         worker' = [worker EXCEPT ![e] = w]
  PROVE  OrderInv'
<1>. SUFFICES ASSUME NEW f \in Engines PROVE WorkInOrder(worker[f])'
  BY DEF OrderInv, WorkersInOrder
<1>1. f = e
  BY DEF OneEngine
<1>2. worker'[f] = w
  BY <1>1 DEF IInv, RestType
<1>. QED BY <1>2

\* An engine without a run relies on nothing.
LEMMA NothingAt ==
  ASSUME NEW w, w.at \notin Runs
  PROVE  WorkInOrder(w) /\ WorkInOrder(w)'
BY DEF WorkInOrder

\* An engine that leaves the rows alone keeps them in order.
LEMMA ReadKeeps ==
  ASSUME IInv, OrderInv, OneEngine, UNCHANGED <<run, step, exec, wakeup, condition>>,
         NEW e \in Engines, NEW w, WorkInOrder(w), worker' = [worker EXCEPT ![e] = w]
  PROVE  OrderInv'
<1>1. RowsInOrder'
  BY SameInOrder DEF OrderInv, RowsInOrder
<1>2. WorkInOrder(w)'
  BY DEF WorkInOrder, Listed
<1>. QED BY <1>1, <1>2, OwnKeeps

\* It may go to a position at which it relies on nothing, or on no more.
Resting == Position \ (Undecided \cup Launching \cup GivingUp \cup {"finish"})

\* An engine that goes to rest has nothing in hand to be in order,
LEMMA RestKeeps ==
  ASSUME IInv, OneEngine, RowsInOrder', NEW e \in Engines, NEW pc \in Resting, Goto(e, pc)
  PROVE  OrderInv'
<1>. PICK w : w = [worker[e] EXCEPT !.pc = pc]
  OBVIOUS
<1>1. w.pc = pc
  BY DEF IInv, RestType, WorkerType
<1>2. WorkInOrder(w)'
  BY <1>1 DEF WorkInOrder, Resting, Undecided, Launching, GivingUp
<1>3. worker' = [worker EXCEPT ![e] = w]
  BY DEF Goto
<1>. QED BY <1>2, <1>3, OwnKeeps

\* and one that takes up the next wakeup has nothing in hand yet.
LEMMA NextKeepsOrder ==
  ASSUME IInv, OneEngine, RowsInOrder', NEW e \in Engines, NEW deferred, NextWakeup(e, deferred)
  PROVE  OrderInv'
<1>. PICK w : w = [IdleWorker EXCEPT !.pc = "claim", !.visited = worker[e].visited \cup deferred]
  OBVIOUS
<1>1. w.at = NoRun
  BY DEF IdleWorker
<1>2. WorkInOrder(w)'
  BY <1>1, NamesAssumption, NothingAt
<1>3. worker' = [worker EXCEPT ![e] = w]
  BY DEF NextWakeup
<1>. QED BY <1>2, <1>3, OwnKeeps

-----------------------------------------------------------------------------
(* The world *)

\* Agents, deadlines, lapsing leases and redeliveries keep the order.
LEMMA WorldInOrder ==
  ASSUME IInv, OrderInv, NEW r \in Runs,
         \/ Accept(r) \/ RunDeadlinePasses(r) \/ LeaseLapses(r)
         \/ \E i \in Steps : \/ AgentStarts(r, i) \/ StepDeadlinePasses(r, i)
                            \/ \E outcome \in EndedExec : AgentEnds(r, i, outcome)
  PROVE  OrderInv'
<1>. USE DEF IInv
<1>0. RowsInOrder /\ DbInv /\ RunInOrder(r) /\ RunInv(r)
  BY DEF OrderInv, RowsInOrder, DbInv
<1>1. CASE Accept(r)
  <2>1. ASSUME NEW q \in Runs PROVE RunInOrder(q)' /\ (run[q] # "none" /\ run'[q] = "running" => Moves(q))
    <3>1. UNCHANGED <<step, exec, condition>>
      BY <1>1 DEF Accept, world
    <3>2. wakeup'[q] \in Leases => wakeup[q] \in Leases
      BY <1>1 DEF Accept, Wake, DbInv, DbType, Leases
    <3>3. run'[q] = run[q] \/ (q = r /\ run[r] = "none" /\ run'[r] = "running")
      BY <1>1 DEF Accept, DbInv, DbType
    <3>4. CASE run'[q] = run[q]
      BY <1>0, <3>1, <3>2, <3>4, SameInOrder DEF RowsInOrder, Moves
    <3>5. CASE q = r /\ run[r] = "none" /\ run'[r] = "running"
      <4>1. \A i \in Steps : step[r][i] = "pending" /\ exec[r][i] = "none"
        BY <1>0, <3>5 DEF RunInv
      <4>. QED BY <3>1, <3>5, <4>1 DEF RunInOrder, LiveExec, EndedRun
    <3>. QED BY <3>3, <3>4, <3>5
  <2>2. RowsInOrder' /\ UNCHANGED <<worker, condition>>
    BY <1>1, <2>1 DEF RowsInOrder, Accept, world
  <2>. QED BY <2>1, <2>2, OthersKeep
<1>2. CASE RunDeadlinePasses(r) \/ LeaseLapses(r) \/ \E i \in Steps : StepDeadlinePasses(r, i)
  <2>1. UNCHANGED <<run, step, exec, condition, worker>>
    BY <1>2 DEF RunDeadlinePasses, LeaseLapses, StepDeadlinePasses, runVars, world
  <2>2. \A q \in Runs : wakeup'[q] \in Leases => wakeup[q] \in Leases
    BY <1>2 DEF RunDeadlinePasses, LeaseLapses, StepDeadlinePasses, lease, Leases, DbInv, DbType
  <2>3. RowsInOrder' /\ \A q \in Runs : run'[q] = "running" => Moves(q)
    BY <1>0, <2>1, <2>2, SameInOrder DEF RowsInOrder, Moves
  <2>. QED BY <2>1, <2>3, OthersKeep
<1>3. ASSUME NEW i \in Steps, AgentStarts(r, i) PROVE OrderInv'
  <2>1. UNCHANGED <<run, step, wakeup, condition, worker>>
    BY <1>3 DEF AgentStarts, lease, world
  <2>2. exec[r][i] = "spawning" /\ exec' = [exec EXCEPT ![r][i] = "running"]
    BY <1>3 DEF AgentStarts
  <2>3. ASSUME NEW q \in Runs PROVE RunInOrder(q)' /\ (run'[q] = "running" => Moves(q))
    <3>1. \A j \in Steps : \/ exec'[q][j] = exec[q][j]
                           \/ exec[q][j] = "spawning" /\ exec'[q][j] = "running"
      BY <2>2 DEF DbInv, DbType
    <3>2. RunInOrder(q)
      BY <1>0 DEF RowsInOrder
    <3>. QED BY <2>1, <3>1, <3>2 DEF RunInOrder, LiveExec, Moves, HandedOff
  <2>4. RowsInOrder'
    BY <2>3 DEF RowsInOrder
  <2>. QED BY <2>1, <2>3, <2>4, OthersKeep
<1>4. ASSUME NEW i \in Steps, NEW outcome \in EndedExec, AgentEnds(r, i, outcome) PROVE OrderInv'
  <2>1. /\ exec[r][i] \in LiveExec /\ (exec[r][i] # "prehandoff" \/ StepDue(r, i))
        /\ Complete(r, i, outcome) /\ UNCHANGED <<condition, worker>>
    BY <1>4 DEF AgentEnds, world
  <2>2. RowsInOrder' /\ \A q \in Runs :
           run'[q] = "running" =>
             IF q = r THEN Advanced(r, i) /\ ~StepDue(r, i) /\ outcome = "succeeded" ELSE Same(q)
    BY <1>0, <2>1, CompleteInOrder
  <2>3. ASSUME NEW q \in Runs, run'[q] = "running" PROVE Moves(q)
    <3>1. CASE Same(q)
      BY <3>1 DEF Same, Moves
    <3>2. CASE q = r /\ Advanced(r, i) /\ ~StepDue(r, i)
      <4>1. exec[r][i] \in HandedOff /\ step[r][i] = "running"
        BY <1>0, <2>1, <3>2 DEF HandedOff, LiveExec, RunInOrder
      <4>. QED BY <3>2, <4>1 DEF Moves, Advanced, Leases, DbInv, DbType
    <3>. QED BY <2>2, <2>3, <3>1, <3>2
  <2>. QED BY <2>1, <2>2, <2>3, OthersKeep
<1>. QED BY <1>1, <1>2, <1>3, <1>4

\* So do lost connections, crashes and rejected calls.
LEMMA FaultsInOrder ==
  ASSUME IInv, OrderInv, OneEngine,
         Disconnect \/ \E e \in Engines : Connect(e) \/ Crash(e) \/ Rejected(e)
  PROVE  OrderInv'
<1>1. UNCHANGED <<run, step, exec, wakeup, condition>>
  BY DEF Disconnect, Connect, Crash, Rejected, runVars, lease
<1>2. CASE UNCHANGED worker
  <2>1. RowsInOrder' /\ \A r \in Runs : run'[r] = "running" => Moves(r)
    BY <1>1, SameInOrder DEF OrderInv, RowsInOrder, Moves
  <2>. QED BY <1>1, <1>2, <2>1, OthersKeep
<1>3. ASSUME NEW e \in Engines, NEW w, worker' = [worker EXCEPT ![e] = w], w.at = NoRun
      PROVE  OrderInv'
  <2>1. WorkInOrder(w)
    BY <1>3, NothingAt, NamesAssumption
  <2>. QED BY <1>1, <1>3, <2>1, ReadKeeps
<1>4. ASSUME NEW e \in Engines, Crash(e) PROVE OrderInv'
  <2>1. worker' = [worker EXCEPT ![e] = IdleWorker] /\ IdleWorker.at = NoRun
    BY <1>4 DEF Crash, IdleWorker
  <2>. QED BY <1>3, <2>1
<1>5. ASSUME NEW e \in Engines, Rejected(e) PROVE OrderInv'
  <2>. DEFINE w == [IdleWorker EXCEPT !.pc = "claim", !.visited = worker[e].visited]
  <2>1. worker' = [worker EXCEPT ![e] = w] /\ w.at = NoRun
    BY <1>5 DEF Rejected, IdleWorker
  <2>. HIDE DEF w
  <2>. QED BY <1>3, <2>1
<1>. QED BY <1>2, <1>4, <1>5 DEF Disconnect, Connect

-----------------------------------------------------------------------------
(* The engine *)

\* Looking for work, sweeping deadlines and reading the run keeps the order.
LEMMA PreparingInOrder ==
  ASSUME IInv, OrderInv, OneEngine, PreHandoffIsRecoverable, NEW e \in Engines,
         \/ SweepDeadlines(e) \/ RecoverWakeups(e) \/ NothingToClaim(e)
         \/ \E r \in Runs : Claim(e, r)
         \/ LoadRun(e) \/ Reconcile(e) \/ ReloadRun(e)
  PROVE  OrderInv'
<1>. USE DEF IInv
<1>0. /\ RowsInOrder /\ DbInv /\ worker[e] \in WorkerType
      /\ WorkerOk(worker[e]) /\ WorkInOrder(worker[e])
  BY DEF OrderInv, RestType, WorkerInv, WorkersInOrder
<1>1. CASE SweepDeadlines(e)
  <2>1. RowsInOrder'
    BY <1>0, <1>1, TimeOutInOrder DEF SweepDeadlines, LateSteps, world
  <2>. QED BY <1>1, <2>1, RestKeeps DEF SweepDeadlines, Resting, Position, Undecided, Launching,
       GivingUp
<1>2. CASE RecoverWakeups(e)
  <2>1. RowsInOrder'
    BY <1>0, <1>2, SameInOrder DEF RecoverWakeups, RowsInOrder, runVars, world, Leases
  <2>. QED BY <1>2, <2>1, RestKeeps DEF RecoverWakeups, Resting, Position, Undecided, Launching,
       GivingUp
<1>3. CASE NothingToClaim(e)
  <2>1. WorkInOrder(IdleWorker)
    BY NamesAssumption DEF WorkInOrder, IdleWorker
  <2>. QED BY <1>3, <2>1, ReadKeeps DEF NothingToClaim, runVars, lease, world
<1>4. ASSUME NEW r \in Runs, Claim(e, r) PROVE OrderInv'
  <2>1. UNCHANGED <<run, step, exec, condition>> /\ worker[e].pc = "claim"
        /\ wakeup[r] \in {"unleased", "lapsed"} /\ wakeup' = [wakeup EXCEPT ![r] = "leased"]
    BY <1>4 DEF Claim, Claimable, runVars, world
  <2>2. ASSUME run[r] = "running", NEW i \in Steps, exec[r][i] = "prehandoff"
        PROVE  wakeup[r] = "lapsed"
    <3>1. \A f \in Engines : worker[f].pc # "dispatch"
      BY <2>1 DEF OneEngine
    <3>. QED BY <2>1, <2>2, <3>1 DEF PreHandoffIsRecoverable
  <2>3. ASSUME NEW q \in Runs PROVE RunInOrder(q)'
    <3>1. wakeup'[q] \in Leases /\ run[q] = "running" /\ (\E i \in Steps : exec[q][i] = "prehandoff")
            => wakeup[q] \in Leases
      BY <2>1, <2>2 DEF Leases, DbInv, DbType
    <3>2. RunInOrder(q)
      BY <1>0 DEF RowsInOrder
    <3>. QED BY <2>1, <3>1, <3>2 DEF RunInOrder
  <2>. PICK w : w = [worker[e] EXCEPT !.pc = "load", !.at = r, !.recovering = (wakeup[r] = "lapsed")]
    OBVIOUS
  <2>4. worker' = [worker EXCEPT ![e] = w]
    BY <1>4 DEF Claim
  <2>5. w.pc = "load" /\ w.at = r /\ w.recovering = (wakeup[r] = "lapsed")
    BY <1>0 DEF WorkerType
  <2>6. WorkInOrder(w)'
    BY <2>1, <2>2, <2>5 DEF WorkInOrder, Launching, GivingUp
  <2>7. RowsInOrder'
    BY <2>3 DEF RowsInOrder
  <2>. QED BY <2>4, <2>6, <2>7, OwnKeeps
<1>5. ASSUME NEW pc \in {"reconcile", "reload", "list"}, Goto(e, pc), worker[e].pc \in Undecided,
             UNCHANGED <<run, step, exec, wakeup, condition>>
      PROVE  OrderInv'
  <2>. DEFINE w == [worker[e] EXCEPT !.pc = pc]
  <2>1. w.pc = pc /\ w.at = worker[e].at /\ w.recovering = worker[e].recovering
    BY <1>0 DEF WorkerType
  <2>2. WorkInOrder(w)
    BY <1>0, <1>5, <2>1 DEF WorkInOrder, Launching, GivingUp
  <2>3. worker' = [worker EXCEPT ![e] = w]
    BY <1>5 DEF Goto
  <2>. HIDE DEF w
  <2>. QED BY <1>5, <2>2, <2>3, ReadKeeps
<1>6. ASSUME NEW pc \in {"sweep", "delete"}, Goto(e, pc),
             UNCHANGED <<run, step, exec, wakeup, condition>>
      PROVE  OrderInv'
  <2>1. RowsInOrder'
    BY <1>0, <1>6, SameInOrder DEF RowsInOrder
  <2>2. pc \in Resting
    BY DEF Resting, Position, Undecided, Launching, GivingUp
  <2>. QED BY <1>6, <2>1, <2>2, RestKeeps
<1>7. CASE LoadRun(e)
  BY <1>5, <1>6, <1>7 DEF LoadRun, runVars, lease, world, Undecided
<1>8. CASE Reconcile(e)
  <2>1. worker[e].at \in Runs
    BY <1>0, <1>8 DEF Reconcile, WorkerOk, Processing, Position
  <2>2. {i \in Steps : step[worker[e].at][i] = "running" /\ exec[worker[e].at][i] \in EndedExec} = {}
    BY <1>0, <2>1 DEF DbInv, RunInv, EndedStep
  <2>. QED BY <1>5, <1>8, <2>2 DEF Reconcile, lease, world, Undecided
<1>9. CASE ReloadRun(e)
  BY <1>5, <1>6, <1>9 DEF ReloadRun, runVars, lease, world, Undecided
<1>. QED BY <1>1, <1>2, <1>3, <1>4, <1>7, <1>8, <1>9

\* Reading the steps and their executions keeps the order.
LEMMA ListingInOrder ==
  ASSUME IInv, OrderInv, OneEngine, NEW e \in Engines, ListSteps(e) \/ FindLive(e)
  PROVE  OrderInv'
<1>. USE DEF IInv
<1>. DEFINE r == worker[e].at
<1>0. /\ RowsInOrder /\ DbInv /\ worker[e] \in WorkerType
      /\ WorkerOk(worker[e]) /\ WorkInOrder(worker[e])
  BY DEF OrderInv, RestType, WorkerInv, WorkersInOrder
<1>1. /\ r \in Runs /\ RunInOrder(r) /\ RunInv(r)
      /\ step[r] \in [Steps -> StepStatus] /\ exec[r] \in [Steps -> ExecStatus]
  BY <1>0 DEF ListSteps, FindLive, WorkerOk, Processing, Position, RowsInOrder, DbInv, DbType
<1>2. CASE ListSteps(e)
  <2>. DEFINE ended == {i \in Steps : step[r][i] \in {"failed", "timed_out"}}
  <2>1. CASE ended = {}
    <3>. DEFINE w == [worker[e] EXCEPT !.seen = step[r], !.pc = "live"]
    <3>1. w.pc = "live" /\ w.at = r /\ w.seen = step[r] /\ w.recovering = worker[e].recovering
      BY <1>0 DEF WorkerType
    <3>2. run[r] = "running" => Listed(w, r)
      <4>. SUFFICES ASSUME run[r] = "running", NEW i \in Steps, step[r][i] # "pending", NEW j \in Steps, j < i
                    PROVE  step[r][j] \in DoneStep
        BY <3>1 DEF Listed
      <4>1. exec[r][i] # "none" \/ step[r][i] = "skipped"
        BY <1>1 DEF RunInv, RunInOrder, StepStatus, LiveExec
      <4>. QED BY <1>1, <4>1 DEF RunInOrder
    <3>3. WorkInOrder(w)
      BY <1>0, <1>2, <3>1, <3>2 DEF WorkInOrder, ListSteps, Undecided, Launching, GivingUp
    <3>4. worker' = [worker EXCEPT ![e] = w]
      BY <1>2, <2>1 DEF ListSteps
    <3>. HIDE DEF w
    <3>. QED BY <1>2, <3>3, <3>4, ReadKeeps DEF ListSteps, runVars, lease, world
  <2>2. CASE ended # {}
    <3>1. run[r] # "running"
      BY <1>1, <2>2 DEF RunInv
    <3>2. PICK i \in First(ended) :
            worker' = [worker EXCEPT ![e].seen = step[r], ![e].next = i, ![e].pc = "fail"]
      BY <1>2, <2>2 DEF ListSteps
    <3>. DEFINE w == [worker[e] EXCEPT !.seen = step[r], !.next = i, !.pc = "fail"]
    <3>3. w.at = r /\ worker' = [worker EXCEPT ![e] = w]
      BY <1>0, <3>2 DEF WorkerType
    <3>4. WorkInOrder(w)
      BY <3>1, <3>3 DEF WorkInOrder
    <3>. HIDE DEF w
    <3>. QED BY <1>2, <3>3, <3>4, ReadKeeps DEF ListSteps, runVars, lease, world
  <2>. QED BY <2>1, <2>2
<1>3. CASE FindLive(e)
  <2>1. CASE HasLive(e)
    <3>1. RowsInOrder' /\ Goto(e, "delete")
      BY <1>0, <1>3, <2>1, SameInOrder DEF FindLive, RowsInOrder, runVars, lease, world
    <3>. QED BY <3>1, RestKeeps DEF Resting, Position, Undecided, Launching, GivingUp
  <2>2. CASE ~HasLive(e)
    <3>. DEFINE w == [worker[e] EXCEPT !.pc = "choose"]
    <3>1. w.pc = "choose" /\ w.at = r /\ w.seen = worker[e].seen /\ w.recovering = worker[e].recovering
      BY <1>0 DEF WorkerType
    <3>2. ASSUME run[r] = "running" PROVE Listed(worker[e], r) /\ \A i \in Steps : exec[r][i] \notin HandedOff
      <4>1. Listed(worker[e], r)
        BY <1>0, <1>1, <1>3, <3>2 DEF FindLive, WorkInOrder
      <4>. SUFFICES ASSUME NEW i \in Steps, exec[r][i] \in HandedOff PROVE FALSE
        BY <4>1
      <4>2. step[r][i] = "running"
        BY <1>1 DEF RunInOrder, HandedOff, LiveExec
      <4>3. worker[e].seen[i] = "running"
        BY <4>1, <4>2 DEF Listed
      <4>. QED BY <2>2, <4>3 DEF HasLive, HandedOff, LiveExec, PreHandoff
    <3>3. run[r] = "running" => Listed(w, r)
      BY <3>1, <3>2 DEF Listed
    <3>4. WorkInOrder(w)
      BY <1>0, <1>3, <3>1, <3>2, <3>3 DEF WorkInOrder, FindLive, Undecided, Launching, GivingUp
    <3>5. worker' = [worker EXCEPT ![e] = w]
      BY <1>3, <2>2 DEF FindLive, Goto
    <3>. HIDE DEF w
    <3>. QED BY <1>3, <3>4, <3>5, ReadKeeps DEF FindLive, runVars, lease, world
  <2>. QED BY <2>1, <2>2
<1>. QED BY <1>2, <1>3

\* The choice of a step, by recovery or as the first pending one, is in order.
LEMMA ChoiceInOrder ==
  ASSUME IInv, OrderInv, OneEngine, PreHandoffIsRecoverable, NEW e \in Engines, ChooseStep(e)
  PROVE  OrderInv'
<1>. USE DEF IInv
<1>. DEFINE r == worker[e].at
            seen == worker[e].seen
            lost == {i \in Steps : seen[i] = "running" /\ PreHandoff(exec[r][i])}
<1>0. /\ worker[e] \in WorkerType /\ worker[e].pc = "choose"
      /\ WorkerOk(worker[e]) /\ WorkInOrder(worker[e])
  BY DEF OrderInv, RestType, WorkerInv, WorkersInOrder, ChooseStep
<1>1. /\ r \in Runs /\ RunInOrder(r) /\ RunInv(r)
      /\ step[r] \in [Steps -> StepStatus] /\ exec[r] \in [Steps -> ExecStatus]
  BY <1>0 DEF WorkerOk, Processing, Position, OrderInv, RowsInOrder, DbInv, DbType
<1>. HIDE DEF lost
\* As long as the run goes on, an execution that lives is one to recover ...
<1>2. ASSUME run[r] = "running", NEW i \in Steps, exec[r][i] \in LiveExec
      PROVE  worker[e].recovering /\ i \in lost
  <2>1. exec[r][i] = "prehandoff" /\ worker[e].recovering /\ Listed(worker[e], r)
    BY <1>0, <1>1, <1>2 DEF WorkInOrder, HandedOff, LiveExec, Undecided
  <2>2. seen[i] = "running"
    BY <1>1, <1>2, <2>1 DEF RunInOrder, Listed
  <2>. QED BY <2>1, <2>2 DEF lost, PreHandoff
\* ... and one to recover was decided by the condition.
<1>3. ASSUME run[r] = "running", NEW i \in lost
      PROVE  /\ exec[r][i] = "prehandoff" /\ condition[r][i] = "run"
             /\ \A j \in Steps : j < i => seen[j] \in DoneStep /\ step[r][j] \in DoneStep
  <2>1. i \in Steps /\ seen[i] = "running" /\ exec[r][i] = "prehandoff"
    BY DEF lost, PreHandoff
  <2>2. \A f \in Engines : worker[f].pc # "dispatch"
    BY <1>0 DEF OneEngine
  <2>3. wakeup[r] \in Leases
    BY <1>1, <1>3, <2>1, <2>2 DEF PreHandoffIsRecoverable, Leases
  <2>4. Listed(worker[e], r)
    BY <1>0, <1>1, <1>3 DEF WorkInOrder
  <2>5. \A j \in Steps : j < i => seen[j] \in DoneStep
    BY <2>1, <2>4 DEF Listed
  <2>. QED BY <1>1, <1>3, <2>1, <2>3, <2>5 DEF RunInOrder
\* When nothing lives, what was seen and is not pending is done.
<1>4. ASSUME run[r] = "running", lost = {} \/ ~worker[e].recovering
      PROVE  /\ \A i \in Steps : exec[r][i] \notin LiveExec
             /\ \A i \in Steps : seen[i] # "pending" => step[r][i] \in DoneStep
             /\ \A i \in Steps : seen[i] = "pending" => step[r][i] = "pending"
             /\ \A i \in Steps : seen[i] \notin DoneStep \cup {"pending"} => wakeup[r] \notin Leases
  <2>1. \A i \in Steps : exec[r][i] \notin LiveExec
    BY <1>2, <1>4
  <2>2. \A i \in Steps : step[r][i] \in DoneStep \cup {"pending"}
    BY <1>1, <1>4, <2>1 DEF RunInv, RunInOrder, StepStatus, DoneStep
  <2>3. Listed(worker[e], r)
    BY <1>0, <1>1, <1>4 DEF WorkInOrder
  <2>. QED BY <2>1, <2>2, <2>3 DEF Listed, DoneStep
<1>5. CASE Candidates(e) = {}
  <2>. DEFINE w == [worker[e] EXCEPT !.pc = "finish"]
  <2>1. w.pc = "finish" /\ w.at = r
    BY <1>0 DEF WorkerType
  <2>2. ASSUME run[r] = "running" PROVE \A i \in Steps : step[r][i] \in DoneStep
    BY <1>4, <1>5, <2>2 DEF Candidates, lost
  <2>3. WorkInOrder(w)
    BY <2>1, <2>2 DEF WorkInOrder, Undecided, Launching, GivingUp
  <2>4. worker' = [worker EXCEPT ![e] = w]
    BY <1>5 DEF ChooseStep, Goto
  <2>. HIDE DEF w
  <2>. QED BY <2>3, <2>4, ReadKeeps DEF ChooseStep, runVars, lease, world
<1>6. CASE Candidates(e) # {}
  <2>0. PICK i \in First(Candidates(e)) : \E outcome \in Outcomes(e, i) :
          worker' = [worker EXCEPT
            ![e].next = i,
            ![e].late = overdue[worker[e].at],
            ![e].pc = IF outcome = "run" THEN "build"
                      ELSE IF outcome = "skip" THEN "skip" ELSE "fail"]
    BY <1>6 DEF ChooseStep
  <2>1. PICK outcome \in Outcomes(e, i) :
          worker' = [worker EXCEPT
            ![e].next = i,
            ![e].late = overdue[worker[e].at],
            ![e].pc = IF outcome = "run" THEN "build"
                      ELSE IF outcome = "skip" THEN "skip" ELSE "fail"]
    BY <2>0
  <2>. DEFINE pc == IF outcome = "run" THEN "build" ELSE IF outcome = "skip" THEN "skip" ELSE "fail"
              w == [worker[e] EXCEPT !.next = i, !.late = overdue[worker[e].at], !.pc = pc]
  <2>2. w.pc = pc /\ w.at = r /\ w.next = i /\ w.recovering = worker[e].recovering
    BY <1>0 DEF WorkerType
  <2>3. i \in Candidates(e) /\ i \in Steps /\ \A j \in Candidates(e) : i <= j
    BY DEF First, Candidates
  <2>4. ASSUME worker[e].recovering, lost # {}, run[r] = "running" PROVE WorkInOrder(w)
    <3>1. i \in lost
      BY <2>3, <2>4 DEF Candidates, lost
    <3>2. /\ exec[r][i] = "prehandoff" /\ condition[r][i] = "run"
          /\ \A j \in Steps : j < i => seen[j] \in DoneStep /\ step[r][j] \in DoneStep
      BY <1>3, <2>4, <3>1
    <3>3. \A j \in 1..(i - 1) : seen[j] \in DoneStep
      BY <2>3, <3>2, NumStepsAssumption DEF Steps
    <3>4. outcome = "run"
      BY <3>2, <3>3 DEF Outcomes
    <3>5. \A k \in Steps : exec[r][k] = "prehandoff" => k = i
      BY <1>1, <2>3, <3>2, OneLive DEF LiveExec
    <3>6. \A k \in Steps : exec[r][k] \notin HandedOff
      BY <1>0, <1>1, <2>4 DEF WorkInOrder
    <3>. QED BY <2>2, <2>4, <3>2, <3>4, <3>5, <3>6 DEF WorkInOrder, Undecided, Launching, GivingUp
  <2>5. ASSUME ~(worker[e].recovering /\ lost # {}), run[r] = "running" PROVE WorkInOrder(w)
    <3>1. seen[i] = "pending" /\ \A j \in Steps : seen[j] = "pending" => i <= j
      BY <2>3, <2>5 DEF Candidates, lost
    <3>2. \A j \in Steps : j < i => seen[j] # "pending"
      BY <2>3, <3>1 DEF Steps
    <3>3. /\ step[r][i] = "pending" /\ \A j \in Steps : j < i => step[r][j] \in DoneStep
          /\ \A j \in Steps : exec[r][j] \notin LiveExec
      BY <1>4, <2>3, <2>5, <3>1, <3>2
    <3>4. ASSUME outcome = "run" PROVE condition[r][i] = "run" \/ wakeup[r] \notin Leases
      <4>1. CASE \A j \in 1..(i - 1) : seen[j] \in DoneStep
        BY <3>4, <4>1 DEF Outcomes
      <4>2. ASSUME NEW j \in 1..(i - 1), seen[j] \notin DoneStep PROVE wakeup[r] \notin Leases
        <5>1. j \in Steps /\ j < i
          BY <2>3, NumStepsAssumption DEF Steps
        <5>. QED BY <1>4, <2>5, <3>2, <4>2, <5>1
      <4>. QED BY <4>1, <4>2
    <3>5. \A j \in Steps : exec[r][j] # "prehandoff" /\ exec[r][j] \notin HandedOff
      BY <3>3 DEF LiveExec, HandedOff
    <3>. QED BY <2>2, <2>5, <3>3, <3>4, <3>5 DEF WorkInOrder, Undecided, Launching, GivingUp
  <2>6. WorkInOrder(w)
    BY <2>2, <2>4, <2>5 DEF WorkInOrder
  <2>7. worker' = [worker EXCEPT ![e] = w]
    BY <2>1
  <2>. HIDE DEF w
  <2>. QED BY <2>6, <2>7, ReadKeeps DEF ChooseStep, runVars, lease, world
<1>. QED BY <1>5, <1>6

\* Building the intent, or giving up on it or for now, keeps the order.
LEMMA BuildingInOrder ==
  ASSUME IInv, OrderInv, OneEngine, NEW e \in Engines, BuildIntent(e) \/ Defer(e)
  PROVE  OrderInv'
<1>. USE DEF IInv
<1>. DEFINE r == worker[e].at
<1>0. /\ RowsInOrder /\ DbInv /\ worker[e] \in WorkerType
      /\ WorkerOk(worker[e]) /\ WorkInOrder(worker[e])
  BY DEF OrderInv, RestType, WorkerInv, WorkersInOrder
<1>1. CASE BuildIntent(e)
  <2>0. UNCHANGED <<run, step, exec, wakeup, condition>> /\ worker[e].pc = "build"
    BY <1>1 DEF BuildIntent, runVars, lease
  <2>1. ASSUME NEW pc \in {"create", "defer"}, Goto(e, pc) PROVE OrderInv'
    <3>. DEFINE w == [worker[e] EXCEPT !.pc = pc]
    <3>1. w.pc = pc /\ w.at = r /\ w.next = worker[e].next /\ w.recovering = worker[e].recovering
      BY <1>0 DEF WorkerType
    <3>2. WorkInOrder(w)
      BY <1>0, <2>0, <3>1 DEF WorkInOrder, Undecided, Launching, GivingUp
    <3>3. worker' = [worker EXCEPT ![e] = w]
      BY <2>1 DEF Goto
    <3>. HIDE DEF w
    <3>. QED BY <2>0, <3>2, <3>3, ReadKeeps
  <2>2. ASSUME Goto(e, "fail"), exec[r][worker[e].next] = "none" PROVE OrderInv'
    <3>. DEFINE w == [worker[e] EXCEPT !.pc = "fail"]
    <3>1. w.pc = "fail" /\ w.at = r /\ w.next = worker[e].next
      BY <1>0 DEF WorkerType
    <3>2. WorkInOrder(w)
      BY <1>0, <2>0, <2>2, <3>1 DEF WorkInOrder, Undecided, Launching, GivingUp, HandedOff, LiveExec
    <3>3. worker' = [worker EXCEPT ![e] = w]
      BY <2>2 DEF Goto
    <3>. HIDE DEF w
    <3>. QED BY <2>0, <3>2, <3>3, ReadKeeps
  <2>. QED BY <1>1, <2>1, <2>2 DEF BuildIntent
<1>2. CASE Defer(e)
  <2>1. UNCHANGED <<run, step, exec, condition>> /\ NextWakeup(e, {r})
        /\ \A q \in Runs : wakeup'[q] \in Leases => wakeup[q] \in Leases
    BY <1>2 DEF Defer, runVars, world, Leases, DbInv, DbType
  <2>2. RowsInOrder'
    BY <1>0, <2>1, SameInOrder DEF RowsInOrder
  <2>. QED BY <2>1, <2>2, NextKeepsOrder
<1>. QED BY <1>1, <1>2

\* Only the next step's execution is created, and none that a lease covers
\* without its condition.
LEMMA CreationInOrder ==
  ASSUME IInv, OrderInv, OneEngine, NEW e \in Engines, CreateExecution(e)
  PROVE  OrderInv'
<1>. USE DEF IInv
<1>. DEFINE r == worker[e].at
            i == worker[e].next
<1>0. /\ RowsInOrder /\ DbInv /\ worker[e] \in WorkerType /\ worker[e].pc = "create"
      /\ WorkerOk(worker[e]) /\ WorkInOrder(worker[e]) /\ UNCHANGED condition
  BY DEF OrderInv, RestType, WorkerInv, WorkersInOrder, CreateExecution, world
<1>1. r \in Runs /\ i \in Steps /\ RunInOrder(r)
  BY <1>0 DEF WorkerOk, Processing, Chosen, Position, RowsInOrder
<1>2. ASSUME run[r] = "running", exec[r][i] = "none"
      PROVE  /\ \A j \in Steps : exec[r][j] \notin LiveExec
             /\ condition[r][i] = "run" \/ wakeup[r] \notin Leases
             /\ step[r][i] = "pending" /\ \A j \in Steps : j < i => step[r][j] \in DoneStep
  BY <1>0, <1>1, <1>2 DEF WorkInOrder, Launching, HandedOff, LiveExec
<1>3. ASSUME NEW pc \in {"delete", "dispatch", "settle"}, Goto(e, pc), RowsInOrder' PROVE OrderInv'
  BY <1>3, RestKeeps DEF Resting, Position, Undecided, Launching, GivingUp
<1>4. CASE UNCHANGED <<runVars, lease>> /\ \E pc \in {"delete", "dispatch", "settle"} : Goto(e, pc)
  <2>1. RowsInOrder'
    BY <1>0, <1>4, SameInOrder DEF RowsInOrder, runVars, lease
  <2>. QED BY <1>3, <1>4, <2>1
<1>5. CASE TimeOut({r}, {}) /\ Goto(e, "delete")
  BY <1>0, <1>3, <1>5, TimeOutInOrder
<1>6. CASE run[r] = "running" /\ exec[r][i] = "none" /\ UNCHANGED <<runVars, lease>> /\ Goto(e, "deny")
  <2>. DEFINE w == [worker[e] EXCEPT !.pc = "deny"]
  <2>1. w.pc = "deny" /\ w.at = r /\ w.next = i
    BY <1>0 DEF WorkerType
  <2>2. WorkInOrder(w)
    BY <1>2, <1>6, <2>1 DEF WorkInOrder, Undecided, Launching, GivingUp
  <2>3. worker' = [worker EXCEPT ![e] = w]
    BY <1>6 DEF Goto
  <2>. HIDE DEF w
  <2>. QED BY <1>0, <1>6, <2>2, <2>3, ReadKeeps DEF runVars, lease
<1>7. CASE /\ run[r] = "running" /\ exec[r][i] = "none"
           /\ exec' = [exec EXCEPT ![r][i] = "prehandoff"]
           /\ step' = [step EXCEPT ![r][i] = "running"]
           /\ Goto(e, "dispatch") /\ UNCHANGED <<run, lease>>
  <2>1. ASSUME NEW q \in Runs, q # r PROVE RunInOrder(q)'
    <3>1. run'[q] = run[q] /\ step'[q] = step[q] /\ exec'[q] = exec[q] /\ wakeup'[q] = wakeup[q]
      BY <1>7, <2>1 DEF DbInv, DbType, lease
    <3>. QED BY <1>0, <3>1, SameInOrder DEF RowsInOrder
  <2>2. /\ run'[r] = "running" /\ wakeup'[r] = wakeup[r]
        /\ exec'[r][i] = "prehandoff" /\ step'[r][i] = "running"
        /\ \A j \in Steps : j # i => exec'[r][j] = exec[r][j] /\ step'[r][j] = step[r][j]
    BY <1>1, <1>7 DEF DbInv, DbType, lease
  <2>3. ASSUME NEW q \in Runs, q = r PROVE RunInOrder(q)'
    BY <1>0, <1>1, <1>2, <1>7, <2>2, <2>3 DEF RunInOrder, LiveExec, DoneStep, EndedRun
  <2>. QED BY <1>3, <1>7, <2>1, <2>3 DEF RowsInOrder
<1>. QED BY <1>4, <1>5, <1>6, <1>7 DEF CreateExecution, runVars

\* The hand-off and the end of a wakeup's processing keep the order.
LEMMA HandingOffInOrder ==
  ASSUME IInv, OrderInv, OneEngine, NEW e \in Engines, HandOff(e) \/ Settle(e) \/ Delete(e)
  PROVE  OrderInv'
<1>. USE DEF IInv
<1>. DEFINE r == worker[e].at
            i == worker[e].next
<1>0. /\ RowsInOrder /\ DbInv /\ worker[e] \in WorkerType /\ WorkerOk(worker[e])
      /\ UNCHANGED condition /\ r \in Runs
  BY DEF OrderInv, RestType, WorkerInv, WorkersInOrder, HandOff, Settle, Delete, world,
         WorkerOk, Processing, Position
<1>1. ASSUME NEW pc \in {"delete", "settle"}, Goto(e, pc), RowsInOrder' PROVE OrderInv'
  BY <1>1, RestKeeps DEF Resting, Position, Undecided, Launching, GivingUp
<1>2. CASE HandOff(e)
  <2>0. i \in Steps
    BY <1>0, <1>2 DEF HandOff, WorkerOk, Chosen
  <2>1. CASE /\ exec' = [exec EXCEPT ![r][i] = IF @ = "prehandoff" THEN "spawning" ELSE @]
             /\ UNCHANGED <<run, step, notify, lease, faults>>
    <3>1. ASSUME NEW q \in Runs PROVE RunInOrder(q)'
      <4>1. \A j \in Steps : \/ exec'[q][j] = exec[q][j]
                             \/ exec[q][j] = "prehandoff" /\ exec'[q][j] = "spawning"
        BY <2>1 DEF DbInv, DbType
      <4>2. RunInOrder(q)
        BY <1>0 DEF RowsInOrder
      <4>. QED BY <1>0, <2>1, <4>1, <4>2 DEF RunInOrder, LiveExec, lease
    <3>. QED BY <1>1, <1>2, <3>1 DEF HandOff, RowsInOrder
  <2>2. CASE exec[r][i] \in {"prehandoff", "spawning"} /\ Complete(r, i, "failed")
    <3>1. RowsInOrder'
      BY <1>0, <2>0, <2>2, CompleteInOrder DEF LiveExec, EndedExec
    <3>. QED BY <1>1, <1>2, <3>1 DEF HandOff
  <2>. QED BY <1>2, <2>1, <2>2 DEF HandOff
<1>3. CASE Settle(e)
  <2>1. i \in Steps
    BY <1>0, <1>3 DEF Settle, WorkerOk, Chosen
  <2>2. exec[r][i] \in EndedExec => step[r][i] \in EndedStep
    BY <1>0, <2>1 DEF DbInv, RunInv
  <2>3. UNCHANGED <<run, step, exec, wakeup>>
    BY <1>3, <2>2 DEF Settle, FinishStep, lease
  <2>4. RowsInOrder'
    BY <1>0, <2>3, SameInOrder DEF RowsInOrder
  <2>. QED BY <1>1, <1>3, <2>4 DEF Settle
<1>4. CASE Delete(e)
  <2>1. UNCHANGED <<run, step, exec>> /\ \A q \in Runs : wakeup'[q] \in Leases => wakeup[q] \in Leases
    BY <1>0, <1>4 DEF Delete, DeleteWakeup, runVars, Leases, DbInv, DbType
  <2>2. RowsInOrder'
    BY <1>0, <2>1, SameInOrder DEF RowsInOrder
  <2>. QED BY <1>4, <2>2, NextKeepsOrder DEF Delete
<1>. QED BY <1>2, <1>3, <1>4

\* Skipping a step, giving up and finishing the run keep the order.
LEMMA EndingInOrder ==
  ASSUME IInv, OrderInv, OneEngine, NEW e \in Engines, Skip(e) \/ Fail(e) \/ Finish(e)
  PROVE  OrderInv'
<1>. USE DEF IInv
<1>. DEFINE r == worker[e].at
            i == worker[e].next
<1>0. /\ RowsInOrder /\ DbInv /\ worker[e] \in WorkerType /\ WorkerOk(worker[e])
      /\ WorkInOrder(worker[e]) /\ UNCHANGED condition /\ exec' = exec /\ r \in Runs
  BY DEF OrderInv, RestType, WorkerInv, WorkersInOrder, Skip, Fail, Finish, world,
         WorkerOk, Processing, Position
<1>1. RunInOrder(r) /\ step[r] \in [Steps -> StepStatus]
  BY <1>0 DEF RowsInOrder, DbInv, DbType
<1>2. ASSUME worker[e].pc \in GivingUp, run[r] = "running"
      PROVE  /\ \A j \in Steps : exec[r][j] \notin LiveExec
             /\ step[r][i] = "pending" /\ \A j \in Steps : j < i => step[r][j] \in DoneStep
  BY <1>0, <1>2 DEF WorkInOrder
<1>3. ASSUME Goto(e, "delete"), RowsInOrder' PROVE OrderInv'
  BY <1>3, RestKeeps DEF Resting, Position, Undecided, Launching, GivingUp
<1>4. CASE Skip(e)
  <2>0. i \in Steps /\ worker[e].pc \in GivingUp
    BY <1>0, <1>4 DEF Skip, WorkerOk, Chosen, GivingUp
  <2>1. CASE step[r][i] # "pending"
    <3>1. RowsInOrder'
      BY <1>0, <1>4, <2>1, SameInOrder DEF Skip, RowsInOrder, lease
    <3>. QED BY <1>4, <3>1, NextKeepsOrder DEF Skip
  <2>2. CASE step[r][i] = "pending"
    <3>0. /\ step' = [step EXCEPT ![r][i] = "skipped"] /\ run' = run
          /\ wakeup' = [wakeup EXCEPT ![r] = "unleased"]
      BY <1>4, <2>2 DEF Skip, Wake
    <3>1. ASSUME NEW q \in Runs, q # r PROVE RunInOrder(q)'
      <4>1. run'[q] = run[q] /\ step'[q] = step[q] /\ exec'[q] = exec[q] /\ wakeup'[q] = wakeup[q]
        BY <1>0, <3>0, <3>1 DEF DbInv, DbType
      <4>. QED BY <1>0, <4>1, SameInOrder DEF RowsInOrder
    <3>2. /\ run'[r] = run[r] /\ wakeup'[r] = "unleased" /\ step'[r][i] = "skipped"
          /\ \A j \in Steps : j # i => step'[r][j] = step[r][j]
      BY <1>0, <2>0, <3>0 DEF DbInv, DbType
    <3>3. ASSUME NEW q \in Runs, q = r PROVE RunInOrder(q)'
      BY <1>0, <1>1, <1>2, <2>0, <2>2, <3>2, <3>3 DEF RunInOrder, LiveExec, DoneStep, LostStep,
         Leases
    <3>4. RowsInOrder'
      BY <3>1, <3>3 DEF RowsInOrder
    <3>. QED BY <1>4, <3>4, NextKeepsOrder DEF Skip
  <2>. QED BY <2>1, <2>2
<1>5. CASE Fail(e)
  <2>0. i \in Steps /\ worker[e].pc \in GivingUp
    BY <1>0, <1>5 DEF Fail, WorkerOk, Chosen, GivingUp
  <2>1. RowsInOrder'
    BY <1>0, <1>2, <1>5, <2>0, FailRunInOrder DEF Fail, LostStep
  <2>. QED BY <1>3, <1>5, <2>1, NextKeepsOrder DEF Fail
<1>6. CASE Finish(e)
  <2>0. ASSUME run[r] = "running"
        PROVE  \A j \in Steps : step[r][j] \in DoneStep /\ exec[r][j] \notin LiveExec
    BY <1>0, <1>1, <1>6, <2>0 DEF Finish, WorkInOrder, RunInOrder, DoneStep
  <2>1. CASE /\ run[r] = "running" /\ run' = [run EXCEPT ![r] = "succeeded"]
             /\ Goto(e, "delete") /\ UNCHANGED <<step, lease>>
    <3>1. ASSUME NEW q \in Runs, q # r PROVE RunInOrder(q)'
      <4>1. run'[q] = run[q] /\ step'[q] = step[q] /\ exec'[q] = exec[q] /\ wakeup'[q] = wakeup[q]
        BY <1>0, <2>1, <3>1 DEF DbInv, DbType, lease
      <4>. QED BY <1>0, <4>1, SameInOrder DEF RowsInOrder
    <3>2. run'[r] = "succeeded" /\ step'[r] = step[r] /\ exec'[r] = exec[r]
      BY <1>0, <2>1 DEF DbInv, DbType
    <3>3. ASSUME NEW q \in Runs, q = r PROVE RunInOrder(q)'
      BY <1>1, <2>0, <2>1, <3>2, <3>3 DEF RunInOrder, DoneStep
    <3>. QED BY <1>3, <2>1, <3>1, <3>3 DEF RowsInOrder
  <2>2. CASE UNCHANGED <<step, run, lease>> /\ NextWakeup(e, {})
    <3>1. RowsInOrder'
      BY <1>0, <2>2, SameInOrder DEF RowsInOrder, lease
    <3>. QED BY <2>2, <3>1, NextKeepsOrder
  <2>3. CASE FailRun(r, 1, "failed") /\ NextWakeup(e, {})
    <3>1. 1 \in Steps /\ \A j \in Steps : ~(j < 1)
      BY NumStepsAssumption DEF Steps
    <3>2. RowsInOrder'
      BY <1>0, <2>0, <2>3, <3>1, FailRunInOrder DEF LostStep
    <3>. QED BY <2>3, <3>2, NextKeepsOrder
  <2>. QED BY <1>6, <2>1, <2>2, <2>3 DEF Finish
<1>. QED BY <1>4, <1>5, <1>6

-----------------------------------------------------------------------------
(* The order is kept as long as no execution is lost before its hand-off. *)

\* Before a run is accepted everything is in order.
LEMMA InitInOrder == Init => OrderInv
<1>. SUFFICES ASSUME Init PROVE OrderInv
  OBVIOUS
<1>1. RowsInOrder
  BY DEF Init, RowsInOrder, RunInOrder, LiveExec, EndedRun
<1>2. WorkersInOrder
  BY NamesAssumption DEF Init, WorkersInOrder, WorkInOrder, IdleWorker
<1>. QED BY <1>1, <1>2 DEF OrderInv

\* Every step keeps the order, as long as no step is lost.
LEMMA NextInOrder ==
  ASSUME OneEngine, IInv, OrderInv, PreHandoffIsRecoverable, [Next]_vars
  PROVE  OrderInv'
<1>1. CASE UNCHANGED vars
  BY <1>1 DEF vars, OrderInv, RowsInOrder, RunInOrder, WorkersInOrder, WorkInOrder, Listed
<1>2. CASE \E r \in Runs : Accept(r) \/ RunDeadlinePasses(r) \/ LeaseLapses(r)
  BY <1>2, WorldInOrder
<1>3. CASE \E r \in Runs, i \in Steps :
             \/ AgentStarts(r, i) \/ StepDeadlinePasses(r, i)
             \/ \E outcome \in EndedExec : AgentEnds(r, i, outcome)
  BY <1>3, WorldInOrder
<1>4. CASE Disconnect \/ \E e \in Engines : Connect(e) \/ Crash(e) \/ Rejected(e)
  BY <1>4, FaultsInOrder
<1>5. ASSUME NEW e \in Engines, Working(e) PROVE OrderInv'
  BY <1>5, PreparingInOrder, ListingInOrder, ChoiceInOrder, BuildingInOrder,
     CreationInOrder, HandingOffInOrder, EndingInOrder DEF Working
<1>. QED BY <1>1, <1>2, <1>3, <1>4, <1>5 DEF Next

\* No execution is handed off twice: a single engine never finds the execution
\* it is about to hand off with a daemon already (isRecoverablePreHandoffExecution,
\* src/src/workflows/engine.ts).
THEOREM NoSecondHandOff ==
  ASSUME OneEngine
  PROVE  Spec => []HandedOffOnce
<1>1. Init => HandedOffOnce
  BY DEF Init, HandedOffOnce, IdleWorker
<1>2. IInv /\ HandedOffOnce /\ [Next]_vars => HandedOffOnce'
  <2>. SUFFICES ASSUME IInv, HandedOffOnce, [Next]_vars PROVE HandedOffOnce'
    OBVIOUS
  <2>. USE DEF IInv
  <2>0. \A e \in Engines : worker[e] \in WorkerType /\ WorkerOk(worker[e])
    BY DEF RestType, WorkerInv
  <2>1. ASSUME UNCHANGED worker,
               \A r \in Runs, i \in Steps : exec'[r][i] = "spawning" => exec[r][i] = "spawning"
        PROVE  HandedOffOnce'
    BY <2>0, <2>1 DEF HandedOffOnce, WorkerOk, Processing, Chosen, Position
  <2>2. ASSUME NEW e \in Engines, worker'[e].pc # "dispatch" PROVE HandedOffOnce'
    BY <2>2 DEF HandedOffOnce, OneEngine
  <2>3. ASSUME NEW r \in Runs, Accept(r) \/ RunDeadlinePasses(r) \/ LeaseLapses(r) PROVE HandedOffOnce'
    BY <2>1, <2>3 DEF Accept, RunDeadlinePasses, LeaseLapses, runVars, world
  <2>4. ASSUME NEW r \in Runs, NEW i \in Steps,
               \/ AgentStarts(r, i) \/ StepDeadlinePasses(r, i)
               \/ \E outcome \in EndedExec : AgentEnds(r, i, outcome)
        PROVE  HandedOffOnce'
    <3>1. \A q \in Runs, j \in Steps : exec'[q][j] = "spawning" => exec[q][j] = "spawning"
      BY <2>4 DEF AgentStarts, StepDeadlinePasses, AgentEnds, Complete, TimeOut, EndedExec,
         runVars, DbInv, DbType
    <3>. QED BY <2>1, <2>4, <3>1 DEF AgentStarts, StepDeadlinePasses, AgentEnds, world
  <2>5. CASE Disconnect \/ \E e \in Engines : Connect(e)
    BY <2>1, <2>5 DEF Disconnect, Connect, runVars
  <2>6. ASSUME NEW e \in Engines, Crash(e) \/ Rejected(e) PROVE HandedOffOnce'
    <3>1. CASE Crash(e)
      BY <2>2, <3>1 DEF Crash, IdleWorker, RestType
    <3>2. CASE Rejected(e)
      <4>1. worker'[e].pc = "claim"
        BY <3>2 DEF Rejected, IdleWorker, RestType
      <4>. QED BY <2>2, <4>1
    <3>. QED BY <2>6, <3>1, <3>2
  <2>7. ASSUME NEW e \in Engines, CreateExecution(e) PROVE HandedOffOnce'
    <3>1. CASE UNCHANGED exec /\ exec[worker[e].at][worker[e].next] = "prehandoff" /\ Goto(e, "dispatch")
      BY <2>0, <3>1 DEF HandedOffOnce, OneEngine, Goto, RestType, WorkerType
    <3>2. CASE /\ exec' = [exec EXCEPT ![worker[e].at][worker[e].next] = "prehandoff"]
               /\ Goto(e, "dispatch")
      <4>1. worker[e].at \in Runs /\ worker[e].next \in Steps
        BY <2>0, <2>7 DEF CreateExecution, WorkerOk, Processing, Chosen, Position
      <4>. QED BY <2>0, <3>2, <4>1 DEF HandedOffOnce, OneEngine, Goto, RestType, WorkerType,
           DbInv, DbType
    <3>3. CASE \E pc \in {"delete", "settle", "deny"} : Goto(e, pc)
      BY <2>0, <2>2, <3>3 DEF Goto, RestType, WorkerType
    <3>. QED BY <2>7, <3>1, <3>2, <3>3 DEF CreateExecution, runVars, PreHandoff
  <2>8. ASSUME NEW e \in Engines, Working(e), ~CreateExecution(e) PROVE HandedOffOnce'
    <3>1. CASE \E pc \in Position \ {"dispatch"} : Goto(e, pc)
      BY <2>0, <2>2, <3>1 DEF Goto, RestType, WorkerType
    <3>2. CASE \E deferred : NextWakeup(e, deferred)
      BY <2>0, <2>2, <3>2 DEF NextWakeup, RestType, IdleWorker
    <3>3. CASE NothingToClaim(e) \/ (\E r \in Runs : Claim(e, r)) \/ ListSteps(e) \/ ChooseStep(e)
      <4>. USE DEF RestType, WorkerType
      <4>1. CASE NothingToClaim(e)
        BY <2>2, <4>1 DEF NothingToClaim, IdleWorker
      <4>2. CASE \E r \in Runs : Claim(e, r)
        BY <2>0, <2>2, <4>2 DEF Claim
      <4>3. CASE ListSteps(e)
        <5>1. ASSUME NEW seen, NEW i,
                     \/ worker' = [worker EXCEPT ![e].seen = seen, ![e].pc = "live"]
                     \/ worker' = [worker EXCEPT ![e].seen = seen, ![e].next = i, ![e].pc = "fail"]
              PROVE  HandedOffOnce'
          BY <2>0, <2>2, <5>1
        <5>. QED BY <4>3, <5>1 DEF ListSteps
      <4>4. CASE ChooseStep(e)
        <5>1. CASE Candidates(e) = {}
          BY <2>0, <2>2, <4>4, <5>1 DEF ChooseStep, Goto
        <5>2. ASSUME NEW i, NEW outcome,
                     worker' = [worker EXCEPT
                       ![e].next = i, ![e].late = overdue[worker[e].at],
                       ![e].pc = IF outcome = "run" THEN "build"
                                 ELSE IF outcome = "skip" THEN "skip" ELSE "fail"]
              PROVE  HandedOffOnce'
          BY <2>0, <2>2, <5>2
        <5>. QED BY <4>4, <5>1, <5>2 DEF ChooseStep
      <4>. QED BY <3>3, <4>1, <4>2, <4>3, <4>4
    <3>4. CASE Reconcile(e)
      <4>1. worker'[e].pc # "dispatch"
        BY <2>0, <3>4 DEF Reconcile, Goto, RestType, WorkerType
      <4>. QED BY <2>2, <4>1
    <3>. QED BY <2>8, <3>1, <3>2, <3>3, <3>4 DEF Working, SweepDeadlines, RecoverWakeups,
         LoadRun, ReloadRun, FindLive,
         BuildIntent, Defer, HandOff, Settle, Delete, Skip, Fail, Finish, Position
  <2>9. CASE UNCHANGED vars
    BY <2>1, <2>9 DEF vars
  <2>. QED BY <2>3, <2>4, <2>5, <2>6, <2>7, <2>8, <2>9 DEF Next
<1>. QED BY <1>1, <1>2, Invariance, PTL DEF Spec

\* As long as no execution is lost before its hand-off, everything stays in order.
LEMMA OrderInvariance ==
  ASSUME OneEngine
  PROVE  Spec /\ []PreHandoffIsRecoverable => []OrderInv
<1>1. Init => OrderInv
  BY InitInOrder
<1>2. IInv /\ OrderInv /\ PreHandoffIsRecoverable /\ [Next]_vars => OrderInv'
  BY NextInOrder
<1>. QED BY <1>1, <1>2, Invariance, PTL DEF Spec

\* As long as no execution is lost before its hand-off, agents work for live runs
\* only: no run ends over an execution that goes on (findLiveExecution,
\* src/src/workflows/engine.ts; completeWorkflowAgentExecution, src/src/db/pg.ts).
THEOREM AgentsOfLiveRuns ==
  ASSUME OneEngine
  PROVE  Spec /\ []PreHandoffIsRecoverable => []LiveExecutionOfLiveRun
<1>1. OrderInv => LiveExecutionOfLiveRun
  BY DEF OrderInv, RowsInOrder, RunInOrder, LiveExecutionOfLiveRun
<1>. QED BY <1>1, OrderInvariance, PTL

\* As long as no execution is lost before its hand-off, a step begins after those
\* before it are done, however wakeups are claimed and redelivered
\* (prepareWorkflowWakeup, src/src/workflows/engine.ts).
THEOREM StepsRunInOrder ==
  ASSUME OneEngine
  PROVE  Spec /\ []PreHandoffIsRecoverable => []StepsInOrder
<1>1. OrderInv => StepsInOrder
  BY DEF OrderInv, RowsInOrder, RunInOrder, StepsInOrder
<1>. QED BY <1>1, OrderInvariance, PTL

\* As long as no execution is lost before its hand-off, a run that is reported
\* succeeded has no step left (finishWorkflowRunIfComplete, src/src/workflows/engine.ts).
THEOREM SuccessIsComplete ==
  ASSUME OneEngine
  PROVE  Spec /\ []PreHandoffIsRecoverable => []SucceededRunIsComplete
<1>1. OrderInv => SucceededRunIsComplete
  BY DEF OrderInv, RowsInOrder, RunInOrder, SucceededRunIsComplete
<1>. QED BY <1>1, OrderInvariance, PTL

-----------------------------------------------------------------------------
(* One fault at most *)

\* Nothing but one crash, rejected call or lost connection goes wrong, and the
\* provider delivers its events once.
SingleFault == OneEngine /\ Redelivered = {} /\ MaxFaults <= 1

\* What an engine with locals w keeps of a run that goes on.  The lease of an
\* execution that is not handed off is given up only by a fault; until one
\* happens, a run whose agent works has no wakeup but the one being deleted.
Guarded(w, r) ==
  run[r] = "running" =>
    /\ w.at = r /\ w.pc \in Undecided \cup {"dispatch"} /\ wakeup[r] \notin Leases => faults >= 1
    /\ w.at = r /\ w.pc = "sweep" => overdue[r]
    /\ w.at = r /\ w.pc \in {"settle", "delete"} => \A i \in Steps : exec[r][i] # "prehandoff"
    /\ w.at = r /\ w.pc = "dispatch" => exec[r][w.next] = "prehandoff"
    /\ faults = 0 /\ wakeup[r] # "none" /\ (\E i \in Steps : exec[r][i] \in HandedOff) =>
         w.at = r /\ w.pc \in {"settle", "delete"}
    /\ (\E i \in Steps : exec[r][i] = "prehandoff") =>
         wakeup[r] \in Leases \/ (w.at = r /\ w.pc = "dispatch")

FaultInv == \A e \in Engines, r \in Runs : Guarded(worker[e], r)

\* The engine's step keeps what it does not touch.
LEMMA OwnGuarded ==
  ASSUME IInv, NEW e \in Engines, NEW r \in Runs, Guarded(worker[e], r),
         worker[e].at # r \/ worker[e].pc \notin {"dispatch", "settle", "delete"},
         faults' \in Nat, faults' >= faults, overdue' = overdue,
         run'[r] = "running" => Same(r),
         NEW w, worker' = [worker EXCEPT ![e] = w],
         w.at = r /\ run'[r] = "running" =>
           /\ w.pc \in Undecided \cup {"dispatch"} =>
                worker[e].at = r /\ worker[e].pc \in Undecided
           /\ w.pc = "sweep" => overdue[r]
           /\ w.pc \in {"settle", "delete"} => \A i \in Steps : exec[r][i] # "prehandoff"
           /\ w.pc = "dispatch" => exec[r][w.next] = "prehandoff"
  PROVE  Guarded(worker[e], r)'
<1>. SUFFICES ASSUME run'[r] = "running" PROVE Guarded(worker[e], r)'
  BY DEF Guarded
<1>1. worker'[e] = w /\ faults \in Nat
  BY DEF IInv, RestType
<1>2. Same(r)
  OBVIOUS
<1>. QED BY <1>1, <1>2 DEF Guarded, Same

\* Agents, deadlines, lapsing leases and lost connections.
LEMMA WorldGuarded ==
  ASSUME IInv, IInv', OrderInv, Redelivered = {}, NEW e \in Engines, NEW r \in Runs,
         Guarded(worker[e], r),
         \/ \E q \in Runs : Accept(q) \/ RunDeadlinePasses(q) \/ LeaseLapses(q)
         \/ \E q \in Runs, i \in Steps :
              \/ AgentStarts(q, i) \/ StepDeadlinePasses(q, i)
              \/ \E outcome \in EndedExec : AgentEnds(q, i, outcome)
         \/ Disconnect \/ \E f \in Engines : Connect(f)
         \/ UNCHANGED vars
  PROVE  Guarded(worker[e], r)'
<1>. SUFFICES ASSUME run'[r] = "running" PROVE Guarded(worker[e], r)'
  BY DEF Guarded
<1>0. /\ faults \in Nat /\ faults' \in Nat /\ worker[e] \in WorkerType /\ WorkerOk(worker[e])
      /\ DbInv /\ RunInv(r) /\ RowsInOrder /\ RunInOrder(r) /\ overdue \in [Runs -> BOOLEAN]
  BY DEF IInv, RestType, WorkerInv, DbInv, OrderInv, RowsInOrder
<1>1. ASSUME NEW q \in Runs, Accept(q) PROVE Guarded(worker[e], r)'
  <2>1. CASE q = r
    <3>1. /\ run[r] = "none" /\ UNCHANGED <<exec, worker>>
          /\ \A i \in Steps : exec[r][i] = "none"
      BY <1>0, <1>1, <2>1 DEF Accept, RunInv
    <3>2. worker[e].at # r
      BY <1>0, <3>1, NamesAssumption DEF WorkerOk
    <3>. QED BY <3>1, <3>2 DEF Guarded, HandedOff
  <2>2. CASE q # r
    <3>1. run'[r] = run[r] /\ wakeup'[r] = wakeup[r] /\ UNCHANGED <<exec, worker, faults, overdue>>
      BY <1>0, <1>1, <2>2 DEF Accept, Wake, clock, world, DbInv, DbType
    <3>. QED BY <3>1 DEF Guarded
  <2>. QED BY <2>1, <2>2
<1>2. ASSUME NEW q \in Runs, RunDeadlinePasses(q) \/ LeaseLapses(q) PROVE Guarded(worker[e], r)'
  <2>1. /\ UNCHANGED <<run, exec, worker, faults>> /\ (overdue[r] => overdue'[r])
        /\ wakeup'[r] = wakeup[r] \/ (wakeup[r] \in Leases /\ wakeup'[r] \in Leases)
    BY <1>0, <1>2 DEF RunDeadlinePasses, LeaseLapses, runVars, lease, clock, world, Leases,
       DbInv, DbType
  <2>. QED BY <2>1 DEF Guarded, Leases
<1>3. ASSUME NEW q \in Runs, NEW i \in Steps, AgentStarts(q, i) \/ StepDeadlinePasses(q, i)
      PROVE  Guarded(worker[e], r)'
  <2>1. UNCHANGED <<run, wakeup, worker, faults, overdue>>
    BY <1>3 DEF AgentStarts, StepDeadlinePasses, runVars, lease, clock, world
  <2>2. \A j \in Steps : \/ exec'[r][j] = exec[r][j]
                         \/ exec[r][j] \in HandedOff /\ exec'[r][j] \in HandedOff
    BY <1>0, <1>3 DEF AgentStarts, StepDeadlinePasses, runVars, HandedOff, DbInv, DbType
  <2>3. worker[e].at = r /\ worker[e].pc = "dispatch" => worker[e].next \in Steps
    BY <1>0 DEF WorkerOk, Chosen
  <2>. QED BY <2>1, <2>2, <2>3 DEF Guarded, HandedOff
<1>4. ASSUME NEW q \in Runs, NEW i \in Steps, NEW outcome \in EndedExec, AgentEnds(q, i, outcome)
      PROVE  Guarded(worker[e], r)'
  <2>1. /\ exec[q][i] \in LiveExec /\ (exec[q][i] # "prehandoff" \/ StepDue(q, i))
        /\ Complete(q, i, outcome) /\ UNCHANGED <<condition, worker, faults, overdue>>
    BY <1>4 DEF AgentEnds, clock, world
  <2>2. IF r = q THEN Advanced(q, i) /\ ~StepDue(q, i) ELSE Same(r)
    BY <1>0, <2>1, CompleteInOrder
  <2>3. CASE r # q
    BY <2>1, <2>2, <2>3 DEF Guarded, Same
  <2>4. CASE r = q
    <3>1. exec[r][i] \in HandedOff /\ run[r] = "running" /\ wakeup'[r] = "unleased"
      BY <2>1, <2>2, <2>4 DEF Advanced, HandedOff, LiveExec
    <3>2. \A j \in Steps : j # i => exec[r][j] \notin LiveExec
      BY <1>0, <2>1, <2>4, OneLive
    <3>3. \A j \in Steps : exec'[r][j] \notin LiveExec
      <4>1. exec[r] \in [Steps -> ExecStatus] /\ exec'[r] = [exec[r] EXCEPT ![i] = "succeeded"]
        BY <1>0, <2>2, <2>4 DEF Advanced, DbInv, DbType
      <4>. QED BY <3>2, <4>1 DEF LiveExec
    <3>4. ~(worker[e].at = r /\ worker[e].pc = "dispatch")
      <4>1. worker[e].pc = "dispatch" => worker[e].next \in Steps
        BY <1>0 DEF WorkerOk, Chosen
      <4>2. ASSUME NEW j \in Steps PROVE exec[r][j] # "prehandoff"
        BY <3>1, <3>2 DEF LiveExec, HandedOff
      <4>3. worker[e].at = r /\ worker[e].pc = "dispatch" => exec[r][worker[e].next] = "prehandoff"
        BY <3>1 DEF Guarded
      <4>. QED BY <4>1, <4>2, <4>3
    <3>5. worker[e].at = r /\ worker[e].pc \in Undecided => faults >= 1
      BY <1>0, <3>1 DEF Guarded, Undecided, Leases
    <3>. QED BY <2>1, <3>1, <3>3, <3>4, <3>5 DEF Guarded, LiveExec, HandedOff
  <2>. QED BY <2>3, <2>4
<1>5. CASE Disconnect \/ (\E f \in Engines : Connect(f)) \/ UNCHANGED vars
  <2>1. UNCHANGED <<run, exec, wakeup, worker, overdue>> /\ faults' >= faults
    BY <1>0, <1>5 DEF Disconnect, Connect, vars, runVars, lease, clock
  <2>. QED BY <1>0, <2>1 DEF Guarded
<1>. QED BY <1>1, <1>2, <1>3, <1>4, <1>5

\* The one fault: the engine dies or gives the wakeup up, and its lease is there.
LEMMA FaultGuarded ==
  ASSUME IInv, MaxFaults <= 1, NEW e \in Engines, NEW r \in Runs,
         Guarded(worker[e], r), Crash(e) \/ Rejected(e)
  PROVE  Guarded(worker[e], r)'
<1>. SUFFICES ASSUME run'[r] = "running" PROVE Guarded(worker[e], r)'
  BY DEF Guarded
<1>1. faults = 0 /\ faults' = 1 /\ UNCHANGED <<run, exec, wakeup>>
  <2>1. faults < MaxFaults /\ faults' = faults + 1 /\ UNCHANGED <<run, exec, wakeup>>
    BY DEF Crash, Rejected, runVars, lease
  <2>2. faults \in Nat /\ MaxFaults \in Nat
    BY LimitsAssumption DEF IInv, RestType
  <2>. QED BY <2>1, <2>2
<1>2. worker'[e].at = NoRun
  <2>1. CASE Crash(e)
    BY <2>1 DEF Crash, IdleWorker, IInv, RestType
  <2>2. CASE Rejected(e)
    BY <2>2 DEF Rejected, IdleWorker, IInv, RestType
  <2>. QED BY <2>1, <2>2
<1>. QED BY <1>1, <1>2, NamesAssumption DEF Guarded

\* The engine looks for work, reads the run and chooses a step.
LEMMA ReadingGuarded ==
  ASSUME IInv, IInv', OrderInv, NEW e \in Engines, NEW r \in Runs, Guarded(worker[e], r),
         \/ SweepDeadlines(e) \/ RecoverWakeups(e) \/ NothingToClaim(e)
         \/ \E q \in Runs : Claim(e, q)
         \/ LoadRun(e) \/ Reconcile(e) \/ ReloadRun(e) \/ ListSteps(e) \/ FindLive(e)
         \/ ChooseStep(e) \/ BuildIntent(e)
  PROVE  Guarded(worker[e], r)'
<1>. SUFFICES ASSUME run'[r] = "running" PROVE Guarded(worker[e], r)'
  BY DEF Guarded
<1>0. /\ faults \in Nat /\ faults' \in Nat /\ worker[e] \in WorkerType /\ WorkerOk(worker[e])
      /\ DbInv /\ RunInv(r) /\ RowsInOrder /\ RunInOrder(r) /\ overdue \in [Runs -> BOOLEAN]
      /\ worker[e].at \in Runs \cup {NoRun}
  BY DEF IInv, RestType, WorkerInv, DbInv, OrderInv, RowsInOrder, WorkerType
<1>1. CASE SweepDeadlines(e)
  <2>1. /\ TimeOut(OverdueRuns, LateSteps) /\ UNCHANGED <<condition, overdue, faults>>
        /\ worker[e].pc \in {"idle", "sweep"}
    BY <1>1 DEF SweepDeadlines, clock, world
  <2>2. Same(r)
    BY <1>0, <2>1, TimeOutInOrder DEF LateSteps
  <2>3. ~overdue[r]
    BY <1>0, <2>1, <2>2 DEF TimeOut, OverdueRuns, Same
  <2>4. PICK pc \in {"recover", "delete"} : Goto(e, pc) /\ (pc = "delete" => worker[e].pc = "sweep")
    BY <1>1 DEF SweepDeadlines
  <2>. DEFINE w == [worker[e] EXCEPT !.pc = pc]
  <2>5. w.pc = pc /\ w.at = worker[e].at /\ worker' = [worker EXCEPT ![e] = w]
    BY <1>0, <2>4 DEF WorkerType, Goto
  <2>6. w.at = r => pc # "delete"
    BY <2>2, <2>3, <2>4, <2>5 DEF Guarded, Same
  <2>. HIDE DEF w
  <2>7. /\ worker[e].pc \notin {"dispatch", "settle", "delete"} /\ faults' >= faults
        /\ w.pc \notin Undecided \cup {"dispatch", "sweep", "settle"} /\ (w.at = r => w.pc # "delete")
    BY <1>0, <2>1, <2>4, <2>5, <2>6 DEF Undecided
  <2>. QED BY <1>0, <2>1, <2>2, <2>5, <2>7, OwnGuarded
<1>2. CASE RecoverWakeups(e)
  <2>1. /\ UNCHANGED <<run, exec, overdue, faults>> /\ worker[e].pc = "recover" /\ worker'[e].pc = "claim"
        /\ \/ wakeup'[r] = wakeup[r]
           \/ wakeup'[r] = "unleased" /\ \A i \in Steps : exec[r][i] \notin LiveExec
    BY <1>0, <1>2 DEF RecoverWakeups, Goto, runVars, clock, world, IInv, RestType, WorkerType
  <2>. QED BY <2>1 DEF Guarded, Undecided, LiveExec, HandedOff
<1>3. ASSUME NEW q \in Runs, Claim(e, q), q = r PROVE Guarded(worker[e], r)'
  <2>1. UNCHANGED <<run, exec, overdue, faults>> /\ worker[e].pc = "claim"
    BY <1>3 DEF Claim, runVars, clock, world
  <2>2. wakeup[r] # "none" /\ wakeup'[r] = "leased"
    BY <1>0, <1>3 DEF Claim, Claimable, DbInv, DbType
  <2>3. worker'[e].pc = "load"
    BY <1>0, <1>3 DEF Claim, IInv, RestType, WorkerType
  <2>. QED BY <2>1, <2>2, <2>3 DEF Guarded, Undecided, Leases
<1>4. ASSUME NEW q \in Runs, Claim(e, q), q # r PROVE Guarded(worker[e], r)'
  <2>1. UNCHANGED <<run, exec, overdue, faults>> /\ worker[e].pc = "claim"
    BY <1>4 DEF Claim, runVars, clock, world
  <2>2. wakeup'[r] = wakeup[r]
    BY <1>0, <1>4 DEF Claim, DbInv, DbType
  <2>3. worker'[e].at = q
    BY <1>0, <1>4 DEF Claim, IInv, RestType, WorkerType
  <2>. QED BY <1>4, <2>1, <2>2, <2>3 DEF Guarded
\* The other steps leave the rows and the lease alone.
<1>5. ASSUME UNCHANGED <<run, step, exec, wakeup, overdue>>, faults' >= faults,
             worker[e].pc \notin {"dispatch", "settle", "delete"},
             NEW w, worker' = [worker EXCEPT ![e] = w], w.pc # "dispatch",
             w.at # NoRun => w.at = worker[e].at,
             w.pc \in Undecided => worker[e].pc \in Undecided,
             w.pc = "sweep" /\ w.at = r => overdue[r],
             w.pc \in {"settle", "delete"} /\ w.at = r => \A i \in Steps : exec[r][i] # "prehandoff"
      PROVE  Guarded(worker[e], r)'
  <2>1. Same(r)
    BY <1>5 DEF Same
  <2>2. w.at = r => worker[e].at = r
    BY <1>5, NamesAssumption
  <2>. QED BY <1>0, <1>5, <2>1, <2>2, OwnGuarded
<1>6. CASE NothingToClaim(e)
  <2>1. IdleWorker.at = NoRun /\ IdleWorker.pc = "idle"
    BY DEF IdleWorker
  <2>2. /\ UNCHANGED <<run, step, exec, wakeup, overdue>> /\ faults' >= faults
        /\ worker[e].pc = "claim" /\ worker' = [worker EXCEPT ![e] = IdleWorker]
    BY <1>0, <1>6 DEF NothingToClaim, runVars, lease, clock, world
  <2>3. IdleWorker.pc \notin Undecided \cup {"dispatch", "sweep", "settle", "delete"}
    BY <2>1 DEF Undecided
  <2>. QED BY <1>5, <2>1, <2>2, <2>3
<1>7. ASSUME UNCHANGED <<run, step, exec, wakeup, overdue>>, faults' >= faults,
             worker[e].pc \in Undecided, NEW pc \in Position, Goto(e, pc),
             pc \notin {"dispatch", "settle"}, pc = "sweep" /\ worker[e].at = r => overdue[r],
             pc = "delete" /\ worker[e].at = r => \A i \in Steps : exec[r][i] # "prehandoff"
      PROVE  Guarded(worker[e], r)'
  <2>. DEFINE w == [worker[e] EXCEPT !.pc = pc]
  <2>1. w.pc = pc /\ w.at = worker[e].at /\ worker' = [worker EXCEPT ![e] = w]
    BY <1>0, <1>7 DEF WorkerType, Goto
  <2>. HIDE DEF w
  <2>. QED BY <1>5, <1>7, <2>1 DEF Undecided
<1>8. CASE LoadRun(e) \/ ReloadRun(e)
  <2>1. UNCHANGED <<run, step, exec, wakeup, overdue, faults>> /\ worker[e].pc \in Undecided
    BY <1>8 DEF LoadRun, ReloadRun, runVars, lease, clock, world, Undecided
  <2>2. \E pc \in {"delete", "sweep", "reconcile", "list"} :
          /\ Goto(e, pc) /\ (pc = "delete" => run[worker[e].at] # "running")
          /\ (pc = "sweep" => overdue[worker[e].at])
    BY <1>8 DEF LoadRun, ReloadRun
  <2>. QED BY <1>0, <1>7, <2>1, <2>2 DEF Position
<1>9. CASE Reconcile(e)
  <2>1. worker[e].at \in Runs
    BY <1>0, <1>9 DEF Reconcile, WorkerOk, Processing, Position
  <2>2. {i \in Steps : step[worker[e].at][i] = "running" /\ exec[worker[e].at][i] \in EndedExec} = {}
    BY <1>0, <2>1 DEF DbInv, RunInv, EndedStep
  <2>3. UNCHANGED <<run, step, exec, wakeup, overdue, faults>> /\ worker[e].pc \in Undecided /\ Goto(e, "reload")
    BY <1>9, <2>2 DEF Reconcile, lease, clock, world, Undecided
  <2>. QED BY <1>0, <1>7, <2>3 DEF Position
<1>10. CASE FindLive(e)
  <2>1. UNCHANGED <<run, step, exec, wakeup, overdue, faults>> /\ worker[e].pc \in Undecided
    BY <1>10 DEF FindLive, runVars, lease, clock, world, Undecided
  <2>2. CASE HasLive(e)
    <3>1. worker[e].at = r => \A i \in Steps : exec[r][i] # "prehandoff"
      BY <1>0, <2>2, OneLive DEF HasLive, PreHandoff, LiveExec
    <3>. QED BY <1>0, <1>7, <1>10, <2>1, <2>2, <3>1 DEF FindLive, Position
  <2>3. CASE ~HasLive(e)
    BY <1>0, <1>7, <1>10, <2>1, <2>3 DEF FindLive, Position
  <2>. QED BY <2>2, <2>3
<1>11. CASE BuildIntent(e)
  <2>1. UNCHANGED <<run, step, exec, wakeup, overdue>> /\ worker[e].pc \in Undecided /\ faults' >= faults
    BY <1>0, <1>11 DEF BuildIntent, runVars, lease, clock, Undecided
  <2>2. \E pc \in {"create", "defer", "fail"} : Goto(e, pc)
    BY <1>11 DEF BuildIntent
  <2>. QED BY <1>0, <1>7, <2>1, <2>2 DEF Position
<1>12. CASE ListSteps(e) \/ ChooseStep(e)
  <2>1. UNCHANGED <<run, step, exec, wakeup, overdue, faults>> /\ worker[e].pc \in Undecided
    BY <1>12 DEF ListSteps, ChooseStep, runVars, lease, clock, world, Undecided
  <2>2. ASSUME NEW w, worker' = [worker EXCEPT ![e] = w], w.at = worker[e].at,
               w.pc \in {"live", "fail", "build", "skip", "finish"}
        PROVE  Guarded(worker[e], r)'
    <3>1. /\ worker[e].pc \notin {"dispatch", "settle", "delete"} /\ faults' >= faults
          /\ w.pc \notin {"dispatch", "sweep", "settle", "delete"}
      BY <1>0, <2>1, <2>2 DEF Undecided
    <3>. QED BY <1>5, <2>1, <2>2, <3>1
  <2>3. CASE ListSteps(e)
    <3>1. ASSUME NEW seen, worker' = [worker EXCEPT ![e].seen = seen, ![e].pc = "live"]
          PROVE  Guarded(worker[e], r)'
      <4>. DEFINE w == [worker[e] EXCEPT !.seen = seen, !.pc = "live"]
      <4>1. w.pc = "live" /\ w.at = worker[e].at /\ worker' = [worker EXCEPT ![e] = w]
        BY <1>0, <3>1 DEF WorkerType
      <4>. HIDE DEF w
      <4>. QED BY <2>2, <4>1
    <3>2. ASSUME NEW seen, NEW i,
                 worker' = [worker EXCEPT ![e].seen = seen, ![e].next = i, ![e].pc = "fail"]
          PROVE  Guarded(worker[e], r)'
      <4>. DEFINE w == [worker[e] EXCEPT !.seen = seen, !.next = i, !.pc = "fail"]
      <4>1. w.pc = "fail" /\ w.at = worker[e].at /\ worker' = [worker EXCEPT ![e] = w]
        BY <1>0, <3>2 DEF WorkerType
      <4>. HIDE DEF w
      <4>. QED BY <2>2, <4>1
    <3>. QED BY <2>3, <3>1, <3>2 DEF ListSteps
  <2>4. CASE ChooseStep(e)
    <3>1. CASE Goto(e, "finish")
      <4>. DEFINE w == [worker[e] EXCEPT !.pc = "finish"]
      <4>1. w.pc = "finish" /\ w.at = worker[e].at /\ worker' = [worker EXCEPT ![e] = w]
        BY <1>0, <3>1 DEF WorkerType, Goto
      <4>. QED BY <2>2, <4>1
    <3>2. ASSUME NEW i, NEW late, NEW pc \in {"build", "skip", "fail"},
                 worker' = [worker EXCEPT ![e].next = i, ![e].late = late, ![e].pc = pc]
          PROVE  Guarded(worker[e], r)'
      <4>. DEFINE w == [worker[e] EXCEPT !.next = i, !.late = late, !.pc = pc]
      <4>1. w.pc = pc /\ w.at = worker[e].at /\ worker' = [worker EXCEPT ![e] = w]
        BY <1>0, <3>2 DEF WorkerType
      <4>. HIDE DEF w
      <4>. QED BY <2>2, <4>1
    <3>3. ASSUME NEW i, NEW outcome,
                 worker' = [worker EXCEPT
                   ![e].next = i, ![e].late = overdue[worker[e].at],
                   ![e].pc = IF outcome = "run" THEN "build"
                             ELSE IF outcome = "skip" THEN "skip" ELSE "fail"]
          PROVE  Guarded(worker[e], r)'
      BY <3>2, <3>3
    <3>. QED BY <2>4, <3>1, <3>3 DEF ChooseStep
  <2>. QED BY <1>12, <2>3, <2>4
<1>. QED BY <1>1, <1>2, <1>3, <1>4, <1>6, <1>8, <1>9, <1>10, <1>11, <1>12

\* The engine creates, hands off and settles, gives up, and is done with the wakeup.
LEMMA ActingGuarded ==
  ASSUME IInv, IInv', OrderInv, NEW e \in Engines, NEW r \in Runs, Guarded(worker[e], r),
         \/ Defer(e) \/ CreateExecution(e) \/ HandOff(e) \/ Settle(e) \/ Delete(e)
         \/ Skip(e) \/ Fail(e) \/ Finish(e)
  PROVE  Guarded(worker[e], r)'
<1>. SUFFICES ASSUME run'[r] = "running" PROVE Guarded(worker[e], r)'
  BY DEF Guarded
<1>. DEFINE i == worker[e].next
<1>0. /\ faults \in Nat /\ faults' \in Nat /\ worker[e] \in WorkerType /\ WorkerOk(worker[e])
      /\ DbInv /\ RunInv(r) /\ RowsInOrder /\ RunInOrder(r) /\ WorkInOrder(worker[e])
  BY DEF IInv, RestType, WorkerInv, DbInv, OrderInv, RowsInOrder, WorkersInOrder
<1>1. worker[e].at \in Runs /\ UNCHANGED <<overdue, condition>> /\ faults' >= faults
  BY <1>0 DEF Defer, CreateExecution, HandOff, Settle, Delete, Skip, Fail, Finish, clock, world,
     WorkerOk, Processing, Position
\* What the step does to another run than the one worked on is nothing.
<1>2. ASSUME worker[e].at # r, Same(r), worker'[e].at \in {worker[e].at, NoRun}
      PROVE  Guarded(worker[e], r)'
  BY <1>0, <1>1, <1>2, NamesAssumption DEF Guarded, Same
<1>3. ASSUME NEW pc, Goto(e, pc) PROVE worker'[e].at = worker[e].at /\ worker'[e].pc = pc /\ worker'[e].next = i
  BY <1>0, <1>3 DEF Goto, IInv, RestType, WorkerType
<1>4. ASSUME NEW deferred, NextWakeup(e, deferred) PROVE worker'[e].at = NoRun
  BY <1>4 DEF NextWakeup, IdleWorker, IInv, RestType
<1>5. CASE worker[e].at # r
  <2>1. Same(r)
    <3>. USE <1>0, <1>1, <1>5 DEF DbInv, DbType
    <3>1. CASE Defer(e) \/ Delete(e) \/ Skip(e)
      BY <3>1 DEF Defer, Delete, DeleteWakeup, Skip, Wake, Same, runVars, lease
    <3>2. CASE Fail(e) \/ Finish(e)
      <4>1. ASSUME NEW j, NEW status, FailRun(worker[e].at, j, status), UNCHANGED exec
            PROVE  Same(r)
        BY <4>1 DEF FailRun, DeleteWakeup, Same
      <4>2. CASE Fail(e)
        BY <4>1, <4>2 DEF Fail
      <4>3. CASE Finish(e)
        <5>1. CASE UNCHANGED <<step, exec, lease>> /\ run'[r] = run[r]
          BY <5>1 DEF Same, lease
        <5>2. CASE run' = [run EXCEPT ![worker[e].at] = "succeeded"] /\ UNCHANGED <<step, exec, lease>>
          BY <5>1, <5>2
        <5>3. CASE UNCHANGED <<run, step, exec, lease>>
          BY <5>1, <5>3
        <5>. QED BY <4>1, <4>3, <5>2, <5>3 DEF Finish
      <4>. QED BY <3>2, <4>2, <4>3
    <3>3. CASE CreateExecution(e)
      <4>1. CASE TimeOut({worker[e].at}, {})
        BY <4>1, TimeOutInOrder
      <4>2. CASE UNCHANGED <<runVars, lease>>
        BY <4>2 DEF Same, runVars, lease
      <4>3. CASE /\ exec' = [exec EXCEPT ![worker[e].at][i] = "prehandoff"]
                 /\ step' = [step EXCEPT ![worker[e].at][i] = "running"]
                 /\ UNCHANGED <<run, lease>>
        BY <4>3 DEF Same, lease
      <4>. QED BY <3>3, <4>1, <4>2, <4>3 DEF CreateExecution
    <3>4. CASE HandOff(e)
      <4>1. i \in Steps
        BY <3>4 DEF HandOff, WorkerOk, Chosen
      <4>2. CASE exec[worker[e].at][i] \in LiveExec /\ Complete(worker[e].at, i, "failed")
        BY <4>1, <4>2, CompleteInOrder DEF EndedExec
      <4>3. CASE /\ exec' = [exec EXCEPT ![worker[e].at][i] = IF @ = "prehandoff" THEN "spawning" ELSE @]
                 /\ UNCHANGED <<run, step, notify, lease, faults>>
        BY <4>3 DEF Same, lease
      <4>. QED BY <3>4, <4>2, <4>3 DEF HandOff, LiveExec
    <3>5. CASE Settle(e)
      <4>1. i \in Steps
        BY <3>5 DEF Settle, WorkerOk, Chosen
      <4>2. exec[worker[e].at][i] \in EndedExec => step[worker[e].at][i] \in EndedStep
        BY <4>1 DEF RunInv
      <4>. QED BY <3>5, <4>2 DEF Settle, FinishStep, Same, lease
    <3>. QED BY <3>1, <3>2, <3>3, <3>4, <3>5
  <2>2. worker'[e].at \in {worker[e].at, NoRun}
    BY <1>3, <1>4 DEF Defer, CreateExecution, HandOff, Settle, Delete, Skip, Fail, Finish
  <2>. QED BY <1>2, <1>5, <2>1, <2>2
<1>6. CASE worker[e].at = r
  <2>. USE <1>6
  <2>1. CASE Defer(e)
    <3>1. /\ UNCHANGED <<run, exec, faults>> /\ worker[e].pc = "defer" /\ worker'[e].at = NoRun
          /\ wakeup'[r] = wakeup[r] \/ (wakeup[r] \in Leases /\ wakeup'[r] \in Leases)
      BY <1>0, <1>4, <2>1 DEF Defer, runVars, world, Leases, DbInv, DbType
    <3>. QED BY <3>1, NamesAssumption DEF Guarded, Leases
  <2>2. CASE CreateExecution(e)
    <3>0. worker[e].pc = "create" /\ faults' = faults /\ i \in Steps
      BY <1>0, <2>2 DEF CreateExecution, world, WorkerOk, Chosen
    <3>1. CASE TimeOut({r}, {}) /\ run[r] = "running"
      BY <3>1 DEF TimeOut
    <3>2. ASSUME run[r] = "running", exec[r][i] # "none",
                 Goto(e, IF PreHandoff(exec[r][i]) /\ worker[e].recovering THEN "dispatch" ELSE "settle"),
                 UNCHANGED <<runVars, lease>>
          PROVE  Guarded(worker[e], r)'
      <4>1. \A j \in Steps : exec[r][j] = "prehandoff" => worker[e].recovering /\ j = i
        BY <1>0, <3>0, <3>2 DEF WorkInOrder, Undecided, Launching
      <4>2. PICK pc \in {"dispatch", "settle"} :
              Goto(e, pc) /\ (pc = "dispatch" <=> exec[r][i] = "prehandoff" /\ worker[e].recovering)
        BY <3>2 DEF PreHandoff
      <4>. QED BY <1>0, <1>3, <3>0, <3>2, <4>1, <4>2 DEF Guarded, Undecided, runVars, lease
    <3>3. CASE UNCHANGED <<runVars, lease>> /\ Goto(e, "deny")
      BY <1>0, <1>3, <3>0, <3>3 DEF Guarded, Undecided, runVars, lease
    <3>4. CASE /\ run[r] = "running" /\ exec[r][i] = "none"
               /\ exec' = [exec EXCEPT ![r][i] = "prehandoff"]
               /\ Goto(e, "dispatch") /\ UNCHANGED <<run, lease>>
      <4>1. exec'[r][i] = "prehandoff" /\ \A j \in Steps : j # i => exec'[r][j] = exec[r][j]
        BY <1>0, <3>0, <3>4 DEF DbInv, DbType
      <4>. QED BY <1>0, <1>3, <3>0, <3>4, <4>1 DEF Guarded, Undecided, HandedOff, lease
    <3>5. CASE run[r] # "running" /\ UNCHANGED runVars
      BY <3>5 DEF runVars
    <3>. QED BY <2>2, <3>1, <3>2, <3>3, <3>4, <3>5 DEF CreateExecution
  <2>3. CASE HandOff(e)
    <3>0. worker[e].pc = "dispatch" /\ i \in Steps
      BY <1>0, <2>3 DEF HandOff, WorkerOk, Chosen
    <3>1. CASE /\ exec' = [exec EXCEPT ![r][i] = IF @ = "prehandoff" THEN "spawning" ELSE @]
               /\ UNCHANGED <<run, step, notify, lease, faults>>
      <4>1. exec[r][i] = "prehandoff" /\ run[r] = "running"
        BY <3>0, <3>1 DEF Guarded
      <4>2. \A j \in Steps : exec'[r][j] # "prehandoff"
        BY <1>0, <3>0, <3>1, <4>1, OneLive DEF LiveExec, DbInv, DbType
      <4>. QED BY <1>3, <2>3, <3>1, <4>2 DEF HandOff, Guarded, Undecided
    <3>2. CASE exec[r][i] \in {"prehandoff", "spawning"} /\ Complete(r, i, "failed")
      <4>1. FALSE
        BY <1>0, <1>1, <3>0, <3>2, CompleteInOrder DEF LiveExec, EndedExec
      <4>. QED BY <4>1
    <3>. QED BY <2>3, <3>1, <3>2 DEF HandOff
  <2>4. CASE Settle(e)
    <3>1. i \in Steps /\ worker[e].pc = "settle"
      BY <1>0, <2>4 DEF Settle, WorkerOk, Chosen
    <3>2. exec[r][i] \in EndedExec => step[r][i] \in EndedStep
      BY <1>0, <3>1 DEF RunInv
    <3>3. UNCHANGED <<run, exec, wakeup, faults>> /\ Goto(e, "delete")
      BY <2>4, <3>2 DEF Settle, FinishStep, lease, world
    <3>. QED BY <1>3, <3>1, <3>3 DEF Guarded, Undecided
  <2>5. CASE Delete(e)
    <3>1. UNCHANGED <<run, exec, faults>> /\ worker[e].pc = "delete" /\ wakeup'[r] = "none" /\ worker'[e].at = NoRun
      BY <1>0, <1>4, <2>5 DEF Delete, DeleteWakeup, runVars, world, DbInv, DbType
    <3>. QED BY <3>1, NamesAssumption DEF Guarded
  <2>6. CASE Skip(e)
    <3>1. UNCHANGED <<run, exec, faults>> /\ worker[e].pc = "skip" /\ worker'[e].at = NoRun
      BY <1>4, <2>6 DEF Skip, world
    <3>2. \A j \in Steps : exec[r][j] \notin LiveExec
      BY <1>0, <3>1 DEF WorkInOrder, GivingUp
    <3>. QED BY <3>1, <3>2, NamesAssumption DEF Guarded, LiveExec, HandedOff
  <2>7. CASE Fail(e)
    <3>1. FALSE
      BY <1>0, <2>7 DEF Fail, FailRun, DbInv, DbType
    <3>. QED BY <3>1
  <2>8. CASE Finish(e)
    <3>1. FALSE
      BY <1>0, <2>8 DEF Finish, FailRun, DbInv, DbType
    <3>. QED BY <3>1
  <2>. QED BY <2>1, <2>2, <2>3, <2>4, <2>5, <2>6, <2>7, <2>8
<1>. QED BY <1>5, <1>6

\* Before a run is accepted nothing waits to be handed off.
LEMMA InitGuarded == Init => FaultInv
BY DEF Init, FaultInv, Guarded

\* Every step keeps FaultInv.
LEMMA NextGuarded ==
  ASSUME SingleFault, IInv, IInv', OrderInv, FaultInv, [Next]_vars
  PROVE  FaultInv'
<1>. SUFFICES ASSUME NEW e \in Engines, NEW r \in Runs PROVE Guarded(worker[e], r)'
  BY DEF FaultInv
<1>1. Guarded(worker[e], r) /\ \A f \in Engines : f = e
  BY DEF FaultInv, SingleFault, OneEngine
<1>2. CASE \/ \E q \in Runs : Accept(q) \/ RunDeadlinePasses(q) \/ LeaseLapses(q)
           \/ \E q \in Runs, i \in Steps :
                \/ AgentStarts(q, i) \/ StepDeadlinePasses(q, i)
                \/ \E outcome \in EndedExec : AgentEnds(q, i, outcome)
           \/ Disconnect \/ \E f \in Engines : Connect(f)
           \/ UNCHANGED vars
  BY <1>1, <1>2, WorldGuarded DEF SingleFault
<1>3. CASE Crash(e) \/ Rejected(e)
  BY <1>1, <1>3, FaultGuarded DEF SingleFault
<1>4. CASE Working(e)
  BY <1>1, <1>4, ReadingGuarded, ActingGuarded DEF Working
<1>. QED BY <1>1, <1>2, <1>3, <1>4 DEF Next

\* With a single fault the invariants hold together.
LEMMA SingleFaultInvariance ==
  ASSUME SingleFault
  PROVE  Spec => [](IInv /\ OrderInv /\ FaultInv /\ PreHandoffIsRecoverable)
<1>. DEFINE Inv == IInv /\ OrderInv /\ FaultInv /\ Engines # {}
<1>1. Init => Inv
  BY InitIInv, InitInOrder, InitGuarded DEF Init
<1>2. FaultInv /\ Engines # {} => PreHandoffIsRecoverable
  BY DEF FaultInv, Guarded, PreHandoffIsRecoverable, Leases
<1>3. Inv /\ [Next]_vars => Inv'
  BY <1>2, NextKeeps, NextInOrder, NextGuarded DEF SingleFault
<1>4. Inv => IInv /\ OrderInv /\ FaultInv /\ PreHandoffIsRecoverable
  BY <1>2
<1>. HIDE DEF Inv
<1>. QED BY <1>1, <1>3, <1>4, PTL DEF Spec

\* One crash or lost call loses no execution that was not handed off: a live wakeup
\* leads a recovering claim to it (claimWorkflowWakeup, src/src/db/pg.ts).
THEOREM NoneLost ==
  ASSUME SingleFault
  PROVE  Spec => []PreHandoffIsRecoverable
BY SingleFaultInvariance, PTL

-----------------------------------------------------------------------------
(* What is seen of a run *)

DonePrefix(r) == {i \in Steps : \A j \in 1..i : step[r][j] \in DoneStep}

\* The first steps that are done are finitely many, at most all.
LEMMA PrefixFinite ==
  ASSUME NEW S \in SUBSET Steps
  PROVE  /\ IsFiniteSet(S) /\ Cardinality(S) \in Nat /\ Cardinality(S) <= NumSteps
         /\ Cardinality(Steps) = NumSteps
<1>1. IsFiniteSet(Steps) /\ Cardinality(Steps) = NumSteps
  BY FS_Interval, NumStepsAssumption DEF Steps
<1>. QED BY <1>1, FS_Subset, FS_CardinalityType

\* They stay as many while no step is done or undone.
LEMMA SameCount ==
  ASSUME NEW r \in Runs,
         \A i \in Steps : step'[r][i] \in DoneStep <=> step[r][i] \in DoneStep
  PROVE  DoneCount'[r] = DoneCount[r]
<1>1. \A i \in Steps : 1..i \subseteq Steps
  BY NumStepsAssumption DEF Steps
<1>2. {i \in Steps : \A j \in 1..i : step'[r][j] \in DoneStep}
        = {i \in Steps : \A j \in 1..i : step[r][j] \in DoneStep}
  BY <1>1
<1>. QED BY <1>2 DEF DoneCount

\* They are fewer than all while a step is not done.
LEMMA CountBelow ==
  ASSUME NEW r \in Runs, NEW i \in Steps, step[r][i] \notin DoneStep
  PROVE  DoneCount[r] \in Nat /\ DoneCount[r] < NumSteps
<1>1. i \notin DonePrefix(r) /\ DonePrefix(r) \subseteq Steps
  BY DEF DonePrefix, Steps
<1>2. DonePrefix(r) \cup {i} \subseteq Steps
  BY <1>1
<1>3. IsFiniteSet(DonePrefix(r)) /\ Cardinality(DonePrefix(r)) \in Nat
  BY <1>1, PrefixFinite
<1>4. Cardinality(DonePrefix(r) \cup {i}) = Cardinality(DonePrefix(r)) + 1
  BY <1>1, <1>3, FS_AddElement
<1>5. Cardinality(DonePrefix(r) \cup {i}) <= NumSteps
  BY <1>2, PrefixFinite
<1>6. DoneCount[r] = Cardinality(DonePrefix(r))
  BY DEF DoneCount, DonePrefix
<1>. QED BY <1>3, <1>4, <1>5, <1>6, NumStepsAssumption

\* They are one more when the next step is done.
LEMMA CountAdvances ==
  ASSUME NEW r \in Runs, NEW i \in Steps, step[r][i] \notin DoneStep, step'[r][i] \in DoneStep,
         \A j \in Steps : j # i => step'[r][j] = step[r][j],
         \A j \in Steps : j < i => step[r][j] \in DoneStep,
         \A j \in Steps : i < j => step[r][j] \notin DoneStep
  PROVE  DoneCount'[r] = DoneCount[r] + 1
<1>0. NumSteps \in Nat /\ \A k \in Steps : k \in Int /\ 1..k \subseteq Steps
  BY NumStepsAssumption DEF Steps
<1>1. i \notin DonePrefix(r) /\ DonePrefix(r) \subseteq Steps
  BY DEF DonePrefix, Steps
<1>2. ASSUME NEW k \in Steps PROVE k \in DonePrefix(r)' <=> k < i \/ k = i
  <2>1. CASE i < k
    <3>1. i + 1 \in Steps /\ i + 1 \in 1..k
      BY <1>0, <2>1 DEF Steps
    <3>2. step'[r][i + 1] \notin DoneStep
      BY <1>0, <3>1
    <3>. QED BY <1>0, <2>1, <3>1, <3>2 DEF DonePrefix
  <2>2. CASE k < i \/ k = i
    <3>1. \A j \in 1..k : j \in Steps /\ (j < i \/ j = i)
      BY <1>0, <2>2 DEF Steps
    <3>. QED BY <2>2, <3>1 DEF DonePrefix
  <2>. QED BY <1>0, <2>1, <2>2
<1>3. ASSUME NEW k \in Steps PROVE k \in DonePrefix(r) <=> k < i
  <2>1. CASE k < i
    <3>1. \A j \in 1..k : j \in Steps /\ j < i
      BY <1>0, <2>1 DEF Steps
    <3>. QED BY <2>1, <3>1 DEF DonePrefix
  <2>2. CASE ~(k < i)
    <3>1. i \in 1..k
      BY <1>0, <2>2 DEF Steps
    <3>. QED BY <2>2, <3>1 DEF DonePrefix
  <2>. QED BY <2>1, <2>2
<1>4. DonePrefix(r)' = DonePrefix(r) \cup {i}
  <2>1. DonePrefix(r)' \subseteq Steps
    BY DEF DonePrefix
  <2>. QED BY <1>1, <1>2, <1>3, <2>1
<1>5. Cardinality(DonePrefix(r) \cup {i}) = Cardinality(DonePrefix(r)) + 1
  BY <1>1, PrefixFinite, FS_AddElement
<1>6. DoneCount[r] = Cardinality(DonePrefix(r)) /\ DoneCount'[r] = Cardinality(DonePrefix(r)')
  BY DEF DoneCount, DonePrefix
<1>. QED BY <1>4, <1>5, <1>6

\* Once all steps are done they are all of them.
LEMMA CountAll ==
  ASSUME NEW r \in Runs, \A i \in Steps : step[r][i] \in DoneStep
  PROVE  DoneCount[r] = NumSteps
<1>1. \A i \in Steps : 1..i \subseteq Steps
  BY NumStepsAssumption DEF Steps
<1>2. {i \in Steps : \A j \in 1..i : step[r][j] \in DoneStep} = Steps
  BY <1>1
<1>. QED BY <1>2, PrefixFinite DEF DoneCount

\* While a run goes on, what is done comes before what is not.
LEMMA LaterNotDone ==
  ASSUME NEW r \in Runs, RunInv(r), RunInOrder(r), run[r] = "running",
         NEW i \in Steps, step[r][i] \notin DoneStep, NEW j \in Steps, i < j
  PROVE  step[r][j] \notin DoneStep
BY DEF RunInv, RunInOrder, DoneStep

-----------------------------------------------------------------------------
(* A run is a RunLifecycle *)

\* A run is seen to go on as it was, or to be given up.
GoesOn(r) == run'[r] = run[r] /\ Executing'[r] = Executing[r] /\ DoneCount'[r] = DoneCount[r]
GivenUp(r) == run[r] = "running" /\ run'[r] \in LostStep /\ DoneCount'[r] = DoneCount[r]

\* The runs given up by one step are those an abort of the lifecycle gives up.
LEMMA SeenToAbort ==
  ASSUME DbType, DbType', used' = used, \A r \in Runs : GoesOn(r) \/ GivenUp(r)
  PROVE  Lifecycle!Next
<1>. DEFINE R == {r \in Runs : run'[r] # run[r]}
<1>1. \A r \in R : run[r] = "running" /\ run'[r] \in {"failed", "timed_out"}
  BY DEF GoesOn, GivenUp, LostStep
<1>2. [r \in R |-> run'[r]] \in [R -> {"failed", "timed_out"}]
  BY <1>1
<1>3. run' = [r \in Runs |-> IF r \in R THEN [q \in R |-> run'[q]][r] ELSE run[r]]
  BY DEF DbType
<1>4. Executing' = [r \in Runs |-> Executing[r] /\ r \notin R]
  <2>1. ASSUME NEW r \in Runs PROVE Executing'[r] = (Executing[r] /\ r \notin R)
    <3>1. CASE r \in R
      BY <1>1, <3>1 DEF Executing
    <3>2. CASE r \notin R
      <4>1. Executing'[r] = Executing[r]
        BY <3>2 DEF GoesOn, GivenUp, LostStep
      <4>. QED BY <3>2, <4>1 DEF Executing
    <3>. QED BY <3>1, <3>2
  <2>2. Executing' = [r \in Runs |-> Executing'[r]]
    BY DEF Executing
  <2>. QED BY <2>1, <2>2
<1>5. DoneCount' = DoneCount
  BY DEF DoneCount, GoesOn, GivenUp
<1>6. Lifecycle!Abort(R)
  BY <1>1, <1>2, <1>3, <1>4, <1>5 DEF Lifecycle!Abort
<1>. QED BY <1>6 DEF Lifecycle!Next

\* A run whose row and steps stay as they are goes on.
LEMMA SameGoesOn ==
  ASSUME NEW r \in Runs, run'[r] = run[r], step'[r] = step[r]
  PROVE  GoesOn(r)
BY SameCount DEF GoesOn, Executing

\* Timeouts are seen as given up runs.
LEMMA TimeOutSeen ==
  ASSUME IInv, RowsInOrder, NEW R, NEW late, TimeOut(R, late), condition' = condition,
         \A r \in R : run[r] = "running",
         \A r \in Runs, i \in Steps : <<r, i>> \in late => exec[r][i] \in LiveExec,
         DbType', used' = used
  PROVE  Lifecycle!Next
<1>. SUFFICES ASSUME NEW r \in Runs PROVE GoesOn(r) \/ GivenUp(r)
  BY SeenToAbort DEF IInv, DbInv
<1>1. DoneCount'[r] = DoneCount[r]
  <2>1. \A i \in Steps : step'[r][i] \in DoneStep <=> step[r][i] \in DoneStep
    BY DEF TimeOut, DoneStep, OpenStep
  <2>. QED BY <2>1, SameCount
<1>2. CASE run[r] # "running"
  BY <1>1, <1>2 DEF TimeOut, GoesOn, Executing
<1>3. CASE run[r] = "running" /\ run'[r] = "running"
  <2>1. Same(r)
    BY <1>3, TimeOutInOrder DEF IInv
  <2>. QED BY <1>3, <2>1, SameGoesOn DEF Same
<1>4. CASE run[r] = "running" /\ run'[r] # "running"
  BY <1>1, <1>4 DEF TimeOut, GivenUp, LostStep
<1>. QED BY <1>2, <1>3, <1>4

\* So is a failure.
LEMMA FailRunSeen ==
  ASSUME IInv, NEW r \in Runs, NEW i \in Steps, NEW status \in LostStep, FailRun(r, i, status),
         DbType', used' = used
  PROVE  Lifecycle!Next
<1>. SUFFICES ASSUME NEW q \in Runs PROVE GoesOn(q) \/ GivenUp(q)
  BY SeenToAbort DEF IInv, DbInv
<1>1. CASE run[r] # "running" \/ q # r
  BY <1>1, SameGoesOn DEF FailRun, IInv, DbInv, DbType
<1>2. CASE run[r] = "running" /\ q = r
  <2>1. \A j \in Steps : step'[r][j] \in DoneStep <=> step[r][j] \in DoneStep
    BY <1>2 DEF FailRun, IInv, DbInv, DbType, DoneStep, OpenStep, LostStep
  <2>2. run'[r] = status
    BY <1>2 DEF FailRun, IInv, DbInv, DbType
  <2>. QED BY <1>2, <2>1, <2>2, SameCount DEF GivenUp
<1>. QED BY <1>1, <1>2

\* The step that is executed succeeds, or the next one is skipped.
LEMMA AdvanceSeen ==
  ASSUME IInv, RowsInOrder, NEW r \in Runs, NEW i \in Steps, NEW status \in DoneStep,
         run[r] = "running", step[r][i] \notin DoneStep,
         \A j \in Steps : j < i => step[r][j] \in DoneStep,
         \A j \in Steps : j # i => step[r][j] # "running",
         step' = [step EXCEPT ![r][i] = status], run' = run, used' = used
  PROVE  Lifecycle!Next
<1>0. RunInv(r) /\ RunInOrder(r) /\ DbType
  BY DEF IInv, DbInv, RowsInOrder
<1>1. step'[r][i] = status /\ \A j \in Steps : j # i => step'[r][j] = step[r][j]
  BY <1>0 DEF DbType
<1>2. DoneCount'[r] = DoneCount[r] + 1 /\ DoneCount[r] < NumSteps
  BY <1>0, <1>1, LaterNotDone, CountAdvances, CountBelow
<1>3. Executing'[r] = FALSE
  BY <1>1 DEF Executing, DoneStep
<1>4. \A q \in Runs : q # r => GoesOn(q)
  BY <1>0, SameGoesOn DEF DbType
<1>5. DoneCount' = [DoneCount EXCEPT ![r] = DoneCount[r] + 1]
  BY <1>2, <1>4 DEF DoneCount, GoesOn
<1>6. Executing' = [Executing EXCEPT ![r] = FALSE]
  BY <1>3, <1>4 DEF Executing, GoesOn
<1>7. Lifecycle!Advance(r)
  BY <1>2, <1>5, <1>6 DEF Lifecycle!Advance
<1>. QED BY <1>7 DEF Lifecycle!Next

\* The end of an execution.
LEMMA CompleteSeen ==
  ASSUME IInv, RowsInOrder, NEW r \in Runs, NEW i \in Steps, NEW outcome \in EndedExec,
         exec[r][i] \in LiveExec, Complete(r, i, outcome), condition' = condition,
         DbType', used' = used
  PROVE  Lifecycle!Next
<1>0. /\ RunInv(r) /\ RunInOrder(r) /\ DbType /\ DbInv /\ run[r] = "running" /\ step[r][i] = "running"
      /\ \A j \in Steps : j # i => step[r][j] # "running"
      /\ \A j \in Steps : j < i => step[r][j] \in DoneStep
  BY OneLive DEF IInv, DbInv, RowsInOrder, RunInOrder, LiveExec
<1>1. CASE TimeOut({r}, {})
  BY <1>0, <1>1, TimeOutSeen
<1>2. CASE TimeOut({}, {<<r, i>>})
  BY <1>2, TimeOutSeen
<1>3. CASE ~overdue[r] /\ ~StepDue(r, i) /\ outcome = "succeeded"
  <2>1. step' = [step EXCEPT ![r][i] = "succeeded"] /\ run' = run
    BY <1>0, <1>3 DEF Complete, FinishStep, EndedStep
  <2>. QED BY <1>0, <2>1, AdvanceSeen DEF DoneStep
<1>4. CASE ~overdue[r] /\ ~StepDue(r, i) /\ outcome = "failed"
  <2>1. step' = [step EXCEPT ![r][i] = "failed"] /\ run' = [run EXCEPT ![r] = "failed"]
    BY <1>0, <1>4 DEF Complete, FinishStep, EndedStep
  <2>2. ASSUME NEW q \in Runs, q # r PROVE GoesOn(q)
    BY <1>0, <2>1, <2>2, SameGoesOn DEF DbType
  <2>3. \A j \in Steps : step'[r][j] \in DoneStep <=> step[r][j] \in DoneStep
    BY <1>0, <2>1 DEF DbType, DoneStep
  <2>4. GivenUp(r)
    BY <1>0, <2>1, <2>3, SameCount DEF GivenUp, LostStep, DbType
  <2>. QED BY <1>0, <2>2, <2>4, SeenToAbort
<1>. QED BY <1>0, <1>1, <1>2, <1>3, <1>4 DEF Complete, EndedExec

\* Steps that leave runs and steps as they are are not seen.
LEMMA NotSeen ==
  ASSUME UNCHANGED <<run, step, used>>
  PROVE  UNCHANGED Lifecycle!abstractVars
BY DEF Lifecycle!abstractVars, DoneCount, Executing

\* What agents, deadlines and redeliveries do is seen as the lifecycle.
LEMMA WorldSeen ==
  ASSUME IInv, DbType', OrderInv, NEW r \in Runs,
         \/ Accept(r) \/ RunDeadlinePasses(r) \/ LeaseLapses(r)
         \/ \E i \in Steps : \/ AgentStarts(r, i) \/ StepDeadlinePasses(r, i)
                            \/ \E outcome \in EndedExec : AgentEnds(r, i, outcome)
  PROVE  [Lifecycle!Next]_(Lifecycle!abstractVars)
<1>0. RunInv(r) /\ DbType
  BY DEF IInv, DbInv
<1>1. CASE Accept(r)
  <2>1. CASE run[r] # "none"
    <3>1. UNCHANGED <<run, step, used>>
      BY <1>0, <1>1, <2>1 DEF Accept, DbType
    <3>. QED BY <3>1, NotSeen
  <2>2. CASE run[r] = "none"
    <3>1. run' = [run EXCEPT ![r] = "running"] /\ UNCHANGED <<step, used>>
      BY <1>1, <2>2 DEF Accept
    <3>2. \A i \in Steps : step[r][i] = "pending"
      BY <1>0, <2>2 DEF RunInv
    <3>3. Executing' = Executing /\ DoneCount' = DoneCount
      BY <1>0, <3>1, <3>2 DEF Executing, DoneCount, DbType
    <3>. QED BY <2>2, <3>1, <3>3 DEF Lifecycle!Next, Lifecycle!Accept
  <2>. QED BY <2>1, <2>2
<1>2. CASE \/ RunDeadlinePasses(r) \/ LeaseLapses(r)
           \/ \E i \in Steps : AgentStarts(r, i) \/ StepDeadlinePasses(r, i)
  <2>1. UNCHANGED <<run, step, used>>
    BY <1>2 DEF RunDeadlinePasses, LeaseLapses, AgentStarts, StepDeadlinePasses, runVars
  <2>. QED BY <2>1, NotSeen
<1>3. ASSUME NEW i \in Steps, NEW outcome \in EndedExec, AgentEnds(r, i, outcome)
      PROVE  Lifecycle!Next
  BY <1>3, CompleteSeen DEF AgentEnds, world, OrderInv
<1>. QED BY <1>1, <1>2, <1>3

\* What the engine does is seen as the lifecycle.
LEMMA EngineSeen ==
  ASSUME IInv, DbType', OrderInv, NEW e \in Engines, Working(e)
  PROVE  [Lifecycle!Next]_(Lifecycle!abstractVars)
<1>. DEFINE r == worker[e].at
            i == worker[e].next
<1>0. /\ DbInv /\ DbType /\ RowsInOrder /\ WorkerOk(worker[e]) /\ WorkInOrder(worker[e])
  BY DEF IInv, DbInv, OrderInv, WorkerInv, WorkersInOrder
<1>1. ASSUME worker[e].pc \in Chosen \cup {"finish"}
      PROVE  /\ r \in Runs /\ RunInv(r) /\ RunInOrder(r) /\ run[r] # "none"
             /\ worker[e].pc \in Chosen => i \in Steps
  BY <1>0, <1>1, NamesAssumption DEF WorkerOk, Processing, Chosen, Position, DbInv, RowsInOrder
<1>2. ASSUME UNCHANGED <<run, step, used>> PROVE UNCHANGED Lifecycle!abstractVars
  BY <1>2, NotSeen
<1>3. CASE SweepDeadlines(e)
  <2>1. /\ TimeOut(OverdueRuns, LateSteps) /\ condition' = condition /\ used' = used
        /\ \A q \in OverdueRuns : run[q] = "running"
        /\ \A q \in Runs, j \in Steps : <<q, j>> \in LateSteps => exec[q][j] \in LiveExec
    BY <1>3 DEF SweepDeadlines, world, OverdueRuns, LateSteps
  <2>. QED BY <1>0, <2>1, TimeOutSeen
<1>4. CASE \/ RecoverWakeups(e) \/ NothingToClaim(e) \/ \E q \in Runs : Claim(e, q)
           \/ LoadRun(e) \/ ReloadRun(e) \/ ListSteps(e) \/ FindLive(e)
           \/ ChooseStep(e) \/ BuildIntent(e) \/ Defer(e) \/ Delete(e)
  BY <1>2, <1>4 DEF RecoverWakeups, NothingToClaim, Claim, LoadRun, ReloadRun, ListSteps, FindLive,
     ChooseStep, BuildIntent, Defer, Delete, runVars
<1>5. CASE Reconcile(e)
  <2>1. worker[e].at \in Runs
    BY <1>0, <1>5 DEF Reconcile, WorkerOk, Processing, Position
  <2>2. {j \in Steps : step[worker[e].at][j] = "running" /\ exec[worker[e].at][j] \in EndedExec} = {}
    BY <1>0, <2>1 DEF DbInv, RunInv, EndedStep
  <2>. QED BY <1>2, <1>5, <2>2 DEF Reconcile
<1>6. CASE CreateExecution(e)
  <2>0. /\ worker[e].pc = "create" /\ r \in Runs /\ i \in Steps /\ RunInOrder(r) /\ RunInv(r)
        /\ condition' = condition
    BY <1>1, <1>6 DEF CreateExecution, Chosen, world
  <2>1. CASE run[r] = "running" /\ TimeOut({r}, {}) /\ used' = used
    BY <1>0, <2>0, <2>1, TimeOutSeen
  <2>2. CASE UNCHANGED <<runVars, used>>
    BY <1>2, <2>2 DEF runVars
  <2>3. CASE /\ run[r] = "running" /\ exec[r][i] = "none" /\ CanReserve /\ Reserve
             /\ step' = [step EXCEPT ![r][i] = "running"] /\ run' = run
    <3>1. step[r][i] = "pending" /\ \A j \in Steps : exec[r][j] \notin LiveExec
      BY <1>0, <2>0, <2>3 DEF WorkInOrder, Launching, HandedOff, LiveExec
    <3>2. \A j \in Steps : step[r][j] # "running"
      BY <2>0, <3>1 DEF RunInOrder
    <3>3. \A j \in Steps : j # i => step'[r][j] = step[r][j]
      BY <1>0, <2>3 DEF DbType
    <3>4. step'[r][i] = "running"
      BY <1>0, <2>0, <2>3 DEF DbType
    <3>5. ASSUME NEW q \in Runs PROVE DoneCount'[q] = DoneCount[q]
      <4>1. \A j \in Steps : step'[q][j] \in DoneStep <=> step[q][j] \in DoneStep
        BY <1>0, <2>3, <3>1 DEF DoneStep, DbType
      <4>. QED BY <4>1, SameCount
    <3>6. DoneCount' = DoneCount
      BY <3>5 DEF DoneCount
    <3>7. Executing' = [Executing EXCEPT ![r] = TRUE]
      BY <1>0, <2>0, <2>3, <3>4 DEF Executing, DbType
    <3>8. ~Executing[r]
      BY <2>0, <3>2 DEF Executing
    <3>9. DoneCount[r] < NumSteps
      BY <2>0, <3>1, CountBelow DEF DoneStep
    <3>10. used < MeterLimit /\ used' = used + 1
      BY <2>3, LimitsAssumption DEF CanReserve, Reserve, IInv, RestType
    <3>11. Lifecycle!Begin(r)
      BY <2>3, <3>6, <3>7, <3>8, <3>9, <3>10 DEF Lifecycle!Begin
    <3>. QED BY <2>0, <3>11 DEF Lifecycle!Next
  <2>. QED BY <1>6, <2>1, <2>2, <2>3 DEF CreateExecution
<1>7. CASE HandOff(e)
  <2>0. r \in Runs /\ i \in Steps /\ condition' = condition /\ used' = used
    BY <1>1, <1>7 DEF HandOff, Chosen
  <2>1. CASE exec[r][i] \in LiveExec /\ Complete(r, i, "failed")
    BY <1>0, <2>0, <2>1, CompleteSeen DEF EndedExec
  <2>. QED BY <1>2, <1>7, <2>0, <2>1 DEF HandOff, LiveExec
<1>8. CASE Settle(e)
  <2>1. r \in Runs /\ i \in Steps /\ RunInv(r)
    BY <1>1, <1>8 DEF Settle, Chosen
  <2>2. UNCHANGED <<run, step, used>>
    BY <1>8, <2>1 DEF Settle, FinishStep, RunInv
  <2>. QED BY <1>2, <2>2
<1>9. CASE Skip(e)
  <2>0. /\ r \in Runs /\ i \in Steps /\ RunInv(r) /\ RunInOrder(r) /\ run[r] # "none"
        /\ worker[e].pc = "skip" /\ run' = run /\ used' = used
    BY <1>1, <1>9 DEF Skip, Chosen
  <2>1. CASE step[r][i] # "pending"
    BY <1>2, <1>9, <2>0, <2>1 DEF Skip
  <2>2. CASE step[r][i] = "pending" /\ run[r] = "running"
    <3>1. step' = [step EXCEPT ![r][i] = "skipped"]
      BY <1>9, <2>2 DEF Skip
    <3>2. /\ \A j \in Steps : exec[r][j] \notin LiveExec
          /\ \A j \in Steps : j < i => step[r][j] \in DoneStep
      BY <1>0, <2>0, <2>2 DEF WorkInOrder, GivingUp
    <3>3. \A j \in Steps : step[r][j] # "running"
      BY <2>0, <3>2 DEF RunInOrder
    <3>. QED BY <1>0, <2>0, <2>2, <3>1, <3>2, <3>3, AdvanceSeen DEF DoneStep
  <2>3. CASE step[r][i] = "pending" /\ run[r] # "running"
    \* An earlier step was lost: this one is not seen.
    <3>1. step' = [step EXCEPT ![r][i] = "skipped"]
      BY <1>9, <2>3 DEF Skip
    <3>2. PICK k \in Steps : k < i /\ step[r][k] \in LostStep
      BY <1>0, <2>0, <2>3 DEF RunInOrder, EndedRun, DbType, RunStatus
    <3>3. step'[r][k] = step[r][k] /\ \A j \in Steps : j # i => step'[r][j] = step[r][j]
      BY <1>0, <3>1, <3>2 DEF DbType, Steps
    <3>4. {n \in Steps : \A j \in 1..n : step'[r][j] \in DoneStep}
            = {n \in Steps : \A j \in 1..n : step[r][j] \in DoneStep}
      <4>1. ASSUME NEW n \in Steps
            PROVE  (\A j \in 1..n : step'[r][j] \in DoneStep) <=> (\A j \in 1..n : step[r][j] \in DoneStep)
        <5>1. CASE n < i
          <6>1. \A j \in 1..n : j \in Steps /\ j # i
            BY <2>0, <5>1, NumStepsAssumption DEF Steps
          <6>. QED BY <3>3, <6>1
        <5>2. CASE ~(n < i)
          <6>1. k \in 1..n
            BY <2>0, <3>2, <5>2 DEF Steps
          <6>. QED BY <3>2, <3>3, <6>1 DEF LostStep, DoneStep
        <5>. QED BY <5>1, <5>2
      <4>. QED BY <4>1
    <3>5. DoneCount'[r] = DoneCount[r]
      BY <2>0, <3>4 DEF DoneCount
    <3>6. GoesOn(r)
      BY <2>0, <2>3, <3>5 DEF GoesOn, Executing
    <3>7. \A q \in Runs : q # r => GoesOn(q)
      BY <1>0, <2>0, <3>1, SameGoesOn DEF DbType
    <3>. QED BY <1>0, <2>0, <3>6, <3>7, SeenToAbort
  <2>. QED BY <2>1, <2>2, <2>3
<1>10. CASE Fail(e)
  <2>1. r \in Runs /\ i \in Steps /\ used' = used
    BY <1>1, <1>10 DEF Fail, Chosen
  <2>. QED BY <1>10, <2>1, FailRunSeen DEF Fail, LostStep
<1>11. CASE Finish(e)
  <2>0. r \in Runs /\ used' = used /\ worker[e].pc = "finish"
    BY <1>1, <1>11 DEF Finish
  <2>1. CASE run[r] = "running" /\ run' = [run EXCEPT ![r] = "succeeded"] /\ step' = step
    <3>1. \A j \in Steps : step[r][j] \in DoneStep
      BY <1>0, <2>0, <2>1 DEF WorkInOrder
    <3>2. DoneCount' = DoneCount /\ DoneCount[r] = NumSteps
      BY <2>0, <2>1, <3>1, CountAll DEF DoneCount
    <3>3. ~Executing[r] /\ Executing' = Executing
      <4>1. \A j \in Steps : step[r][j] # "running"
        BY <3>1 DEF DoneStep
      <4>2. \A q \in Runs : q # r => run'[q] = run[q]
        BY <2>1
      <4>3. \A q \in Runs : Executing'[q] = Executing[q]
        BY <2>1, <4>1, <4>2 DEF Executing
      <4>. QED BY <2>0, <4>1, <4>3 DEF Executing
    <3>. QED BY <2>0, <2>1, <3>2, <3>3 DEF Lifecycle!Next, Lifecycle!Succeed
  <2>2. CASE FailRun(r, 1, "failed")
    <3>1. 1 \in Steps
      BY NumStepsAssumption DEF Steps
    <3>. QED BY <2>0, <2>2, <3>1, FailRunSeen DEF LostStep
  <2>. QED BY <1>2, <1>11, <2>0, <2>1, <2>2 DEF Finish
<1>. QED BY <1>3, <1>4, <1>5, <1>6, <1>7, <1>8, <1>9, <1>10, <1>11 DEF Working

\* Every step of the engine is a step of the lifecycle, or none.
LEMMA NextSeen ==
  ASSUME IInv, OrderInv, [Next]_vars
  PROVE  [Lifecycle!Next]_(Lifecycle!abstractVars)
<1>0. DbType'
  BY NextKeeps DEF IInv, DbInv
<1>1. CASE \/ \E r \in Runs : Accept(r) \/ RunDeadlinePasses(r) \/ LeaseLapses(r)
           \/ \E r \in Runs, i \in Steps :
                \/ AgentStarts(r, i) \/ StepDeadlinePasses(r, i)
                \/ \E outcome \in EndedExec : AgentEnds(r, i, outcome)
  BY <1>0, <1>1, WorldSeen
<1>2. CASE \/ Disconnect \/ UNCHANGED vars
           \/ \E e \in Engines : Connect(e) \/ Crash(e) \/ Rejected(e)
  <2>1. UNCHANGED <<run, step, used>>
    BY <1>2 DEF Disconnect, Connect, Crash, Rejected, vars, runVars
  <2>. QED BY <2>1, NotSeen
<1>3. ASSUME NEW e \in Engines, Working(e)
      PROVE  [Lifecycle!Next]_(Lifecycle!abstractVars)
  BY <1>0, <1>3, EngineSeen
<1>. QED BY <1>1, <1>2, <1>3 DEF Next

\* The engine starts where the lifecycle does.
LEMMA InitSeen == Init => Lifecycle!Init
<1>. SUFFICES ASSUME Init PROVE Lifecycle!Init
  OBVIOUS
<1>1. \A r \in Runs : DoneCount[r] = 0
  <2>. SUFFICES ASSUME NEW r \in Runs PROVE DoneCount[r] = 0
    OBVIOUS
  <2>1. {i \in Steps : \A j \in 1..i : step[r][j] \in DoneStep} = {}
    BY DEF Init, Steps, DoneStep
  <2>. QED BY <2>1, FS_EmptySet DEF DoneCount
<1>2. DoneCount = [r \in Runs |-> 0]
  BY <1>1 DEF DoneCount
<1>3. Executing = [r \in Runs |-> FALSE]
  BY DEF Init, Executing
<1>. QED BY <1>2, <1>3 DEF Init, Lifecycle!Init

\* As long as no execution is lost before its hand-off, whatever engine, agents,
\* deadlines and redeliveries do to a run is a lifecycle: its steps one after
\* the other, each paid for once, success only after the last.
THEOREM RunsAreLifecycles ==
  ASSUME OneEngine
  PROVE  Spec /\ []PreHandoffIsRecoverable => ImplementsLifecycle
<1>1. Init => Lifecycle!Init
  BY InitSeen
<1>2. IInv /\ OrderInv /\ [Next]_vars => [Lifecycle!Next]_(Lifecycle!abstractVars)
  BY NextSeen
<1>. QED BY <1>1, <1>2, Invariance, OrderInvariance, PTL DEF Spec, ImplementsLifecycle,
     Lifecycle!Spec

\* With one crash or lost call at most none is lost, so that order, completeness and
\* the lifecycle of runs hold of every behaviour of a single engine.
THEOREM SafeWithOneFault ==
  ASSUME SingleFault
  PROVE  Spec => /\ []LiveExecutionOfLiveRun /\ []StepsInOrder /\ []SucceededRunIsComplete
                 /\ ImplementsLifecycle
<1>1. OneEngine
  BY DEF SingleFault
<1>. QED BY <1>1, NoneLost, AgentsOfLiveRuns, StepsRunInOrder, SuccessIsComplete,
     RunsAreLifecycles, PTL
=============================================================================
