----------------------------- MODULE LockPlans -----------------------------
(***************************************************************************)
(* The locks that each transaction of the database asks for, in its order  *)
(* (db/pg.ts, auth/api-keys.ts, auth/organization-access.ts,               *)
(* billing/index.ts, provider-applications/internal/store.ts).  A lock is  *)
(* a resource and a mode:                                                  *)
(*                                                                         *)
(*   "update"  SELECT ... FOR UPDATE, a plain UPDATE or DELETE, an upsert, *)
(*             an advisory lock;                                           *)
(*   "insert"  an INSERT whose conflict must be awaited, as "update";      *)
(*   "key"     the FOR KEY SHARE of a foreign key's check, compatible with *)
(*             itself and with updates that change no key;                 *)
(*   "write"   an UPDATE that changes no key;                              *)
(*   "skip"    FOR UPDATE SKIP LOCKED: never waits.                        *)
(***************************************************************************)

Lock(resource, mode) == <<resource, mode>>
Connection == Lock("connection", "update")

(* createWorkflowStepExecution: run, step, and the meter of the period.    *)
CreateExecution == << Connection, Lock("run", "update"), Lock("step", "update"), Lock("usage", "update") >>

(* linkWorkflowStepRunExecution: the step alone.                           *)
LinkExecution == << Connection, Lock("step", "update") >>

(* A completion that would lock the step before its run.                   *)
CompleteStepFirst ==
    << Connection, Lock("step", "update"), Lock("run", "update"),
       Lock("execution", "update"), Lock("wakeup", "update") >>

(* completeWorkflowAgentExecution: run, step, execution, then the wake-up. *)
CompleteExecution ==
    << Connection, Lock("run", "update"), Lock("step", "update"),
       Lock("execution", "update"), Lock("wakeup", "update") >>

(* Its branch for an execution of no workflow step calls                   *)
(* transitionAgentExecution, which takes a connection of its own.          *)
CompleteOutsideWorkflow == << Connection, Connection, Lock("execution", "write") >>

(* markWorkflowStepSkipped: step before run.                               *)
SkipStep == << Connection, Lock("step", "update"), Lock("run", "update"), Lock("wakeup", "update") >>

(* failWorkflowRun.                                                        *)
FailRun == << Connection, Lock("run", "update"), Lock("step", "update"), Lock("wakeup", "update") >>

(* claimWorkflowWakeup.                                                    *)
ClaimWakeup == << Connection, Lock("wakeup", "skip") >>

(* recoverWorkflowWakeups: inserts wake-ups, then checks their foreign key.*)
RecoverWakeups == << Connection, Lock("wakeup", "insert"), Lock("run", "key") >>

(* claimPendingWorkflowRunTerminalNotification.                            *)
ClaimNotification == << Connection, Lock("run", "skip") >>

(* recoverWorkflowDeadlines, for a run with an overdue step ...            *)
StepDeadline ==
    << Connection, Lock("run", "skip"), Lock("step", "update"),
       Lock("execution", "update"), Lock("wakeup", "update") >>

(* ... and for an overdue run (timeoutWorkflowRunOnClient).                *)
RunDeadline ==
    << Connection, Lock("run", "skip"), Lock("execution", "write"),
       Lock("step", "write"), Lock("wakeup", "update") >>

(* limitAgentExecutionDeadline: "lock the run, then step, then execution". *)
LimitDeadline ==
    << Connection, Lock("run", "update"), Lock("step", "update"), Lock("execution", "write") >>

(* setAgentExecutionIdleDeadline.                                          *)
RefreshIdle ==
    << Connection, Lock("run", "update"), Lock("step", "update"), Lock("execution", "write") >>

(* beginAgentExecutionOutput, completeAgentExecutionOutput and the others  *)
(* that lock the execution alone.                                          *)
RecordOutput == << Connection, Lock("execution", "update") >>

(* enrollDaemon with a Sprite's token: the token, then the key it was      *)
(* issued by, then the key's other tokens.                                 *)
EnrollDaemon ==
    << Connection, Lock("token", "write"), Lock("machine", "write"),
       Lock("key", "write"), Lock("tokens", "write") >>

(* issueEnrollmentToken by an API key: the key's queue in this process,    *)
(* then a transaction with the key's advisory lock and row.                *)
IssueToken ==
    << Lock("keyQueue", "update"), Connection, Lock("keyAdvisory", "update"), Lock("key", "update") >>

(* revokeApiKey: a transaction with the membership lock, in which revoke   *)
(* joins the key's queue, then locks the key and its unconsumed tokens.    *)
RevokeKey ==
    << Connection, Lock("membership", "update"), Lock("keyQueue", "update"),
       Lock("keyAdvisory", "update"), Lock("key", "write"), Lock("token", "write") >>

(* createInvitation: the entitlement checks inside the transaction go      *)
(* through the pool.                                                       *)
CreateInvitation ==
    << Connection, Lock("membership", "update"), Lock("member", "update"), Connection >>

(* cancelInvitation and acceptInvitation.                                  *)
DecideInvitation ==
    << Connection, Lock("invitation", "update"), Lock("membership", "update"), Lock("member", "update") >>

(* reconcileSubscriptionEvent: withAdvisoryLock keeps a connection while   *)
(* the operation under the lock uses the pool.                             *)
ReconcileBilling ==
    << Connection, Lock("billing", "update"), Connection, Lock("entitlements", "update") >>

(* save and activate of the provider store: a lock around a transaction.   *)
SaveProvider ==
    << Connection, Lock("configuration", "update"), Connection, Lock("activation", "update"),
       Lock("configurationRow", "update") >>

Plan ==
    [createExecution |-> CreateExecution, linkExecution |-> LinkExecution,
     completeExecution |-> CompleteExecution, completeOutsideWorkflow |-> CompleteOutsideWorkflow,
     skipStep |-> SkipStep, failRun |-> FailRun, claimWakeup |-> ClaimWakeup,
     recoverWakeups |-> RecoverWakeups, claimNotification |-> ClaimNotification,
     stepDeadline |-> StepDeadline, runDeadline |-> RunDeadline, limitDeadline |-> LimitDeadline,
     refreshIdle |-> RefreshIdle, recordOutput |-> RecordOutput, enrollDaemon |-> EnrollDaemon,
     issueToken |-> IssueToken, revokeKey |-> RevokeKey, createInvitation |-> CreateInvitation,
     decideInvitation |-> DecideInvitation, reconcileBilling |-> ReconcileBilling,
     saveProvider |-> SaveProvider]

=============================================================================
