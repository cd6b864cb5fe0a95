---------------------------- MODULE AgentSessions ----------------------------
(***************************************************************************)
(* The agent behind a continuation key (src/src/agent-sessions/index.ts)   *)
(* and the part of src/src/daemons/lifecycle.ts that calls it.             *)
(*                                                                         *)
(* Executions of one key share an agent of the daemon.  A dispatch finds   *)
(* or makes the session and sends its prompt under the session's lock; an  *)
(* execution that ends releases the credentials and stops the agent, each  *)
(* unless another execution of the session lives.  None of the transactions*)
(* that end an execution takes that lock.                                  *)
(*                                                                         *)
(* A session is named after the execution that made it.  An execution      *)
(* without a continuation key is the case of a single execution.  The      *)
(* daemon is the one the executions target; the compatibility of settings, *)
(* the deadlines and the credentials' own expiry are left out.             *)
(***************************************************************************)
EXTENDS Integers, FiniteSets

CONSTANTS Executions,
          None,         \* "no session", "no execution"
          KeyLock,      \* the lock derived from the continuation key
          Leased,       \* the launch intents hold temporary credentials
          AutoArchive,  \* the executions with launchIntent.autoArchive
          Faults,       \* the kinds of fault considered
          MaxFaults     \* bound on their number

FaultKinds == {"crash", "disconnect", "timeout", "reject", "late", "wait"}

ASSUME SessionsAssumption ==
  /\ None \notin Executions /\ KeyLock \notin Executions
  /\ Leased \in BOOLEAN /\ AutoArchive \subseteq Executions
  /\ Faults \subseteq FaultKinds /\ MaxFaults \in Nat

Ended == {"succeeded", "failed"}
Conn == {"open", "cut", "closed"}   \* what became of the connection a task holds

VARIABLES
  status,     \* agent_executions.status, "spawning" and "running" being "live"
  belongs,    \* agent_executions.agent_session_id
  action,     \* hub_action while it is not completed
  awaiting,   \* archives that wait for the agent's acknowledgements
  unheard,    \* history: those of them that wait for one that was lost
  key,        \* the session whose row holds the continuation key
  session,    \* the row of each session: without ("saved") or with its agent
  agent,      \* the daemon's agent of each session
  working,    \* the prompts each agent has and was not stopped from
  creds,      \* the credentials of each execution
  dispatch,   \* AgentSessions.dispatch of each execution
  releasing,  \* AgentSessions.releaseAuthority of each execution
  control,    \* sendPendingHubAction of each execution
  connected,  \* the daemon is connected
  owed,       \* executions a reconnection has still to recover
  late,       \* controls given up that the daemon may still carry out
  faults

rows == <<status, belongs, action, awaiting, key, session>>
outside == <<agent, working, late>>
tasks == <<dispatch, releasing, control>>
vars == <<rows, outside, creds, tasks, connected, owed, unheard, faults>>

NoDispatch == [pc |-> "off", s |-> None, options |-> FALSE, conn |-> "closed"]
NoRelease == [pc |-> "off", s |-> None, lock |-> None, owners |-> {}]
NoControl == [pc |-> "off", s |-> None, lock |-> None, conn |-> "closed"]

Init ==
  /\ status = [e \in Executions |-> "none"]
  /\ belongs = [e \in Executions |-> None]
  /\ action = [e \in Executions |-> "none"]
  /\ awaiting = {}
  /\ unheard = {}
  /\ key = None
  /\ session = [s \in Executions |-> "absent"]
  /\ agent = [s \in Executions |-> "absent"]
  /\ working = [s \in Executions |-> {}]
  /\ creds = [e \in Executions |-> "none"]
  /\ dispatch = [e \in Executions |-> NoDispatch]
  /\ releasing = [e \in Executions |-> NoRelease]
  /\ control = [e \in Executions |-> NoControl]
  /\ connected = TRUE
  /\ owed = {}
  /\ late = {}
  /\ faults = 0

Fault(kind) == kind \in Faults /\ faults < MaxFaults /\ faults' = faults + 1

Live(e) == status[e] = "live"
Members(s) == {e \in Executions : belongs[e] = s}

InUse(s) == \E e \in Members(s) : Live(e)

\* sessionLock
LockOf(s) == IF key = s THEN KeyLock ELSE s

UnderLock == {"save", "attach", "create", "bind", "get", "check", "send"}
Calling == {"create", "get", "send"}

\* Mutant: no lock is taken.
Unlocked(lock) == TRUE

Free(lock) ==
  /\ lock = KeyLock => \A e \in Executions : dispatch[e].pc \notin UnderLock
  /\ \A e \in Executions : ~(control[e].pc = "apply" /\ control[e].lock = lock)

-----------------------------------------------------------------------------
(* An execution ends *)

\* transitionTerminalAgentExecution with deriveHubAction; then the terminal
\* notification releases the authority of the session known by now.
End(e, outcome, byAgent) ==
  LET next == IF e \in AutoArchive THEN "archive"
              ELSE IF outcome = "failed" THEN "interrupt" ELSE "none"
  IN /\ status' = [status EXCEPT ![e] = outcome]
     /\ action' = [action EXCEPT ![e] = next]
     /\ awaiting' = IF byAgent /\ next = "archive" THEN awaiting \cup {e} ELSE awaiting
     /\ releasing' = [releasing EXCEPT ![e] = [NoRelease EXCEPT !.pc = "read", !.s = belongs[e]]]

\* reconcileHubAction: at most one attempt runs for an execution, and whoever
\* asks meanwhile only waits for that one.
Reconciled(e) ==
  [control EXCEPT ![e] = IF @.pc = "off" /\ action[e] # "none" /\ e \notin awaiting
                         THEN [NoControl EXCEPT !.pc = "read"] ELSE @]

\* The agent reports that it has finished: it was given the prompt.
Finish(e) ==
  /\ Live(e)
  /\ \E s \in Executions : e \in working[s] /\ agent[s] = "up"
  /\ End(e, "succeeded", TRUE)
  /\ UNCHANGED <<belongs, key, session, outside, creds, dispatch, control, connected, owed,
                 unheard, faults>>

\* A deadline passes or the agent breaks, at any time.
Expire(e) ==
  /\ Live(e)
  /\ End(e, "failed", FALSE)
  /\ UNCHANGED <<belongs, key, session, outside, creds, dispatch, control, connected, owed,
                 unheard, faults>>

\* The signs of a finished agent, the end of its turn and the answer to its
\* finish call, are recorded: its archive is ready
\* (acknowledgeAgentExecutionHubAction).  The end of a later turn of the agent
\* may stand in for one that was lost.
Acknowledge(e) ==
  /\ e \in awaiting
  /\ awaiting' = awaiting \ {e}
  /\ unheard' = unheard \ {e}
  /\ control' = [control EXCEPT ![e] = IF @.pc = "off" THEN [NoControl EXCEPT !.pc = "read"] ELSE @]
  /\ UNCHANGED <<status, belongs, action, key, session, outside, creds, dispatch, releasing,
                 connected, owed, faults>>

\* A sign is lost, and nothing sends it again: the Hub is down or not connected
\* when the agent sends it, a query of its handler rejects, or the Hub does not
\* watch the agent, because a dispatch gave up or a second end, which found the
\* execution ended, released the subscription.
LoseSign(e) ==
  /\ e \in awaiting
  /\ unheard' = unheard \cup {e}
  /\ UNCHANGED <<rows, outside, creds, tasks, connected, owed, faults>>

-----------------------------------------------------------------------------
(* releaseAuthority *)

\* The session is read before its lock is waited for.
ReleaseRead(e) ==
  LET s == releasing[e].s IN
  /\ releasing[e].pc = "read"
  /\ releasing' = [releasing EXCEPT ![e] =
       IF s = None THEN [@ EXCEPT !.pc = "revoke", !.owners = {e}]
       ELSE [@ EXCEPT !.pc = "list", !.lock = LockOf(s)]]
  /\ UNCHANGED <<rows, outside, creds, dispatch, control, connected, owed,
                 unheard, faults>>

\* Mutants: only the own credentials are given back; a live sibling is ignored.
OnlyOwn(e, s) == IF InUse(s) THEN {} ELSE {e}
EvenInUse(e, s) == Members(s)

\* The last execution of a session releases the credentials of all of them.
Owners(e, s) == IF InUse(s) THEN {} ELSE Members(s)

ReleaseList(e) ==
  /\ releasing[e].pc = "list"
  /\ Free(releasing[e].lock)
  /\ releasing' = [releasing EXCEPT ![e].pc = "revoke", ![e].owners = Owners(e, releasing[e].s)]
  /\ UNCHANGED <<rows, outside, creds, dispatch, control, connected, owed,
                 unheard, faults>>

\* onExecutionTerminal for each owner, outside the lock; then the hub action.
Revoke(e) ==
  /\ releasing[e].pc = "revoke"
  /\ creds' = [x \in Executions |->
                 IF x \in releasing[e].owners /\ creds[x] = "held" THEN "revoked" ELSE creds[x]]
  /\ releasing' = [releasing EXCEPT ![e] = NoRelease]
  /\ control' = Reconciled(e)
  /\ UNCHANGED <<rows, outside, dispatch, connected, owed, unheard, faults>>

-----------------------------------------------------------------------------
(* control *)

\* sendPendingHubAction: an execution without a session has nothing to stop; a
\* session without its agent leaves the action pending.
ControlRead(e) ==
  LET s == belongs[e] IN
  /\ control[e].pc = "read"
  /\ control' = [control EXCEPT ![e] =
       IF action[e] = "none" \/ ~connected THEN NoControl
       ELSE IF s = None THEN [@ EXCEPT !.pc = "record"]
       ELSE IF session[s] # "bound" THEN [@ EXCEPT !.pc = "finally"]
       ELSE [pc |-> "lock", s |-> s, lock |-> LockOf(s), conn |-> "open"]]
  /\ UNCHANGED <<rows, outside, creds, dispatch, releasing, connected, owed, unheard, faults>>

\* A completed arrival cannot stop work belonging to a newer arrival.
ControlLock(e) ==
  /\ control[e].pc = "lock"
  /\ Free(control[e].lock)
  /\ control' = [control EXCEPT ![e].pc = IF InUse(control[e].s) THEN "record" ELSE "apply"]
  /\ UNCHANGED <<rows, outside, creds, dispatch, releasing, connected, owed, unheard, faults>>

Applied(s, a) ==
  /\ agent' = [agent EXCEPT ![s] = IF a = "archive" THEN "archived" ELSE @]
  /\ working' = [working EXCEPT ![s] = {}]

ControlApply(e) ==
  /\ control[e].pc = "apply" /\ control[e].conn = "open"
  /\ Applied(control[e].s, action[e])
  /\ control' = [control EXCEPT ![e].pc = "record"]
  /\ UNCHANGED <<rows, late, creds, dispatch, releasing, connected, owed, unheard, faults>>

\* The answer does not come: the connection is gone or the daemon too slow.
\* The action stays pending; what was sent may have been done, or be done later.
ControlLost(e) ==
  /\ control[e].pc = "apply"
  /\ \/ /\ control[e].conn # "open"
        /\ \/ control[e].conn = "cut" /\ Applied(control[e].s, action[e]) /\ UNCHANGED late
           \/ UNCHANGED outside
        /\ UNCHANGED faults
     \/ /\ control[e].conn = "open" /\ Fault("late")
        /\ late' = late \cup {<<control[e].s, action[e]>>}
        /\ UNCHANGED <<agent, working>>
  /\ control' = [control EXCEPT ![e] = NoControl]
  /\ UNCHANGED <<rows, creds, dispatch, releasing, connected, owed, unheard>>

LateControl(s, a) ==
  /\ <<s, a>> \in late
  /\ Applied(s, a)
  /\ late' = late \ {<<s, a>>}
  /\ UNCHANGED <<rows, creds, tasks, connected, owed, unheard, faults>>

\* completeHubAction
ControlRecord(e) ==
  /\ control[e].pc = "record"
  /\ action' = [action EXCEPT ![e] = "none"]
  /\ control' = [control EXCEPT ![e] = NoControl]
  /\ UNCHANGED <<status, belongs, awaiting, key, session, outside, creds, dispatch, releasing,
                 connected, owed, unheard, faults>>

\* The attempt that did nothing is over: who joined it is not served.
ControlFinally(e) ==
  /\ control[e].pc = "finally"
  /\ control' = [control EXCEPT ![e] = NoControl]
  /\ UNCHANGED <<rows, outside, creds, dispatch, releasing, connected, owed, unheard, faults>>

-----------------------------------------------------------------------------
(* dispatch *)

Goto(e, pc) == dispatch' = [dispatch EXCEPT ![e].pc = pc]

\* The dispatch is over.  A response that was lost leaves the execution to the
\* next recovery; an execution that has ended has its action looked at again.
Abandoned(e) ==
  /\ dispatch' = [dispatch EXCEPT ![e] = NoDispatch]
  /\ control' = IF Live(e) THEN control ELSE Reconciled(e)
  /\ UNCHANGED <<status, action, awaiting, releasing>>

\* It failed: so does the execution.
Failed(e) ==
  IF Live(e)
  THEN /\ dispatch' = [dispatch EXCEPT ![e] = NoDispatch]
       /\ End(e, "failed", FALSE)
       /\ UNCHANGED control
  ELSE Abandoned(e)

\* handoffLaunchMachineIntent: the execution has its daemon, the launch starts.
Arrive(e) ==
  /\ status[e] = "none" /\ connected
  /\ status' = [status EXCEPT ![e] = "live"]
  /\ dispatch' = [dispatch EXCEPT ![e] = [NoDispatch EXCEPT !.pc = "look", !.conn = "open"]]
  /\ UNCHANGED <<belongs, action, awaiting, key, session, outside, creds, releasing, control,
                 connected, owed, unheard, faults>>

FindSession(e) == IF belongs[e] # None THEN belongs[e] ELSE key

\* Mutant: the session is replaced while an execution of it lives.
FreshAlways(s) == Leased /\ Members(s) # {}

\* needsFreshAgent: the temporary credentials of a finished session are revoked.
NeedsFresh(s) == Leased /\ Members(s) # {} /\ ~InUse(s)

\* Mutant: a session is taken to exist.
FreshIfFinished(s) == NeedsFresh(s)

Fresh(s) == s = None \/ NeedsFresh(s)

\* Before the lock: whether an agent will have to be made, which takes
\* credentials.
Look(e) ==
  /\ dispatch[e].pc = "look"
  /\ IF ~Live(e) THEN Failed(e)
     ELSE /\ Goto(e, IF Fresh(FindSession(e)) THEN "mint" ELSE "lock")
          /\ UNCHANGED <<status, action, awaiting, releasing, control>>
  /\ UNCHANGED <<belongs, key, session, outside, creds, connected, owed, unheard, faults>>

\* createOptions; the authority gives credentials to active executions only and
\* takes back those of one that has ended.
Mint(e) ==
  /\ dispatch[e].pc = "mint"
  /\ IF Leased /\ (~Live(e) \/ creds[e] = "revoked")
     THEN Failed(e) /\ creds' = [creds EXCEPT ![e] = IF @ = "held" THEN "revoked" ELSE @]
     ELSE /\ creds' = IF Leased THEN [creds EXCEPT ![e] = "held"] ELSE creds
          /\ dispatch' = [dispatch EXCEPT ![e].pc = "lock", ![e].options = TRUE]
          /\ UNCHANGED <<status, action, awaiting, releasing, control>>
  /\ UNCHANGED <<belongs, key, session, outside, connected, owed, unheard, faults>>

\* Under the lock the session is looked for again.  One that has finished
\* meanwhile loses the key; without options the dispatch starts over.
Lock(e) ==
  LET s == FindSession(e) IN
  /\ dispatch[e].pc = "lock"
  /\ Free(KeyLock)
  /\ \/ /\ ~Fresh(s)
        /\ dispatch' = [dispatch EXCEPT ![e].pc = "attach", ![e].s = s]
        /\ UNCHANGED key
     \/ /\ Fresh(s) /\ ~dispatch[e].options
        /\ Goto(e, "look")
        /\ UNCHANGED key
     \/ /\ Fresh(s) /\ dispatch[e].options
        /\ dispatch' = [dispatch EXCEPT ![e].pc = "save", ![e].s = e]
        /\ key' = IF key = s THEN None ELSE key
  /\ UNCHANGED <<status, belongs, action, awaiting, session, outside, creds, releasing, control,
                 connected, owed, unheard, faults>>

\* saveAgentSession
Save(e) ==
  /\ dispatch[e].pc = "save"
  /\ session' = [session EXCEPT ![e] = "saved"]
  /\ key' = e
  /\ Goto(e, "attach")
  /\ UNCHANGED <<status, belongs, action, awaiting, outside, creds, releasing, control,
                 connected, owed, unheard, faults>>

\* attachExecutionToSession, whatever has become of the execution.
Attach(e) ==
  LET s == dispatch[e].s IN
  /\ dispatch[e].pc = "attach"
  /\ belongs' = [belongs EXCEPT ![e] = s]
  /\ Goto(e, IF session[s] = "bound" THEN "get" ELSE "create")
  /\ UNCHANGED <<status, action, awaiting, key, session, outside, creds, releasing, control,
                 connected, owed, unheard, faults>>

\* What the daemon does for a call; making an agent is idempotent by its session.
Effect(e) ==
  LET s == dispatch[e].s
      pc == dispatch[e].pc
  IN /\ agent' = [agent EXCEPT ![s] =
                    IF <<pc, @>> \in {<<"create", "absent">>, <<"get", "archived">>}
                    THEN "up" ELSE @]
     /\ working' = IF pc = "send" THEN [working EXCEPT ![s] = @ \cup {e}] ELSE working

\* connection.create, connection.get with restore, connection.send
Call(e) ==
  /\ dispatch[e].pc \in Calling /\ dispatch[e].conn = "open"
  /\ Effect(e)
  /\ dispatch' = CASE dispatch[e].pc = "create" -> [dispatch EXCEPT ![e].pc = "bind"]
                   [] dispatch[e].pc = "get" -> [dispatch EXCEPT ![e].pc = "check"]
                   [] dispatch[e].pc = "send" -> [dispatch EXCEPT ![e] = NoDispatch]
  /\ UNCHANGED <<rows, late, creds, releasing, control, connected, owed, unheard, faults>>

\* DaemonResponseLostError, with or without the effect of the call.
CallLost(e) ==
  /\ dispatch[e].pc \in Calling
  /\ \/ dispatch[e].conn # "open" /\ UNCHANGED faults
     \/ dispatch[e].conn = "open" /\ Fault("timeout")
  /\ \/ dispatch[e].conn # "closed" /\ Effect(e)
     \/ UNCHANGED <<agent, working>>
  /\ Abandoned(e)
  /\ UNCHANGED <<belongs, key, session, late, creds, connected, owed, unheard>>

\* A call or query rejects: a bad configuration, a deleted or broken agent.  A
\* first dispatch fails its execution; a recovery that could not reach the
\* database or the credentials' issuer leaves it to the next one.
Reject(e) ==
  /\ dispatch[e].pc \in UnderLock \cup {"mint"}
  /\ Fault("reject")
  /\ Failed(e) \/ Abandoned(e)
  /\ UNCHANGED <<belongs, key, session, outside, creds, connected, owed, unheard>>

\* saveAgentSession with the agent, attachAgentToExecution
Bind(e) ==
  /\ dispatch[e].pc = "bind"
  /\ session' = [session EXCEPT ![dispatch[e].s] = "bound"]
  /\ Goto(e, "get")
  /\ UNCHANGED <<status, belongs, action, awaiting, key, outside, creds, releasing, control,
                 connected, owed, unheard, faults>>

\* Mutant: the execution is not read again before its prompt is sent.
CheckNothing(e) ==
  /\ dispatch[e].pc = "check"
  /\ Goto(e, "send")
  /\ UNCHANGED <<rows, outside, creds, releasing, control, connected, owed, unheard, faults>>

\* deliver: the execution is read once more before the prompt is sent.
Check(e) ==
  /\ dispatch[e].pc = "check"
  /\ IF Live(e) THEN Goto(e, "send") /\ UNCHANGED <<status, action, awaiting, releasing, control>>
     ELSE Failed(e)
  /\ UNCHANGED <<belongs, key, session, outside, creds, connected, owed, unheard, faults>>

\* PostgreSQL cancels a wait for an advisory lock after QUERY_DEADLINE_MS: a
\* dispatch fails, a control stays pending, credentials are not given back.
WaitCancelled(e) ==
  /\ Fault("wait")
  /\ \/ /\ dispatch[e].pc = "lock" /\ ~Free(KeyLock)
        /\ Failed(e) \/ Abandoned(e)
     \/ /\ control[e].pc = "lock" /\ ~Free(control[e].lock)
        /\ control' = [control EXCEPT ![e] = NoControl]
        /\ UNCHANGED <<status, action, awaiting, releasing, dispatch>>
     \/ /\ releasing[e].pc = "list" /\ ~Free(releasing[e].lock)
        /\ releasing' = [releasing EXCEPT ![e] = NoRelease]
        /\ control' = Reconciled(e)
        /\ UNCHANGED <<status, action, awaiting, dispatch>>
  /\ UNCHANGED <<belongs, key, session, outside, creds, connected, owed, unheard>>

-----------------------------------------------------------------------------
(* The daemon's connection and the process *)

Severed(task, calling) ==
  [e \in Executions |->
     IF task[e].conn # "open" THEN task[e]
     ELSE [task[e] EXCEPT !.conn = IF task[e].pc \in calling THEN "cut" ELSE "closed"]]

Disconnect ==
  /\ connected /\ Fault("disconnect")
  /\ connected' = FALSE
  /\ dispatch' = Severed(dispatch, Calling)
  /\ control' = Severed(control, {"apply"})
  /\ UNCHANGED <<rows, outside, creds, releasing, owed, unheard>>

\* recoverDaemon: pending actions are sent, live executions dispatched again.
Reconnect ==
  /\ ~connected
  /\ connected' = TRUE
  /\ control' = [e \in Executions |-> Reconciled(e)[e]]
  /\ owed' = {e \in Executions : Live(e)}
  /\ UNCHANGED <<rows, outside, creds, dispatch, releasing, unheard, faults>>

\* recoverExecution, once no dispatch of the execution runs.  Credentials that
\* are gone cannot be given to an existing agent.
Recover(e) ==
  /\ e \in owed /\ dispatch[e].pc = "off"
  /\ owed' = owed \ {e}
  /\ IF connected /\ Live(e)
     THEN IF Leased /\ belongs[e] # None /\ \A x \in Members(belongs[e]) : creds[x] # "held"
          THEN End(e, "failed", FALSE) /\ UNCHANGED dispatch
          ELSE /\ dispatch' = [dispatch EXCEPT ![e] =
                                 [NoDispatch EXCEPT !.pc = "look", !.conn = "open"]]
               /\ UNCHANGED <<status, action, awaiting, releasing>>
     ELSE UNCHANGED <<status, action, awaiting, releasing, dispatch>>
  /\ UNCHANGED <<belongs, key, session, outside, creds, control, connected, unheard,
                 faults>>

\* The process dies and starts again: ExecutionAuthority.recover releases what
\* no live execution uses before anything else runs.
Crash ==
  /\ Fault("crash")
  /\ dispatch' = [e \in Executions |-> NoDispatch]
  /\ releasing' = [e \in Executions |-> NoRelease]
  /\ control' = [e \in Executions |-> NoControl]
  /\ creds' = [e \in Executions |->
                 IF creds[e] = "held" /\ ~Live(e) /\ (belongs[e] = None \/ ~InUse(belongs[e]))
                 THEN "revoked" ELSE creds[e]]
  /\ connected' = FALSE
  /\ owed' = {}
  /\ UNCHANGED <<rows, outside, unheard>>

Releasing(e) == ReleaseRead(e) \/ ReleaseList(e) \/ Revoke(e)

Controlling(e) ==
  ControlRead(e) \/ ControlLock(e) \/ ControlApply(e) \/ ControlLost(e)
  \/ ControlRecord(e) \/ ControlFinally(e)

Dispatching(e) ==
  Look(e) \/ Mint(e) \/ Lock(e) \/ Save(e) \/ Attach(e) \/ Call(e) \/ CallLost(e)
  \/ Bind(e) \/ Check(e)

Next ==
  \/ \E e \in Executions :
       \/ Arrive(e) \/ Finish(e) \/ Expire(e) \/ Acknowledge(e) \/ LoseSign(e)
       \/ Releasing(e) \/ Controlling(e) \/ Dispatching(e)
       \/ Reject(e) \/ WaitCancelled(e) \/ Recover(e)
  \/ \E s \in Executions, a \in {"interrupt", "archive"} : LateControl(s, a)
  \/ Disconnect \/ Reconnect \/ Crash

Spec == Init /\ [][Next]_vars

\* The sign comes that was not lost.
Signal(e) == e \notin unheard /\ Acknowledge(e)

\* The callbacks settle, the signs of a finished agent are recorded unless they
\* are lost (LoseSign), and a daemon that lost its connection makes a new one.
FairSpec ==
  /\ Spec
  /\ \A e \in Executions :
       /\ WF_vars(Releasing(e)) /\ WF_vars(Controlling(e)) /\ WF_vars(Dispatching(e))
       /\ WF_vars(Recover(e)) /\ WF_vars(Signal(e))
  /\ WF_vars(Reconnect)

-----------------------------------------------------------------------------
(* Properties *)

\* Every variable has its type.
TypeOK ==
  /\ status \in [Executions -> {"none", "live"} \cup Ended]
  /\ belongs \in [Executions -> Executions \cup {None}]
  /\ action \in [Executions -> {"none", "interrupt", "archive"}]
  /\ awaiting \subseteq Executions /\ unheard \subseteq Executions
  /\ key \in Executions \cup {None}
  /\ session \in [Executions -> {"absent", "saved", "bound"}]
  /\ agent \in [Executions -> {"absent", "up", "archived"}]
  /\ working \in [Executions -> SUBSET Executions]
  /\ creds \in [Executions -> {"none", "held", "revoked"}]
  /\ dispatch \in [Executions -> [pc : UnderLock \cup {"off", "look", "mint", "lock"},
                                  s : Executions \cup {None}, options : BOOLEAN, conn : Conn]]
  /\ releasing \in [Executions -> [pc : {"off", "read", "list", "revoke"},
                                   s : Executions \cup {None},
                                   lock : Executions \cup {None, KeyLock},
                                   owners : SUBSET Executions]]
  /\ control \in [Executions -> [pc : {"off", "read", "lock", "apply", "record", "finally"},
                                 s : Executions \cup {None},
                                 lock : Executions \cup {None, KeyLock}, conn : Conn]]
  /\ connected \in BOOLEAN
  /\ \A e \in Executions : dispatch[e].pc \in UnderLock => dispatch[e].s # None
  /\ owed \subseteq Executions
  /\ late \subseteq Executions \X {"interrupt", "archive"}
  /\ faults \in 0..MaxFaults

\* The Hub never stops an agent while a live execution has its prompt in it: the
\* end of one execution does not stop the work of another, save by a stop whose
\* answer the Hub has given up (LateControl).
LiveWorkGoesOn ==
  [][late \subseteq late' =>
       \A s \in Executions : \A e \in working[s] :
         Live(e) => e \in working'[s] /\ agent'[s] = "up"]_vars

\* One key, one agent: live prompts of the same key are never in two agents.
OneWorkingAgent ==
  \A s, t \in Executions :
    (\E e \in working[s] : Live(e)) /\ (\E e \in working[t] : Live(e)) => s = t

\* An agent that works for a live execution was made with credentials that
\* still hold, whoever of its executions has ended.
CredentialsOutliveWork ==
  Leased => \A s \in Executions : (\E e \in working[s] : Live(e)) => creds[s] = "held"

\* Every stop that the session still owes waits for a sign that was lost, or was
\* tried before the agent was there and is left to the next connection.
Stranded(s) ==
  LET owing == {e \in Members(s) : action[e] # "none"} IN
  /\ connected /\ owing \cap unheard # {}
  /\ \A e \in owing \ unheard :
       /\ e \notin awaiting
       /\ {dispatch[e].pc, releasing[e].pc, control[e].pc} = {"off"}

\* An agent does not keep the prompts of executions that ended for ever, once no
\* live execution needs it: unless a sign that the archive waits for was lost.
EndedWorkStops ==
  \A s \in Executions :
    (AutoArchive = Executions /\ working[s] # {} /\ ~InUse(s))
      ~> (working[s] = {} \/ InUse(s) \/ Stranded(s))

\* Credentials are given back once the execution and its session are done.
CredentialsAreRevoked ==
  \A e \in Executions :
    creds[e] = "held" ~>
      (creds[e] = "revoked" \/ Live(e) \/ (belongs[e] # None /\ InUse(belongs[e])))

=============================================================================
