------------------------ MODULE AgentSessionsProofs ------------------------
(***************************************************************************)
(* What AgentSessions promises for any number of executions, proved.       *)
(*                                                                         *)
(* TypeOK and KeyInv are inductive whatever fails: the session of a live   *)
(* execution keeps the key, so live prompts of a key are in one agent.     *)
(* That nothing stops that agent, nor takes back the credentials it was    *)
(* made with, needs more: a session that finished never comes into use     *)
(* again, so what is decided of one under its lock still holds when it is  *)
(* carried out.  SessionInv says so; it is inductive under SessionsKept.   *)
(***************************************************************************)
EXTENDS AgentSessions, TLAPS

-----------------------------------------------------------------------------
(* The invariant *)

\* An execution that has not arrived has no session, no dispatch and no prompt.
NewInv ==
  \A e \in Executions : status[e] = "none" =>
    /\ belongs[e] = None /\ dispatch[e].pc = "off"
    /\ \A s \in Executions : e \notin working[s]

\* One dispatch at a time holds the lock of the key.
OneHolder ==
  \A e, f \in Executions :
    dispatch[e].pc \in UnderLock /\ dispatch[f].pc \in UnderLock => e = f

\* The session a dispatch uses: the one that holds the key, save while it is
\* about to be saved.
HeldSession(e) ==
  /\ dispatch[e].pc \in UnderLock => dispatch[e].s \in Executions
  /\ dispatch[e].pc = "look" => ~dispatch[e].options
  /\ dispatch[e].pc = "mint" => belongs[e] = None
  /\ dispatch[e].pc = "lock" /\ dispatch[e].options => belongs[e] = None
  /\ dispatch[e].pc = "save" => key = None /\ dispatch[e].s = e /\ belongs[e] = None
  /\ dispatch[e].pc \in UnderLock \ {"save"} => key = dispatch[e].s
  /\ dispatch[e].pc \in UnderLock \ {"save", "attach"} => belongs[e] = dispatch[e].s

\* The session of a live execution keeps the key, and its prompt is nowhere else.
KeyKept(e) ==
  /\ belongs[e] # None /\ (Live(e) \/ ~Leased) => key = belongs[e]
  /\ \A s \in Executions : e \in working[s] /\ Live(e) => belongs[e] = s

KeyInv ==
  /\ NewInv
  /\ OneHolder
  /\ \A e \in Executions : HeldSession(e) /\ KeyKept(e)

\* With temporary credentials no call is rejected and the process does not crash:
\* either may leave a session saved that has no execution, see Known weaknesses in
\* README.md.  Without them no stop is given up that the daemon may carry out later.
SessionsKept ==
  IF Leased THEN Faults \cap {"crash", "reject"} = {} ELSE "late" \notin Faults

\* A session belongs to the execution that made it and, with temporary
\* credentials, is not saved again; without, it keeps the key.
SavedOnce ==
  /\ key # None => session[key] # "absent"
  /\ \A e \in Executions :
       /\ session[e] # "absent" =>
            IF Leased THEN belongs[e] = e \/ (dispatch[e].pc = "attach" /\ dispatch[e].s = e)
            ELSE key = e
       /\ belongs[e] # None => session[belongs[e]] # "absent"
       /\ dispatch[e].pc = "attach" /\ belongs[e] # None => dispatch[e].s = belongs[e]
       /\ Leased /\ dispatch[e].pc = "attach" /\ dispatch[e].s = e /\ belongs[e] = None =>
            \A x \in Executions : belongs[x] # e

\* The lock that a task took for its session's still is the right one: the key's,
\* or the one of a session that has lost the key for good.
Serves(s, lock) ==
  /\ s \in Executions /\ session[s] # "absent"
  /\ lock = KeyLock \/ (Leased /\ lock = s /\ key # s)

\* A stop is carried out on an agent that no live execution needs.
ControlInv ==
  \A e \in Executions :
    /\ control[e].pc \in {"lock", "apply"} => Serves(control[e].s, control[e].lock)
    /\ control[e].pc = "apply" =>
         /\ ~InUse(control[e].s)
         /\ control[e].lock = KeyLock => \A x \in Executions : dispatch[x].pc \notin UnderLock

\* The session named after s, if there is one, has no live execution any more and
\* gets none: only the dispatch of s itself may still save it.
Finished(s) ==
  /\ status[s] \in Ended
  /\ ~InUse(s)
  /\ \A x \in Executions : dispatch[x].pc \in UnderLock /\ dispatch[x].s = s => x = s

\* A stop given up can only meet a session that has finished.
LateInv ==
  \A s \in Executions, a \in {"interrupt", "archive"} :
     <<s, a>> \in late =>
       Leased /\ session[s] # "absent" /\ Finished(s) /\ dispatch[s].pc \notin UnderLock

\* The agent is there when the prompt is sent, and while the execution lives.
AgentInv ==
  \A e \in Executions :
    /\ session[e] = "bound" => agent[e] # "absent"
    /\ dispatch[e].pc = "bind" => agent[dispatch[e].s] # "absent"
    /\ dispatch[e].pc = "get" => session[dispatch[e].s] = "bound"
    /\ dispatch[e].pc \in {"check", "send"} => agent[dispatch[e].s] = "up"
    /\ \A s \in Executions : e \in working[s] /\ Live(e) => agent[s] = "up"

SessionInv == SavedOnce /\ ControlInv /\ LateInv /\ AgentInv

\* Credentials about to be given back are those of finished sessions.
ReleaseInv ==
  \A e \in Executions :
    /\ releasing[e].pc = "read" =>
         IF releasing[e].s = None THEN Finished(e) ELSE session[releasing[e].s] # "absent"
    /\ releasing[e].pc = "list" => Serves(releasing[e].s, releasing[e].lock)
    /\ releasing[e].pc = "revoke" => \A o \in releasing[e].owners : Finished(o)

\* The credentials of a session hold while a live execution uses or is about to
\* use them.
HeldInv ==
  \A e \in Executions : Live(e) =>
    /\ belongs[e] # None => creds[belongs[e]] = "held"
    /\ dispatch[e].pc = "lock" /\ dispatch[e].options => creds[e] = "held"
    /\ dispatch[e].pc = "save" => creds[e] = "held"
    /\ dispatch[e].pc = "attach" => creds[dispatch[e].s] = "held"

CredsInv == Leased => ReleaseInv /\ HeldInv

-----------------------------------------------------------------------------
(* Types *)

USE SessionsAssumption

DispatchType ==
  {d \in [pc : UnderLock \cup {"off", "look", "mint", "lock"},
          s : Executions \cup {None}, options : BOOLEAN, conn : Conn] :
     d.pc \in UnderLock => d.s # None}
ReleaseType == [pc : {"off", "read", "list", "revoke"}, s : Executions \cup {None},
                lock : Executions \cup {None, KeyLock}, owners : SUBSET Executions]
ControlType == [pc : {"off", "read", "lock", "apply", "record", "finally"},
                s : Executions \cup {None}, lock : Executions \cup {None, KeyLock}, conn : Conn]

RowType ==
  /\ status \in [Executions -> {"none", "live"} \cup Ended]
  /\ belongs \in [Executions -> Executions \cup {None}]
  /\ action \in [Executions -> {"none", "interrupt", "archive"}]
  /\ awaiting \subseteq Executions
  /\ key \in Executions \cup {None}
  /\ session \in [Executions -> {"absent", "saved", "bound"}]

WorldType ==
  /\ agent \in [Executions -> {"absent", "up", "archived"}]
  /\ working \in [Executions -> SUBSET Executions]
  /\ creds \in [Executions -> {"none", "held", "revoked"}]
  /\ connected \in BOOLEAN
  /\ owed \subseteq Executions /\ unheard \subseteq Executions
  /\ late \subseteq Executions \X {"interrupt", "archive"}
  /\ faults \in 0..MaxFaults

TaskType ==
  /\ dispatch \in [Executions -> DispatchType]
  /\ releasing \in [Executions -> ReleaseType]
  /\ control \in [Executions -> ControlType]

TypeInv == RowType /\ WorldType /\ TaskType

\* A stop is wanted of executions that have ended only, and stops a session.
PendingInv ==
  \A e \in Executions :
    /\ action[e] # "none" => status[e] \in Ended
    /\ control[e].pc \in {"lock", "apply"} => action[e] # "none" /\ control[e].s # None

\* The types in the groups the proofs cite are those of TypeOK.
LEMMA TypeInvIsTypeOK == TypeOK <=> TypeInv
  <1>1. dispatch \in [Executions -> DispatchType] <=>
          /\ dispatch \in [Executions -> [pc : UnderLock \cup {"off", "look", "mint", "lock"},
                                s : Executions \cup {None}, options : BOOLEAN, conn : Conn]]
          /\ \A e \in Executions : dispatch[e].pc \in UnderLock => dispatch[e].s # None
    BY DEF DispatchType
  <1>2. QED
    BY <1>1 DEF TypeOK, TypeInv, RowType, WorldType, TaskType, ReleaseType, ControlType

\* What the actions write has the type of the variable.
LEMMA DispatchWrites ==
  /\ NoDispatch \in DispatchType
  /\ [NoDispatch EXCEPT !.pc = "look", !.conn = "open"] \in DispatchType
  /\ \A d \in DispatchType :
       /\ \A pc \in {"look", "mint", "lock"} : [d EXCEPT !.pc = pc] \in DispatchType
       /\ [d EXCEPT !.pc = "lock", !.options = TRUE] \in DispatchType
       /\ \A pc \in UnderLock, s \in Executions : [d EXCEPT !.pc = pc, !.s = s] \in DispatchType
       /\ \A c \in Conn : [d EXCEPT !.conn = c] \in DispatchType
       /\ d.pc \in UnderLock => \A pc \in UnderLock : [d EXCEPT !.pc = pc] \in DispatchType
  <1> DEFINE PC == UnderLock \cup {"off", "look", "mint", "lock"}
             D == [pc : PC, s : Executions \cup {None}, options : BOOLEAN, conn : Conn]
  <1>1. /\ NoDispatch \in DispatchType
        /\ [NoDispatch EXCEPT !.pc = "look", !.conn = "open"] \in DispatchType
    BY DEF NoDispatch, DispatchType, UnderLock, Conn
  <1>2. ASSUME NEW d \in D
        PROVE  /\ \A pc \in PC : [d EXCEPT !.pc = pc] \in D
               /\ [d EXCEPT !.pc = "lock", !.options = TRUE] \in D
               /\ \A pc \in PC, s \in Executions : [d EXCEPT !.pc = pc, !.s = s] \in D
               /\ \A c \in Conn : [d EXCEPT !.conn = c] \in D
    OBVIOUS
  <1>3. DispatchType = {d \in D : d.pc \in UnderLock => d.s # None}
    BY DEF DispatchType
  <1>4. ASSUME NEW d \in DispatchType
        PROVE  /\ \A pc \in {"look", "mint", "lock"} : [d EXCEPT !.pc = pc] \in DispatchType
               /\ [d EXCEPT !.pc = "lock", !.options = TRUE] \in DispatchType
    <2>1. d \in D
      BY <1>3
    <2>2. \A pc \in {"look", "mint", "lock"} : pc \in PC /\ pc \notin UnderLock
      BY DEF UnderLock
    <2>3. /\ \A pc \in PC : [d EXCEPT !.pc = pc] \in D /\ [d EXCEPT !.pc = pc].pc = pc
          /\ [d EXCEPT !.pc = "lock", !.options = TRUE] \in D
          /\ [d EXCEPT !.pc = "lock", !.options = TRUE].pc = "lock"
      BY <2>1, <1>2
    <2>4. ASSUME NEW x \in D, x.pc \in {"look", "mint", "lock"} PROVE x \in DispatchType
      BY <1>3, <2>2, <2>4
    <2>5. QED
      BY <2>2, <2>3, <2>4
  <1>5. ASSUME NEW d \in DispatchType, NEW pc \in UnderLock, NEW s \in Executions
        PROVE  [d EXCEPT !.pc = pc, !.s = s] \in DispatchType
    <2>1. d \in D
      BY <1>3
    <2>2. [d EXCEPT !.pc = pc, !.s = s] \in D /\ [d EXCEPT !.pc = pc, !.s = s].s = s
      BY <2>1, <1>2
    <2>3. QED
      BY <1>3, <2>2
  <1>6. ASSUME NEW d \in DispatchType
        PROVE  /\ \A c \in Conn : [d EXCEPT !.conn = c] \in DispatchType
               /\ d.pc \in UnderLock => \A pc \in UnderLock : [d EXCEPT !.pc = pc] \in DispatchType
    BY <1>2, <1>3
  <1>7. QED
    BY <1>1, <1>4, <1>5, <1>6

\* The same for the records of a release of credentials,
LEMMA ReleaseWrites ==
  /\ NoRelease \in ReleaseType
  /\ \A s \in Executions \cup {None} : [NoRelease EXCEPT !.pc = "read", !.s = s] \in ReleaseType
  /\ \A r \in ReleaseType, o \in SUBSET Executions, l \in Executions \cup {KeyLock} :
       /\ [r EXCEPT !.pc = "revoke", !.owners = o] \in ReleaseType
       /\ [r EXCEPT !.pc = "list", !.lock = l] \in ReleaseType
  BY DEF NoRelease, ReleaseType

\* and for those of a control task.
LEMMA ControlWrites ==
  /\ NoControl \in ControlType
  /\ [NoControl EXCEPT !.pc = "read"] \in ControlType
  /\ \A c \in ControlType :
       /\ \A pc \in {"apply", "record", "finally"} : [c EXCEPT !.pc = pc] \in ControlType
       /\ \A n \in Conn : [c EXCEPT !.conn = n] \in ControlType
  BY DEF NoControl, ControlType, Conn

\* The program starts with every variable in its type.
LEMMA InitTypes == Init => TypeInv /\ PendingInv
  <1> SUFFICES ASSUME Init PROVE TypeInv /\ PendingInv
    OBVIOUS
  <1>1. RowType /\ WorldType
    BY DEF Init, RowType, WorldType
  <1>2. TaskType
    BY DispatchWrites, ReleaseWrites, ControlWrites DEF Init, TaskType
  <1>3. PendingInv
    BY DEF Init, PendingInv, NoControl
  <1>4. QED
    BY <1>1, <1>2, <1>3 DEF TypeInv

\* Ending an execution keeps the types of the rows it writes.
LEMMA EndTypes ==
  ASSUME TypeInv, NEW e \in Executions, NEW outcome \in Ended, NEW byAgent \in BOOLEAN,
         End(e, outcome, byAgent)
  PROVE  /\ status' \in [Executions -> {"none", "live"} \cup Ended]
         /\ action' \in [Executions -> {"none", "interrupt", "archive"}]
         /\ awaiting' \subseteq Executions
         /\ releasing' \in [Executions -> ReleaseType]
  BY ReleaseWrites DEF End, TypeInv, RowType, TaskType

\* Looking at an ended execution again keeps the type of the control tasks.
LEMMA ReconciledTypes ==
  ASSUME TypeInv, NEW e \in Executions
  PROVE  Reconciled(e) \in [Executions -> ControlType]
  BY ControlWrites DEF Reconciled, TypeInv, TaskType

\* A dispatch that moves on keeps the types.
LEMMA GotoTypes ==
  ASSUME TypeInv, NEW e \in Executions, NEW pc \in {"look", "mint", "lock"} \cup UnderLock,
         Goto(e, pc), pc \in UnderLock => dispatch[e].pc \in UnderLock
  PROVE  dispatch' \in [Executions -> DispatchType]
  <1>1. dispatch[e] \in DispatchType
    BY DEF TypeInv, TaskType
  <1>2. [dispatch[e] EXCEPT !.pc = pc] \in DispatchType
    <2>1. CASE pc \in UnderLock
      BY <1>1, <2>1, DispatchWrites
    <2>2. CASE pc \in {"look", "mint", "lock"}
      BY <1>1, <2>2, DispatchWrites
    <2>3. QED
      BY <2>1, <2>2
  <1>3. dispatch' = [dispatch EXCEPT ![e] = [dispatch[e] EXCEPT !.pc = pc]]
    BY DEF Goto
  <1>4. QED
    BY <1>2, <1>3 DEF TypeInv, TaskType

\* Faults are counted within their bound.
LEMMA FaultTypes ==
  ASSUME TypeInv, NEW kind, Fault(kind)
  PROVE  faults' \in 0..MaxFaults
  BY DEF Fault, TypeInv, WorldType

\* A dispatch that fails or is given up keeps the types of what it may write.
LEMMA AbandonedTypes ==
  ASSUME TypeInv, NEW e \in Executions, Failed(e) \/ Abandoned(e)
  PROVE  /\ status' \in [Executions -> {"none", "live"} \cup Ended]
         /\ action' \in [Executions -> {"none", "interrupt", "archive"}]
         /\ awaiting' \subseteq Executions
         /\ TaskType'
  <1>1. CASE Abandoned(e)
    <2>1. dispatch' \in [Executions -> DispatchType]
      BY <1>1, DispatchWrites DEF Abandoned, TypeInv, TaskType
    <2>2. control' \in [Executions -> ControlType]
      BY <1>1, ReconciledTypes DEF Abandoned, TypeInv, TaskType
    <2>3. QED
      BY <1>1, <2>1, <2>2 DEF Abandoned, TypeInv, TaskType, RowType
  <1>2. CASE Failed(e) /\ Live(e)
    <2>1. dispatch' \in [Executions -> DispatchType]
      BY <1>2, DispatchWrites DEF Failed, TypeInv, TaskType
    <2>2. QED
      BY <1>2, <2>1, EndTypes DEF Failed, TypeInv, TaskType, Ended
  <1>3. QED
    BY <1>1, <1>2 DEF Failed

\* A daemon call that is carried out keeps the types of the daemon's state.
LEMMA EffectTypes ==
  ASSUME TypeInv, NEW e \in Executions, Effect(e) \/ UNCHANGED <<agent, working>>
  PROVE  /\ agent' \in [Executions -> {"absent", "up", "archived"}]
         /\ working' \in [Executions -> SUBSET Executions]
  BY DEF Effect, TypeInv, WorldType

\* So does a stop that is carried out.
LEMMA AppliedTypes ==
  ASSUME TypeInv, NEW s, NEW a, Applied(s, a) \/ UNCHANGED <<agent, working>>
  PROVE  /\ agent' \in [Executions -> {"absent", "up", "archived"}]
         /\ working' \in [Executions -> SUBSET Executions]
  BY DEF Applied, TypeInv, WorldType

\* Every step keeps the types.
LEMMA StepTypes == TypeInv /\ PendingInv /\ [Next]_vars => TypeInv'
  <1> SUFFICES ASSUME TypeInv, PendingInv, [Next]_vars PROVE TypeInv'
    OBVIOUS
  <1> USE DEF TypeInv, rows, outside, tasks
  <1>1. ASSUME NEW e \in Executions, Arrive(e) PROVE TypeInv'
    BY <1>1, DispatchWrites DEF Arrive, RowType, WorldType, TaskType
  <1>2. ASSUME NEW e \in Executions, Finish(e) PROVE TypeInv'
    BY <1>2, EndTypes DEF Finish, RowType, WorldType, TaskType, Ended
  <1>3. ASSUME NEW e \in Executions, Expire(e) PROVE TypeInv'
    BY <1>3, EndTypes DEF Expire, RowType, WorldType, TaskType, Ended
  <1>4. ASSUME NEW e \in Executions, Acknowledge(e) \/ LoseSign(e) PROVE TypeInv'
    <2>1. CASE Acknowledge(e)
      BY <2>1, ControlWrites DEF Acknowledge, RowType, WorldType, TaskType
    <2>2. CASE LoseSign(e)
      BY <2>2 DEF LoseSign, RowType, WorldType, TaskType
    <2>3. QED
      BY <1>4, <2>1, <2>2
  <1>5. ASSUME NEW e \in Executions, ReleaseRead(e) PROVE TypeInv'
    <2>1. releasing[e] \in ReleaseType /\ releasing[e].s \in Executions \cup {None}
      BY DEF TaskType, ReleaseType
    <2>2. LockOf(releasing[e].s) \in Executions \cup {KeyLock} \/ releasing[e].s = None
      BY <2>1 DEF LockOf
    <2>3. releasing' \in [Executions -> ReleaseType]
      BY <1>5, <2>1, <2>2, ReleaseWrites DEF ReleaseRead, TaskType
    <2>4. QED
      BY <1>5, <2>3 DEF ReleaseRead, RowType, WorldType, TaskType
  <1>6. ASSUME NEW e \in Executions, ReleaseList(e) PROVE TypeInv'
    <2>1. Owners(e, releasing[e].s) \in SUBSET Executions
      BY DEF Owners, Members
    <2>2. releasing' = [releasing EXCEPT ![e] =
                          [@ EXCEPT !.pc = "revoke", !.owners = Owners(e, releasing[e].s)]]
      BY <1>6 DEF ReleaseList, TaskType, ReleaseType
    <2>3. releasing' \in [Executions -> ReleaseType]
      BY <2>1, <2>2, ReleaseWrites DEF TaskType
    <2>4. QED
      BY <1>6, <2>3 DEF ReleaseList, RowType, WorldType, TaskType
  <1>7. ASSUME NEW e \in Executions, Revoke(e) PROVE TypeInv'
    <2>1. releasing' \in [Executions -> ReleaseType]
      BY <1>7, ReleaseWrites DEF Revoke, TaskType
    <2>2. QED
      BY <1>7, <2>1, ReconciledTypes DEF Revoke, RowType, WorldType, TaskType
  <1>8. ASSUME NEW e \in Executions, ControlRead(e) PROVE TypeInv'
    <2>1. /\ control[e] \in ControlType
          /\ belongs[e] # None => LockOf(belongs[e]) \in Executions \cup {KeyLock}
      BY DEF TaskType, RowType, LockOf
    <2>2. belongs[e] # None =>
            [pc |-> "lock", s |-> belongs[e], lock |-> LockOf(belongs[e]), conn |-> "open"]
              \in ControlType
      BY <2>1 DEF RowType, ControlType, Conn
    <2>3. control' \in [Executions -> ControlType]
      BY <1>8, <2>1, <2>2, ControlWrites DEF ControlRead, TaskType
    <2>4. QED
      BY <1>8, <2>3 DEF ControlRead, RowType, WorldType, TaskType
  <1>9. ASSUME NEW e \in Executions, ControlLock(e) PROVE TypeInv'
    BY <1>9, ControlWrites DEF ControlLock, RowType, WorldType, TaskType
  <1>10. ASSUME NEW e \in Executions, ControlApply(e) PROVE TypeInv'
    <2>1. control' \in [Executions -> ControlType]
      BY <1>10, ControlWrites DEF ControlApply, TaskType
    <2>2. QED
      BY <1>10, <2>1, AppliedTypes DEF ControlApply, RowType, WorldType, TaskType
  <1>11. ASSUME NEW e \in Executions, ControlLost(e) PROVE TypeInv'
    <2>1. control' \in [Executions -> ControlType]
      BY <1>11, ControlWrites DEF ControlLost, TaskType
    <2>2. /\ agent' \in [Executions -> {"absent", "up", "archived"}]
          /\ working' \in [Executions -> SUBSET Executions]
      BY <1>11, AppliedTypes DEF ControlLost
    <2>3. faults' \in 0..MaxFaults
      BY <1>11 DEF ControlLost, Fault, WorldType
    <2>4. control[e].s \in Executions /\ action[e] \in {"interrupt", "archive"}
      BY <1>11 DEF ControlLost, PendingInv, RowType, TaskType, ControlType
    <2>5. late' \subseteq Executions \X {"interrupt", "archive"}
      BY <1>11, <2>4 DEF ControlLost, WorldType
    <2>6. WorldType'
      BY <1>11, <2>2, <2>3, <2>5 DEF ControlLost, WorldType
    <2>7. QED
      BY <1>11, <2>1, <2>6 DEF ControlLost, RowType, TaskType
  <1>12. ASSUME NEW e \in Executions, ControlRecord(e) PROVE TypeInv'
    BY <1>12, ControlWrites DEF ControlRecord, RowType, WorldType, TaskType
  <1>13. ASSUME NEW e \in Executions, ControlFinally(e) PROVE TypeInv'
    BY <1>13, ControlWrites DEF ControlFinally, RowType, WorldType, TaskType
  <1>14. ASSUME NEW e \in Executions, Look(e) PROVE TypeInv'
    <2>1. CASE Live(e)
      <3>1. Goto(e, "mint") \/ Goto(e, "lock")
        BY <1>14, <2>1 DEF Look
      <3>2. dispatch' \in [Executions -> DispatchType]
        <4>1. CASE Goto(e, "mint")
          BY <4>1, GotoTypes DEF UnderLock
        <4>2. CASE Goto(e, "lock")
          BY <4>2, GotoTypes DEF UnderLock
        <4>3. QED
          BY <3>1, <4>1, <4>2
      <3>3. QED
        BY <1>14, <2>1, <3>2 DEF Look, RowType, WorldType, TaskType
    <2>2. CASE ~Live(e)
      BY <1>14, <2>2, AbandonedTypes DEF Look, RowType, WorldType
    <2>3. QED
      BY <2>1, <2>2
  <1>15. ASSUME NEW e \in Executions, Mint(e) PROVE TypeInv'
    <2>1. CASE dispatch' = [dispatch EXCEPT ![e].pc = "lock", ![e].options = TRUE]
               /\ UNCHANGED <<status, action, awaiting, releasing, control>>
      <3>1. dispatch' = [dispatch EXCEPT ![e] = [@ EXCEPT !.pc = "lock", !.options = TRUE]]
        BY <2>1 DEF TaskType, DispatchType
      <3>2. dispatch' \in [Executions -> DispatchType]
        <4>1. dispatch[e] \in DispatchType
          BY DEF TaskType
        <4>2. [dispatch[e] EXCEPT !.pc = "lock", !.options = TRUE] \in DispatchType
          BY <4>1, DispatchWrites
        <4>3. QED
          BY <3>1, <4>2 DEF TaskType
      <3>3. WorldType'
        BY <1>15 DEF Mint, WorldType
      <3>4. QED
        BY <1>15, <2>1, <3>2, <3>3 DEF Mint, RowType, TaskType
    <2>2. CASE Failed(e)
      BY <1>15, <2>2, AbandonedTypes DEF Mint, RowType, WorldType
    <2>3. QED
      BY <1>15, <2>1, <2>2 DEF Mint
  <1>16. ASSUME NEW e \in Executions, Lock(e) PROVE TypeInv'
    <2>1. FindSession(e) \in Executions \cup {None}
      BY DEF FindSession, RowType
    <2>2. CASE ~Fresh(FindSession(e))
      <3>1. dispatch' = [dispatch EXCEPT ![e] = [@ EXCEPT !.pc = "attach", !.s = FindSession(e)]]
        BY <1>16, <2>2 DEF Lock, TaskType, DispatchType
      <3>2. dispatch' \in [Executions -> DispatchType]
        BY <2>1, <2>2, <3>1, DispatchWrites DEF TaskType, Fresh, UnderLock
      <3>3. QED
        BY <1>16, <2>2, <3>2 DEF Lock, RowType, WorldType, TaskType
    <2>3. CASE Fresh(FindSession(e)) /\ ~dispatch[e].options
      <3>1. Goto(e, "look")
        BY <1>16, <2>3 DEF Lock
      <3>2. dispatch' \in [Executions -> DispatchType]
        BY <3>1, GotoTypes DEF UnderLock
      <3>3. QED
        BY <1>16, <2>3, <3>2 DEF Lock, RowType, WorldType, TaskType
    <2>4. CASE Fresh(FindSession(e)) /\ dispatch[e].options
      <3>1. dispatch' = [dispatch EXCEPT ![e] = [@ EXCEPT !.pc = "save", !.s = e]]
        BY <1>16, <2>4 DEF Lock, TaskType, DispatchType
      <3>2. dispatch' \in [Executions -> DispatchType]
        BY <3>1, DispatchWrites DEF TaskType, UnderLock
      <3>3. QED
        BY <1>16, <2>4, <3>2 DEF Lock, RowType, WorldType, TaskType
    <2>5. QED
      BY <2>2, <2>3, <2>4, <1>16 DEF Lock
  <1>17. ASSUME NEW e \in Executions, Save(e) PROVE TypeInv'
    BY <1>17, DispatchWrites DEF Save, Goto, RowType, WorldType, TaskType, UnderLock
  <1>18. ASSUME NEW e \in Executions, Attach(e) PROVE TypeInv'
    <2>1. dispatch' \in [Executions -> DispatchType]
      BY <1>18, DispatchWrites DEF Attach, Goto, TaskType, UnderLock
    <2>2. dispatch[e].s \in Executions
      BY <1>18 DEF Attach, TaskType, DispatchType, UnderLock
    <2>3. QED
      BY <1>18, <2>1, <2>2 DEF Attach, RowType, WorldType, TaskType
  <1>19. ASSUME NEW e \in Executions, Call(e) PROVE TypeInv'
    <2>1. dispatch' \in [Executions -> DispatchType]
      BY <1>19, DispatchWrites DEF Call, Calling, TaskType, UnderLock
    <2>2. QED
      BY <1>19, <2>1, EffectTypes DEF Call, RowType, WorldType, TaskType
  <1>20. ASSUME NEW e \in Executions, CallLost(e) PROVE TypeInv'
    <2>1. /\ agent' \in [Executions -> {"absent", "up", "archived"}]
          /\ working' \in [Executions -> SUBSET Executions]
      BY <1>20, EffectTypes DEF CallLost
    <2>2. QED
      BY <1>20, <2>1, AbandonedTypes DEF CallLost, Fault, RowType, WorldType
  <1>21. ASSUME NEW e \in Executions, Bind(e) PROVE TypeInv'
    BY <1>21, DispatchWrites DEF Bind, Goto, RowType, WorldType, TaskType, UnderLock
  <1>22. ASSUME NEW e \in Executions, Check(e) PROVE TypeInv'
    <2>1. CASE Live(e)
      <3>1. dispatch' \in [Executions -> DispatchType]
        BY <1>22, <2>1, GotoTypes DEF Check, UnderLock
      <3>2. QED
        BY <1>22, <2>1, <3>1 DEF Check, RowType, WorldType, TaskType
    <2>2. CASE ~Live(e)
      BY <1>22, <2>2, AbandonedTypes DEF Check, RowType, WorldType
    <2>3. QED
      BY <2>1, <2>2
  <1>23. ASSUME NEW e \in Executions, Reject(e) PROVE TypeInv'
    BY <1>23, AbandonedTypes DEF Reject, Fault, RowType, WorldType
  <1>24. ASSUME NEW e \in Executions, WaitCancelled(e) PROVE TypeInv'
    <2>1. CASE Failed(e) \/ Abandoned(e)
      BY <1>24, <2>1, AbandonedTypes DEF WaitCancelled, Fault, RowType, WorldType
    <2>2. CASE /\ control' = [control EXCEPT ![e] = NoControl]
               /\ UNCHANGED <<status, action, awaiting, releasing, dispatch>>
      BY <1>24, <2>2, ControlWrites DEF WaitCancelled, Fault, RowType, WorldType, TaskType
    <2>3. CASE /\ releasing' = [releasing EXCEPT ![e] = NoRelease]
               /\ control' = Reconciled(e)
               /\ UNCHANGED <<status, action, awaiting, dispatch>>
      <3>1. /\ releasing' \in [Executions -> ReleaseType]
            /\ control' \in [Executions -> ControlType]
        BY <2>3, ReleaseWrites, ReconciledTypes DEF TaskType
      <3>2. WorldType'
        BY <1>24 DEF WaitCancelled, Fault, WorldType
      <3>3. QED
        BY <1>24, <2>3, <3>1, <3>2 DEF WaitCancelled, RowType, TaskType
    <2>4. QED
      BY <1>24, <2>1, <2>2, <2>3 DEF WaitCancelled
  <1>25. ASSUME NEW e \in Executions, Recover(e) PROVE TypeInv'
    <2>1. CASE End(e, "failed", FALSE) /\ UNCHANGED dispatch
      BY <1>25, <2>1, EndTypes DEF Recover, RowType, WorldType, TaskType, Ended
    <2>2. CASE UNCHANGED <<status, action, awaiting, releasing>>
      <3>1. dispatch' \in [Executions -> DispatchType]
        BY <1>25, <2>2, DispatchWrites DEF Recover, TaskType
      <3>2. QED
        BY <1>25, <2>2, <3>1 DEF Recover, RowType, WorldType, TaskType
    <2>3. QED
      BY <1>25, <2>1, <2>2 DEF Recover
  <1>26. ASSUME NEW s \in Executions, NEW a \in {"interrupt", "archive"}, LateControl(s, a)
         PROVE  TypeInv'
    BY <1>26, AppliedTypes DEF LateControl, RowType, WorldType, TaskType
  <1>27. CASE Disconnect
    <2>1. dispatch' \in [Executions -> DispatchType]
      BY <1>27, DispatchWrites DEF Disconnect, Severed, TaskType, Conn
    <2>2. control' \in [Executions -> ControlType]
      BY <1>27, ControlWrites DEF Disconnect, Severed, TaskType, Conn
    <2>3. WorldType'
      BY <1>27, FaultTypes DEF Disconnect, WorldType
    <2>4. QED
      BY <1>27, <2>1, <2>2, <2>3 DEF Disconnect, RowType, TaskType
  <1>28. CASE Reconnect
    <2>1. control' \in [Executions -> ControlType]
      BY <1>28, ReconciledTypes DEF Reconnect
    <2>2. QED
      BY <1>28, <2>1 DEF Reconnect, RowType, WorldType, TaskType
  <1>29. CASE Crash
    <2>1. TaskType'
      BY <1>29, DispatchWrites, ReleaseWrites, ControlWrites DEF Crash, TaskType
    <2>2. creds' \in [Executions -> {"none", "held", "revoked"}]
      BY <1>29 DEF Crash, WorldType
    <2>3. QED
      BY <1>29, <2>1, <2>2, FaultTypes DEF Crash, RowType, WorldType
  <1>30. CASE UNCHANGED vars
    BY <1>30 DEF vars, RowType, WorldType, TaskType
  <1>31. QED
    BY <1>1, <1>2, <1>3, <1>4, <1>5, <1>6, <1>7, <1>8, <1>9, <1>10, <1>11, <1>12, <1>13, <1>14,
       <1>15, <1>16, <1>17, <1>18, <1>19, <1>20, <1>21, <1>22, <1>23, <1>24, <1>25, <1>26, <1>27,
       <1>28, <1>29, <1>30 DEF Next, Releasing, Controlling, Dispatching

\* An execution that ends leaves the tasks' stops pending,
LEMMA EndPending ==
  ASSUME TypeInv, PendingInv, NEW e \in Executions, NEW outcome \in Ended,
         NEW byAgent \in BOOLEAN, Live(e), End(e, outcome, byAgent), UNCHANGED control
  PROVE  PendingInv'
  <1>1. action[e] = "none"
    BY DEF PendingInv, Live, Ended
  <1>2. control[e].pc \notin {"lock", "apply"}
    BY <1>1 DEF PendingInv
  <1>3. /\ status' = [status EXCEPT ![e] = outcome]
        /\ \A x \in Executions : x # e => action'[x] = action[x]
    BY DEF End, TypeInv, RowType
  <1>4. QED
    BY <1>2, <1>3 DEF PendingInv, TypeInv, RowType

\* and so does a dispatch that fails or is given up.
LEMMA AbandonedPending ==
  ASSUME TypeInv, PendingInv, NEW e \in Executions, Failed(e) \/ Abandoned(e)
  PROVE  PendingInv'
  <1>1. CASE Abandoned(e)
    BY <1>1 DEF Abandoned, Reconciled, NoControl, PendingInv, TypeInv, TaskType
  <1>2. CASE Failed(e) /\ Live(e)
    BY <1>2, EndPending DEF Failed, Ended
  <1>3. QED
    BY <1>1, <1>2 DEF Failed

\* Every step keeps PendingInv.
LEMMA StepPending == TypeInv /\ PendingInv /\ [Next]_vars => PendingInv'
  <1> SUFFICES ASSUME TypeInv, PendingInv, [Next]_vars PROVE PendingInv'
    OBVIOUS
  <1> USE DEF rows, tasks
  <1>1. ASSUME NEW e \in Executions, Arrive(e) PROVE PendingInv'
    BY <1>1 DEF Arrive, PendingInv, TypeInv, RowType, Ended
  <1>2. ASSUME NEW e \in Executions, Finish(e) PROVE PendingInv'
    BY <1>2, EndPending DEF Finish, Ended
  <1>3. ASSUME NEW e \in Executions, Expire(e) PROVE PendingInv'
    BY <1>3, EndPending DEF Expire, Ended
  <1>4. ASSUME NEW e \in Executions, Acknowledge(e) PROVE PendingInv'
    BY <1>4 DEF Acknowledge, PendingInv, NoControl, TypeInv, TaskType
  <1>5. ASSUME NEW e \in Executions, Revoke(e) PROVE PendingInv'
    BY <1>5 DEF Revoke, Reconciled, PendingInv, NoControl, TypeInv, TaskType
  <1>6. ASSUME NEW e \in Executions, ControlRead(e) PROVE PendingInv'
    BY <1>6 DEF ControlRead, PendingInv, NoControl, TypeInv, TaskType, ControlType
  <1>7. ASSUME NEW e \in Executions, ControlLock(e) PROVE PendingInv'
    BY <1>7 DEF ControlLock, PendingInv, TypeInv, TaskType, ControlType
  <1>8. ASSUME NEW e \in Executions, ControlApply(e) PROVE PendingInv'
    BY <1>8 DEF ControlApply, PendingInv, TypeInv, TaskType, ControlType
  <1>9. ASSUME NEW e \in Executions, ControlLost(e) \/ ControlFinally(e) PROVE PendingInv'
    BY <1>9 DEF ControlLost, ControlFinally, PendingInv, NoControl, TypeInv, TaskType
  <1>10. ASSUME NEW e \in Executions, ControlRecord(e) PROVE PendingInv'
    BY <1>10 DEF ControlRecord, PendingInv, NoControl, TypeInv, TaskType, RowType
  <1>11. ASSUME NEW e \in Executions, WaitCancelled(e) PROVE PendingInv'
    <2>1. CASE Failed(e) \/ Abandoned(e)
      BY <2>1, AbandonedPending
    <2>2. CASE /\ control' = [control EXCEPT ![e] = NoControl] \/ control' = Reconciled(e)
               /\ UNCHANGED <<status, action>>
      BY <2>2 DEF PendingInv, Reconciled, NoControl, TypeInv, TaskType
    <2>3. QED
      BY <1>11, <2>1, <2>2 DEF WaitCancelled
  <1>12. ASSUME NEW e \in Executions, Recover(e) PROVE PendingInv'
    <2>1. CASE Live(e) /\ End(e, "failed", FALSE)
      BY <1>12, <2>1, EndPending DEF Recover, Ended
    <2>2. CASE UNCHANGED <<status, action>>
      BY <1>12, <2>2 DEF Recover, PendingInv
    <2>3. QED
      BY <1>12, <2>1, <2>2 DEF Recover
  <1>13. CASE Disconnect
    <2>1. \A e \in Executions : control'[e].pc = control[e].pc /\ control'[e].s = control[e].s
      BY <1>13 DEF Disconnect, Severed, TypeInv, TaskType, ControlType
    <2>2. QED
      BY <1>13, <2>1 DEF Disconnect, PendingInv
  <1>14. CASE Reconnect \/ Crash
    BY <1>14 DEF Reconnect, Crash, Reconciled, PendingInv, NoControl, TypeInv, TaskType
  <1>15. CASE UNCHANGED <<status, action, control>>
    BY <1>15 DEF PendingInv
  <1>16. ASSUME NEW e \in Executions, Failed(e) \/ Abandoned(e) PROVE PendingInv'
    BY <1>16, AbandonedPending
  <1>17. ASSUME NEW e \in Executions, Dispatching(e) \/ Reject(e)
         PROVE  UNCHANGED <<status, action, control>> \/ Failed(e) \/ Abandoned(e)
    BY <1>17 DEF Dispatching, Reject, Look, Mint, Lock, Save, Attach, Call, CallLost, Bind, Check
  <1>18. QED
    BY <1>1, <1>2, <1>3, <1>4, <1>5, <1>6, <1>7, <1>8, <1>9, <1>10, <1>11, <1>12, <1>13, <1>14,
       <1>15, <1>16, <1>17
       DEF Next, Releasing, Controlling, ReleaseRead, ReleaseList, LateControl, LoseSign, vars

\* Every variable has its type, and stops are only wanted of executions that ended
\* (transitionTerminalAgentExecution, src/src/daemons/lifecycle.ts).
THEOREM TypesHold == Spec => [](TypeInv /\ PendingInv)
  <1>1. Init => TypeInv /\ PendingInv
    BY InitTypes
  <1>2. TypeInv /\ PendingInv /\ [Next]_vars => (TypeInv /\ PendingInv)'
    BY StepTypes, StepPending
  <1>3. QED
    BY <1>1, <1>2, PTL DEF Spec

\* Every variable has its type in every behaviour (rows of
\* src/src/agent-sessions/index.ts and src/src/daemons/lifecycle.ts).
THEOREM TypeCorrect == Spec => []TypeOK
  <1>1. TypeInv => TypeOK
    BY TypeInvIsTypeOK
  <1>2. QED
    BY <1>1, TypesHold, PTL

-----------------------------------------------------------------------------
(* KeyInv is inductive, whatever fails *)

\* Before anything arrives nothing holds the key.
LEMMA InitKey == Init => KeyInv
  BY DEF Init, KeyInv, NewInv, OneHolder, HeldSession, KeyKept, NoDispatch, UnderLock, Live

\* Steps that only let go: executions end, dispatches stop, prompts are gone.
LetsGo ==
  /\ UNCHANGED <<belongs, key, session>>
  /\ \A e \in Executions :
       /\ status'[e] = status[e] \/ (Live(e) /\ status'[e] \in Ended)
       /\ SessionsKept /\ Leased /\ dispatch[e].pc = "attach" => dispatch'[e].pc = "attach"
       /\ \/ dispatch'[e].pc = "off"
          \/ /\ dispatch'[e].pc = dispatch[e].pc /\ dispatch'[e].s = dispatch[e].s
             /\ dispatch'[e].options = dispatch[e].options
  /\ \A s \in Executions : working'[s] \subseteq working[s]

\* A step that only lets go of what it holds keeps KeyInv.
LEMMA LetsGoKeeps == KeyInv /\ LetsGo => KeyInv'
  <1> SUFFICES ASSUME KeyInv, LetsGo PROVE KeyInv'
    OBVIOUS
  <1>1. NewInv'
    BY DEF KeyInv, NewInv, LetsGo, Ended, Live
  <1>2. OneHolder'
    BY DEF KeyInv, OneHolder, LetsGo, UnderLock
  <1>3. ASSUME NEW e \in Executions PROVE HeldSession(e)'
    BY DEF KeyInv, HeldSession, LetsGo, UnderLock
  <1>4. ASSUME NEW e \in Executions PROVE KeyKept(e)'
    BY DEF KeyInv, KeyKept, LetsGo, Live, Ended
  <1>5. QED
    BY <1>1, <1>2, <1>3, <1>4 DEF KeyInv

\* Ending an execution only lets go,
LEMMA EndLetsGo ==
  ASSUME TypeInv, NEW e \in Executions, NEW outcome \in Ended, NEW byAgent, Live(e),
         End(e, outcome, byAgent), UNCHANGED <<belongs, key, session, dispatch>>,
         \A s \in Executions : working'[s] \subseteq working[s]
  PROVE  LetsGo
  BY DEF End, LetsGo, TypeInv, RowType, TaskType

\* A dispatch that is given up only lets go, unless its last call has an effect.
LEMMA AbandonedLetsGo ==
  ASSUME TypeInv, NEW e \in Executions, Failed(e) \/ Abandoned(e)
  PROVE  /\ dispatch' = [dispatch EXCEPT ![e] = NoDispatch]
         /\ \A x \in Executions :
              status'[x] = status[x] \/ (x = e /\ Live(e) /\ status'[e] \in Ended)
         /\ /\ UNCHANGED <<belongs, key, session>>
            /\ \A s \in Executions : working'[s] \subseteq working[s]
            /\ SessionsKept /\ Leased => dispatch[e].pc # "attach"
            => LetsGo
  <1>1. dispatch' = [dispatch EXCEPT ![e] = NoDispatch]
    BY DEF Failed, Abandoned
  <1>2. \A x \in Executions : status'[x] = status[x] \/ (x = e /\ Live(e) /\ status'[e] \in Ended)
    BY DEF Failed, Abandoned, End, TypeInv, RowType, Ended
  <1>3. QED
    BY <1>1, <1>2 DEF LetsGo, NoDispatch, TypeInv, TaskType

\* a stop only takes prompts away,
LEMMA AppliedLetsGo ==
  ASSUME TypeInv, NEW t, NEW a, Applied(t, a)
  PROVE  \A s \in Executions : working'[s] \subseteq working[s]
  BY DEF Applied, TypeInv, WorldType

\* and a step of anything else changes nothing that KeyInv is about.
LEMMA StandStill ==
  ASSUME UNCHANGED <<status, belongs, key, session, working, dispatch>>
  PROVE  LetsGo
  BY DEF LetsGo

\* The steps that let go.
LEMMA Releases ==
  ASSUME TypeInv, [Next]_vars
  PROVE  \/ LetsGo
         \/ \E e \in Executions :
              Arrive(e) \/ Look(e) \/ Mint(e) \/ Lock(e) \/ Save(e) \/ Attach(e) \/ Call(e)
              \/ CallLost(e) \/ Bind(e) \/ Check(e) \/ Recover(e)
  <1> USE DEF rows, tasks, outside
  <1>1. ASSUME NEW e \in Executions, Finish(e) \/ Expire(e) PROVE LetsGo
    BY <1>1, EndLetsGo DEF Finish, Expire, Ended
  <1>2. ASSUME NEW e \in Executions, Acknowledge(e) \/ LoseSign(e) \/ Releasing(e)
        PROVE  LetsGo
    BY <1>2, StandStill DEF Acknowledge, LoseSign, Releasing, ReleaseRead, ReleaseList, Revoke
  <1>3. ASSUME NEW e \in Executions,
               ControlRead(e) \/ ControlLock(e) \/ ControlRecord(e) \/ ControlFinally(e)
        PROVE  LetsGo
    BY <1>3, StandStill DEF ControlRead, ControlLock, ControlRecord, ControlFinally
  <1>4. ASSUME NEW e \in Executions, ControlApply(e) \/ ControlLost(e) PROVE LetsGo
    <2>1. \A s \in Executions : working'[s] \subseteq working[s]
      BY <1>4, AppliedLetsGo DEF ControlApply, ControlLost
    <2>2. UNCHANGED <<status, belongs, key, session, dispatch>>
      BY <1>4 DEF ControlApply, ControlLost
    <2>3. QED
      BY <2>1, <2>2 DEF LetsGo
  <1>5. ASSUME NEW s \in Executions, NEW a \in {"interrupt", "archive"}, LateControl(s, a)
        PROVE  LetsGo
    <2>1. \A t \in Executions : working'[t] \subseteq working[t]
      BY <1>5, AppliedLetsGo DEF LateControl
    <2>2. UNCHANGED <<status, belongs, key, session, dispatch>>
      BY <1>5 DEF LateControl
    <2>3. QED
      BY <2>1, <2>2 DEF LetsGo
  <1>6. ASSUME NEW e \in Executions, Reject(e) PROVE LetsGo
    BY <1>6, AbandonedLetsGo DEF Reject, Fault, SessionsKept
  <1>7. ASSUME NEW e \in Executions, WaitCancelled(e) PROVE LetsGo
    <2>1. CASE dispatch[e].pc = "lock" /\ (Failed(e) \/ Abandoned(e))
      BY <1>7, <2>1, AbandonedLetsGo DEF WaitCancelled
    <2>2. CASE UNCHANGED <<status, dispatch>>
      BY <1>7, <2>2, StandStill DEF WaitCancelled
    <2>3. QED
      BY <1>7, <2>1, <2>2 DEF WaitCancelled
  <1>8. CASE Disconnect
    <2>1. \A e \in Executions :
            /\ dispatch'[e].pc = dispatch[e].pc /\ dispatch'[e].s = dispatch[e].s
            /\ dispatch'[e].options = dispatch[e].options
      BY <1>8 DEF Disconnect, Severed, TypeInv, TaskType, DispatchType
    <2>2. QED
      BY <1>8, <2>1 DEF Disconnect, LetsGo
  <1>9. CASE Reconnect \/ UNCHANGED vars
    BY <1>9, StandStill DEF Reconnect, vars
  <1>10. CASE Crash
    BY <1>10 DEF Crash, Fault, SessionsKept, NoDispatch, LetsGo
  <1>11. QED
    BY <1>1, <1>2, <1>3, <1>4, <1>5, <1>6, <1>7, <1>8, <1>9, <1>10
       DEF Next, Controlling, Dispatching

\* A step of the dispatch alone.
LEMMA Moves ==
  ASSUME TypeInv, KeyInv, NEW e \in Executions, NEW d \in DispatchType,
         dispatch' = [dispatch EXCEPT ![e] = d], UNCHANGED <<status, belongs, key, working>>,
         status[e] # "none",
         d.pc \in UnderLock => \A x \in Executions \ {e} : dispatch[x].pc \notin UnderLock,
         HeldSession(e)'
  PROVE  KeyInv'
  <1>1. \A x \in Executions : dispatch'[x] = IF x = e THEN d ELSE dispatch[x]
    BY DEF TypeInv, TaskType
  <1>2. NewInv'
    BY <1>1 DEF KeyInv, NewInv
  <1>3. OneHolder'
    BY <1>1 DEF KeyInv, OneHolder
  <1>4. ASSUME NEW x \in Executions PROVE HeldSession(x)'
    BY <1>1 DEF KeyInv, HeldSession
  <1>5. ASSUME NEW x \in Executions PROVE KeyKept(x)'
    BY DEF KeyInv, KeyKept, Live
  <1>6. QED
    BY <1>2, <1>3, <1>4, <1>5 DEF KeyInv

\* Whoever holds the lock holds it alone.
LEMMA Alone ==
  ASSUME KeyInv, NEW e \in Executions, dispatch[e].pc \in UnderLock
  PROVE  \A x \in Executions \ {e} : dispatch[x].pc \notin UnderLock
  BY DEF KeyInv, OneHolder

\* Only an execution that arrived is dispatched.
LEMMA Started ==
  ASSUME KeyInv, NEW e \in Executions, dispatch[e].pc # "off"
  PROVE  status[e] # "none"
  BY DEF KeyInv, NewInv

\* The steps of a dispatch, one by one: it arrives,
LEMMA ArriveKeeps ==
  ASSUME TypeInv, KeyInv, NEW e \in Executions, Arrive(e)
  PROVE  KeyInv'
  <1> DEFINE d == [NoDispatch EXCEPT !.pc = "look", !.conn = "open"]
  <1>1. /\ \A x \in Executions : dispatch'[x] = IF x = e THEN d ELSE dispatch[x]
        /\ \A x \in Executions : status'[x] = IF x = e THEN "live" ELSE status[x]
        /\ d.pc = "look" /\ ~d.options
        /\ status[e] = "none"
        /\ UNCHANGED <<belongs, key, working>>
    BY DEF Arrive, NoDispatch, TypeInv, TaskType, RowType, outside
  <1> HIDE DEF d
  <1>2. NewInv'
    BY <1>1 DEF KeyInv, NewInv
  <1>3. OneHolder'
    BY <1>1 DEF KeyInv, OneHolder, UnderLock
  <1>4. ASSUME NEW x \in Executions PROVE HeldSession(x)'
    BY <1>1 DEF KeyInv, HeldSession, UnderLock
  <1>5. ASSUME NEW x \in Executions PROVE KeyKept(x)'
    BY <1>1 DEF KeyInv, NewInv, KeyKept, Live
  <1>6. QED
    BY <1>2, <1>3, <1>4, <1>5 DEF KeyInv

\* looks for its session,
LEMMA LookKeeps ==
  ASSUME TypeInv, KeyInv, NEW e \in Executions, Look(e)
  PROVE  KeyInv'
  <1>1. CASE ~Live(e)
    BY <1>1, AbandonedLetsGo, LetsGoKeeps DEF Look, outside
  <1>2. CASE Live(e)
    <2>1. PICK pc \in {"mint", "lock"} :
            /\ dispatch' = [dispatch EXCEPT ![e] = [dispatch[e] EXCEPT !.pc = pc]]
            /\ pc = "mint" => Fresh(FindSession(e))
      BY <1>2 DEF Look, Goto
    <2> DEFINE d == [dispatch[e] EXCEPT !.pc = pc]
    <2>2. dispatch[e] \in DispatchType /\ d \in DispatchType
      BY DispatchWrites DEF TypeInv, TaskType
    <2>3. d.pc = pc /\ ~d.options /\ dispatch'[e] = d
      BY <1>2, <2>1, <2>2 DEF Look, KeyInv, HeldSession, DispatchType, TypeInv, TaskType
    <2> HIDE DEF d
    <2>4. pc = "mint" => belongs[e] = None
      BY <1>2, <2>1 DEF Fresh, NeedsFresh, InUse, Members, FindSession, TypeInv, RowType
    <2>5. UNCHANGED <<status, belongs, key, working>> /\ status[e] # "none"
      BY <1>2, Started DEF Look, outside
    <2>6. HeldSession(e)'
      BY <2>3, <2>4, <2>5 DEF HeldSession, UnderLock
    <2>7. QED
      BY <2>1, <2>2, <2>3, <2>5, <2>6, Moves DEF UnderLock, d
  <1>3. QED
    BY <1>1, <1>2

\* mints its credentials,
LEMMA MintKeeps ==
  ASSUME TypeInv, KeyInv, NEW e \in Executions, Mint(e)
  PROVE  KeyInv'
  <1>1. CASE Failed(e)
    BY <1>1, AbandonedLetsGo, LetsGoKeeps DEF Mint, outside
  <1>2. CASE ~Failed(e)
    <2> DEFINE d == [dispatch[e] EXCEPT !.pc = "lock", !.options = TRUE]
    <2>1. dispatch[e] \in DispatchType /\ d \in DispatchType
      BY DispatchWrites DEF TypeInv, TaskType
    <2>2. dispatch' = [dispatch EXCEPT ![e] = d]
      BY <1>2, <2>1 DEF Mint, DispatchType, TypeInv, TaskType
    <2>3. d.pc = "lock" /\ dispatch'[e] = d
      BY <2>1, <2>2 DEF DispatchType, TypeInv, TaskType
    <2> HIDE DEF d
    <2>4. UNCHANGED <<status, belongs, key, working>> /\ status[e] # "none" /\ dispatch[e].pc = "mint"
      BY <1>2, Started DEF Mint, outside
    <2>5. HeldSession(e)'
      BY <2>3, <2>4 DEF KeyInv, HeldSession, UnderLock
    <2>6. QED
      BY <2>1, <2>2, <2>3, <2>4, <2>5, Moves DEF UnderLock
  <1>3. QED
    BY <1>1, <1>2

\* What the lock decides: use the session of the key, start over, or replace the
\* session, which belongs to no live execution.
LockUses(e) ==
  /\ dispatch'[e].pc = "attach" /\ dispatch'[e].s = key
  /\ key \in Executions /\ ~NeedsFresh(key) /\ key' = key
  /\ belongs[e] # None => belongs[e] = key
LockStartsOver(e) ==
  dispatch'[e].pc = "look" /\ ~dispatch'[e].options /\ key' = key
LockReplaces(e) ==
  /\ dispatch'[e].pc = "save" /\ dispatch'[e].s = e /\ dispatch[e].options
  /\ belongs[e] = None /\ Fresh(key) /\ key' = None

\* What a dispatch does when it takes the lock, with its session or without.
LEMMA LockShape ==
  ASSUME TypeInv, KeyInv, NEW e \in Executions, Lock(e)
  PROVE  /\ UNCHANGED <<status, belongs, session, working, creds>>
         /\ dispatch[e].pc = "lock" /\ status[e] # "none"
         /\ \A x \in Executions : dispatch[x].pc \notin UnderLock
         /\ \A x \in Executions \ {e} : dispatch'[x] = dispatch[x]
         /\ LockUses(e) \/ LockStartsOver(e) \/ LockReplaces(e)
  <1> DEFINE s == FindSession(e)
  <1>1. /\ dispatch[e] \in DispatchType /\ dispatch[e].pc = "lock"
        /\ UNCHANGED <<status, belongs, session, working, creds>> /\ status[e] # "none"
        /\ \A x \in Executions : dispatch[x].pc \notin UnderLock
    BY Started DEF Lock, Free, TypeInv, TaskType, outside
  <1>2. \A x \in Executions \ {e} : dispatch'[x] = dispatch[x]
    BY DEF Lock, Goto, TypeInv, TaskType
  <1>3. CASE ~Fresh(s)
    <2>1. /\ dispatch' = [dispatch EXCEPT ![e] = [@ EXCEPT !.pc = "attach", !.s = s]]
          /\ key' = key
      BY <1>1, <1>3 DEF Lock, DispatchType, TypeInv, TaskType
    <2>2. dispatch'[e].pc = "attach" /\ dispatch'[e].s = s
      BY <1>1, <2>1 DEF DispatchType, TypeInv, TaskType
    <2>3. s \in Executions /\ ~NeedsFresh(s)
      BY <1>3 DEF Fresh, FindSession, TypeInv, RowType
    <2>4. key = s
      <3>1. CASE belongs[e] = None
        BY <3>1 DEF FindSession
      <3>2. CASE ~Leased /\ belongs[e] # None
        BY <3>2 DEF KeyInv, KeyKept, FindSession
      <3>3. CASE Leased /\ belongs[e] # None
        <4>1. e \in Members(s)
          BY <3>3 DEF Members, FindSession
        <4>2. PICK x \in Executions : belongs[x] = s /\ Live(x)
          BY <1>3, <3>3, <4>1 DEF Fresh, NeedsFresh, InUse, Members
        <4>3. QED
          BY <2>3, <4>2 DEF KeyInv, KeyKept
      <3>4. QED
        BY <3>1, <3>2, <3>3
    <2>5. belongs[e] # None => belongs[e] = key
      BY <2>4 DEF FindSession
    <2>6. QED
      BY <1>1, <1>2, <2>1, <2>2, <2>3, <2>4, <2>5 DEF LockUses
  <1>4. CASE Fresh(s) /\ ~dispatch[e].options
    <2>1. dispatch' = [dispatch EXCEPT ![e] = [@ EXCEPT !.pc = "look"]] /\ key' = key
      BY <1>4 DEF Lock, Goto
    <2>2. QED
      BY <1>1, <1>2, <1>4, <2>1 DEF LockStartsOver, DispatchType, TypeInv, TaskType
  <1>5. CASE Fresh(s) /\ dispatch[e].options
    <2>1. /\ dispatch' = [dispatch EXCEPT ![e] = [@ EXCEPT !.pc = "save", !.s = e]]
          /\ key' = IF key = s THEN None ELSE key
      BY <1>1, <1>5 DEF Lock, DispatchType, TypeInv, TaskType
    <2>2. dispatch'[e].pc = "save" /\ dispatch'[e].s = e
      BY <1>1, <2>1 DEF DispatchType, TypeInv, TaskType
    <2>3. belongs[e] = None /\ s = key
      BY <1>1, <1>5 DEF KeyInv, HeldSession, FindSession
    <2>4. QED
      BY <1>1, <1>2, <1>5, <2>1, <2>2, <2>3 DEF LockReplaces
  <1>6. QED
    BY <1>3, <1>4, <1>5

\* Taking the lock keeps KeyInv: the session it goes on with holds the key, or none does.
LEMMA LockKeeps ==
  ASSUME TypeInv, KeyInv, NEW e \in Executions, Lock(e)
  PROVE  KeyInv'
  <1>1. /\ UNCHANGED <<status, belongs, working>>
        /\ dispatch[e].pc = "lock" /\ status[e] # "none"
        /\ \A x \in Executions : dispatch[x].pc \notin UnderLock
        /\ \A x \in Executions \ {e} : dispatch'[x] = dispatch[x]
        /\ LockUses(e) \/ LockStartsOver(e) \/ LockReplaces(e)
    BY LockShape
  <1>2. NewInv'
    BY <1>1 DEF KeyInv, NewInv
  <1>3. OneHolder'
    BY <1>1 DEF OneHolder
  <1>4. ASSUME NEW x \in Executions PROVE HeldSession(x)'
    BY <1>1 DEF KeyInv, HeldSession, UnderLock, LockUses, LockStartsOver, LockReplaces
  <1>5. ASSUME NEW x \in Executions PROVE KeyKept(x)'
    <2>1. CASE key' = key
      BY <1>1, <2>1 DEF KeyInv, KeyKept, Live
    <2>2. CASE LockReplaces(e)
      <3>1. ASSUME NEW y \in Executions, belongs[y] # None PROVE ~(Live(y) \/ ~Leased)
        BY <2>2, <3>1 DEF LockReplaces, KeyInv, KeyKept, Fresh, NeedsFresh, InUse, Members
      <3>2. QED
        BY <1>1, <3>1 DEF KeyInv, KeyKept, Live
    <2>3. QED
      BY <1>1, <2>1, <2>2 DEF LockUses, LockStartsOver
  <1>6. QED
    BY <1>2, <1>3, <1>4, <1>5 DEF KeyInv

\* What saving the session changes.
LEMMA SaveShape ==
  ASSUME TypeInv, KeyInv, NEW e \in Executions, Save(e)
  PROVE  /\ UNCHANGED <<status, belongs, working, creds>>
         /\ session' = [session EXCEPT ![e] = "saved"]
         /\ key = None /\ key' = e /\ belongs[e] = None
         /\ dispatch[e].pc = "save" /\ status[e] # "none"
         /\ dispatch'[e].pc = "attach" /\ dispatch'[e].s = e
         /\ \A x \in Executions \ {e} :
              dispatch'[x] = dispatch[x] /\ dispatch[x].pc \notin UnderLock
  <1>1. /\ dispatch[e] \in DispatchType /\ dispatch[e].pc = "save"
        /\ \A x \in Executions \ {e} : dispatch[x].pc \notin UnderLock
    BY Alone DEF Save, TypeInv, TaskType, UnderLock
  <1>2. /\ key = None /\ status[e] # "none" /\ belongs[e] = None
        /\ dispatch[e].s = e
    BY <1>1, Started DEF KeyInv, HeldSession
  <1>3. /\ dispatch'[e].pc = "attach" /\ dispatch'[e].s = e
        /\ \A x \in Executions \ {e} : dispatch'[x] = dispatch[x]
    BY <1>1, <1>2 DEF Save, Goto, DispatchType, TypeInv, TaskType
  <1>4. QED
    BY <1>1, <1>2, <1>3 DEF Save, outside

\* Saving a session keeps KeyInv: the key was free.
LEMMA SaveKeeps ==
  ASSUME TypeInv, KeyInv, NEW e \in Executions, Save(e)
  PROVE  KeyInv'
  <1>1. NewInv'
    BY SaveShape DEF KeyInv, NewInv
  <1>2. OneHolder'
    BY SaveShape DEF OneHolder
  <1>3. ASSUME NEW x \in Executions PROVE HeldSession(x)'
    BY SaveShape DEF KeyInv, HeldSession, UnderLock
  <1>4. ASSUME NEW x \in Executions PROVE KeyKept(x)'
    BY SaveShape DEF KeyInv, KeyKept, Live
  <1>5. QED
    BY <1>1, <1>2, <1>3, <1>4 DEF KeyInv

\* What attaching the execution to the session changes.
LEMMA AttachShape ==
  ASSUME TypeInv, KeyInv, NEW e \in Executions, Attach(e)
  PROVE  /\ UNCHANGED <<status, key, session, working, creds>>
         /\ key \in Executions /\ dispatch[e].s = key
         /\ dispatch[e].pc = "attach" /\ status[e] # "none"
         /\ \A x \in Executions : belongs'[x] = IF x = e THEN key ELSE belongs[x]
         /\ dispatch'[e].pc = IF session[key] = "bound" THEN "get" ELSE "create"
         /\ dispatch'[e].s = key
         /\ \A x \in Executions \ {e} :
              dispatch'[x] = dispatch[x] /\ dispatch[x].pc \notin UnderLock
  <1>1. /\ dispatch[e] \in DispatchType /\ dispatch[e].pc = "attach"
        /\ \A x \in Executions \ {e} : dispatch[x].pc \notin UnderLock
    BY Alone DEF Attach, TypeInv, TaskType, UnderLock
  <1>2. key = dispatch[e].s /\ key \in Executions /\ status[e] # "none"
    BY <1>1, Started DEF KeyInv, HeldSession, UnderLock
  <1>3. /\ dispatch'[e].pc = IF session[key] = "bound" THEN "get" ELSE "create"
        /\ dispatch'[e].s = key
        /\ \A x \in Executions \ {e} : dispatch'[x] = dispatch[x]
    BY <1>1, <1>2 DEF Attach, Goto, DispatchType, TypeInv, TaskType
  <1>4. \A x \in Executions : belongs'[x] = IF x = e THEN key ELSE belongs[x]
    BY <1>2 DEF Attach, TypeInv, RowType
  <1>5. QED
    BY <1>1, <1>2, <1>3, <1>4 DEF Attach, outside

\* Attaching keeps KeyInv: the session holds the key.
LEMMA AttachKeeps ==
  ASSUME TypeInv, KeyInv, NEW e \in Executions, Attach(e)
  PROVE  KeyInv'
  <1>1. NewInv'
    BY AttachShape DEF KeyInv, NewInv
  <1>2. OneHolder'
    BY AttachShape DEF OneHolder
  <1>3. ASSUME NEW x \in Executions PROVE HeldSession(x)'
    BY AttachShape DEF KeyInv, HeldSession, UnderLock
  <1>4. ASSUME NEW x \in Executions PROVE KeyKept(x)'
    <2>1. belongs'[x] # None /\ (Live(x) \/ ~Leased) => key = belongs'[x]
      BY AttachShape DEF KeyInv, KeyKept
    <2>2. ASSUME NEW s \in Executions, x \in working[s], Live(x) PROVE belongs'[x] = s
      BY <2>2, AttachShape DEF KeyInv, KeyKept
    <2>3. QED
      BY <2>1, <2>2, AttachShape DEF KeyKept, Live
  <1>5. QED
    BY <1>1, <1>2, <1>3, <1>4 DEF KeyInv

\* The prompt goes to the agent of the session the execution belongs to.
LEMMA EffectKeeps ==
  ASSUME TypeInv, KeyInv, NEW e \in Executions, dispatch[e].pc \in Calling, Effect(e)
  PROVE  \A x, s \in Executions :
           x \in working'[s] => x \in working[s] \/ (x = e /\ s = belongs[e])
  BY DEF Effect, Calling, UnderLock, KeyInv, HeldSession, TypeInv, WorldType

\* A daemon call keeps KeyInv: the prompt goes to the session that holds the key.
LEMMA CallKeeps ==
  ASSUME TypeInv, KeyInv, NEW e \in Executions, Call(e)
  PROVE  KeyInv'
  <1>1. /\ dispatch[e] \in DispatchType /\ dispatch[e].pc \in Calling
        /\ UNCHANGED <<status, belongs, key>> /\ status[e] # "none"
        /\ \A x \in Executions \ {e} : dispatch[x].pc \notin UnderLock
    BY Started, Alone DEF Call, Calling, TypeInv, TaskType, rows, UnderLock
  <1>2. \A x, s \in Executions :
           x \in working'[s] => x \in working[s] \/ (x = e /\ s = belongs[e])
    BY EffectKeeps DEF Call
  <1>3. /\ \A x \in Executions \ {e} : dispatch'[x] = dispatch[x]
        /\ \/ dispatch'[e].pc = "off"
           \/ dispatch'[e].pc \in {"bind", "check"} /\ dispatch'[e].s = dispatch[e].s
    BY <1>1 DEF Call, Calling, NoDispatch, DispatchType, TypeInv, TaskType
  <1>4. NewInv'
    BY <1>1, <1>2, <1>3 DEF KeyInv, NewInv
  <1>5. OneHolder'
    BY <1>1, <1>3 DEF OneHolder, UnderLock
  <1>6. ASSUME NEW x \in Executions PROVE HeldSession(x)'
    BY <1>1, <1>3 DEF KeyInv, HeldSession, UnderLock, Calling
  <1>7. ASSUME NEW x \in Executions PROVE KeyKept(x)'
    BY <1>1, <1>2 DEF KeyInv, KeyKept, Live
  <1>8. QED
    BY <1>4, <1>5, <1>6, <1>7 DEF KeyInv

\* So does one whose answer is lost,
LEMMA CallLostKeeps ==
  ASSUME TypeInv, KeyInv, NEW e \in Executions, CallLost(e)
  PROVE  KeyInv'
  <1>1. /\ dispatch[e].pc \in Calling
        /\ UNCHANGED <<status, belongs, key>> /\ status[e] # "none"
        /\ dispatch' = [dispatch EXCEPT ![e] = NoDispatch]
    BY Started DEF CallLost, Abandoned, Calling
  <1>2. \A x, s \in Executions :
           x \in working'[s] => x \in working[s] \/ (x = e /\ s = belongs[e])
    BY EffectKeeps DEF CallLost
  <1>3. \A x \in Executions : dispatch'[x] = IF x = e THEN NoDispatch ELSE dispatch[x]
    BY <1>1 DEF TypeInv, TaskType
  <1>4. NewInv'
    BY <1>1, <1>2, <1>3 DEF KeyInv, NewInv, NoDispatch
  <1>5. OneHolder'
    BY <1>3 DEF KeyInv, OneHolder, UnderLock, NoDispatch
  <1>6. ASSUME NEW x \in Executions PROVE HeldSession(x)'
    BY <1>1, <1>3 DEF KeyInv, HeldSession, UnderLock, NoDispatch
  <1>7. ASSUME NEW x \in Executions PROVE KeyKept(x)'
    BY <1>1, <1>2 DEF KeyInv, KeyKept, Live
  <1>8. QED
    BY <1>4, <1>5, <1>6, <1>7 DEF KeyInv

\* the record of the agent, the check before the prompt,
LEMMA BindKeeps ==
  ASSUME TypeInv, KeyInv, NEW e \in Executions, Bind(e) \/ (Check(e) /\ Live(e))
  PROVE  KeyInv'
  <1>1. PICK pc \in {"get", "send"} :
          dispatch' = [dispatch EXCEPT ![e] = [dispatch[e] EXCEPT !.pc = pc]]
    BY DEF Bind, Check, Goto
  <1> DEFINE d == [dispatch[e] EXCEPT !.pc = pc]
  <1>2. /\ dispatch[e] \in DispatchType /\ dispatch[e].pc \in {"bind", "check"}
        /\ UNCHANGED <<status, belongs, key, working>> /\ status[e] # "none"
        /\ \A x \in Executions \ {e} : dispatch[x].pc \notin UnderLock
    BY Started, Alone DEF Bind, Check, TypeInv, TaskType, outside, UnderLock
  <1>3. d \in DispatchType
    BY <1>2, DispatchWrites DEF UnderLock
  <1>4. d.pc = pc /\ d.s = dispatch[e].s /\ dispatch'[e] = d
    BY <1>1, <1>2 DEF DispatchType, TypeInv, TaskType
  <1> HIDE DEF d
  <1>5. HeldSession(e)'
    BY <1>2, <1>4 DEF KeyInv, HeldSession, UnderLock
  <1>6. QED
    BY <1>1, <1>2, <1>3, <1>5, Moves DEF d

\* and the recovery after a restart.
LEMMA RecoverKeeps ==
  ASSUME TypeInv, KeyInv, NEW e \in Executions, Recover(e)
  PROVE  KeyInv'
  <1> DEFINE d == [NoDispatch EXCEPT !.pc = "look", !.conn = "open"]
  <1>1. CASE Live(e) /\ End(e, "failed", FALSE) /\ UNCHANGED dispatch
    BY <1>1, EndLetsGo, LetsGoKeeps DEF Recover, outside, Ended
  <1>2. CASE UNCHANGED <<status, dispatch>>
    BY <1>2, StandStill, LetsGoKeeps DEF Recover, outside
  <1>3. CASE Live(e) /\ UNCHANGED status /\ dispatch' = [dispatch EXCEPT ![e] = d]
    <2>1. d \in DispatchType /\ d.pc = "look" /\ ~d.options
      BY DispatchWrites DEF NoDispatch
    <2> HIDE DEF d
    <2>2. UNCHANGED <<belongs, key, working>> /\ dispatch'[e] = d
      BY <1>3 DEF Recover, outside, TypeInv, TaskType
    <2>3. HeldSession(e)'
      BY <2>1, <2>2 DEF HeldSession, UnderLock
    <2>4. status[e] # "none" /\ d.pc \notin UnderLock
      BY <1>3, <2>1 DEF Live, UnderLock
    <2>5. QED
      BY <1>3, <2>1, <2>2, <2>3, <2>4, Moves
  <1>4. QED
    BY <1>1, <1>2, <1>3 DEF Recover

\* Every step keeps KeyInv, whatever fails.
LEMMA StepKey == TypeInv /\ KeyInv /\ [Next]_vars => KeyInv'
  <1> SUFFICES ASSUME TypeInv, KeyInv, [Next]_vars PROVE KeyInv'
    OBVIOUS
  <1>1. ASSUME NEW e \in Executions, Check(e), ~Live(e) PROVE KeyInv'
    BY <1>1, AbandonedLetsGo, LetsGoKeeps DEF Check, outside
  <1>2. QED
    BY <1>1, Releases, LetsGoKeeps, ArriveKeeps, LookKeeps, MintKeeps, LockKeeps, SaveKeeps,
       AttachKeeps, CallKeeps, CallLostKeeps, BindKeeps, RecoverKeeps

\* The session of a live execution keeps its continuation key, and one dispatch at
\* a time holds the key's lock (dispatch, src/src/agent-sessions/index.ts).
THEOREM KeyHolds == Spec => [](TypeInv /\ KeyInv)
  <1>1. Init => KeyInv
    BY InitKey
  <1>2. TypeInv /\ KeyInv /\ [Next]_vars => KeyInv'
    BY StepKey
  <1>3. QED
    BY <1>1, <1>2, TypesHold, PTL DEF Spec

\* Live prompts of the same continuation key are never in two agents (dispatch
\* under the key's lock, src/src/agent-sessions/index.ts).
THEOREM OneAgentPerKey == Spec => []OneWorkingAgent
  <1>1. TypeInv /\ KeyInv => OneWorkingAgent
    <2> SUFFICES ASSUME TypeInv, KeyInv PROVE OneWorkingAgent
      OBVIOUS
    <2>1. ASSUME NEW s \in Executions, NEW e \in Executions, e \in working[s], Live(e)
          PROVE  key = s
      BY <2>1 DEF KeyInv, KeyKept
    <2>2. \A s \in Executions : working[s] \subseteq Executions
      BY DEF TypeInv, WorldType
    <2>3. QED
      BY <2>1, <2>2 DEF OneWorkingAgent
  <1>2. QED
    BY <1>1, KeyHolds, PTL

-----------------------------------------------------------------------------
(* SessionInv and CredsInv are inductive under SessionsKept *)

\* What the steps other than Lock, Save and Attach leave of the rows and the lock.
Keeps ==
  /\ UNCHANGED <<belongs, key>>
  /\ \A x \in Executions :
       /\ session'[x] = session[x] \/ (session[x] # "absent" /\ session'[x] = "bound")
       /\ \/ status'[x] = status[x] \/ (Live(x) /\ status'[x] \in Ended)
          \/ status[x] = "none" /\ status'[x] = "live"
       /\ dispatch'[x].pc \in UnderLock =>
            dispatch[x].pc \in UnderLock /\ dispatch'[x].s = dispatch[x].s
       /\ dispatch'[x].pc \in {"save", "attach"} => dispatch'[x].pc = dispatch[x].pc
       /\ SessionsKept /\ Leased /\ dispatch[x].pc = "attach" => dispatch'[x].pc = "attach"

\* A step that only lets go is one of them,
LEMMA LetsGoIsKept == LetsGo => Keeps
  BY DEF LetsGo, Keeps, UnderLock

\* so is a step of a dispatch that writes no row,
LEMMA MoveIsKept ==
  ASSUME TypeInv, NEW e \in Executions,
         UNCHANGED <<belongs, key, session, status>>,
         \A x \in Executions \ {e} : dispatch'[x] = dispatch[x],
         dispatch[e].pc # "attach", dispatch'[e].pc \notin {"save", "attach"},
         dispatch'[e].pc \in UnderLock =>
            dispatch[e].pc \in UnderLock /\ dispatch'[e].s = dispatch[e].s
  PROVE  Keeps
  <1>1. ASSUME NEW x \in Executions
        PROVE  /\ dispatch'[x].pc \in UnderLock =>
                    dispatch[x].pc \in UnderLock /\ dispatch'[x].s = dispatch[x].s
               /\ dispatch'[x].pc \in {"save", "attach"} => dispatch'[x].pc = dispatch[x].pc
               /\ dispatch[x].pc = "attach" => dispatch'[x].pc = "attach"
    BY DEF UnderLock
  <1>2. QED
    BY <1>1 DEF Keeps

\* and all others but those that take the lock, save and attach.
LEMMA Kept ==
  ASSUME TypeInv, KeyInv, SavedOnce, [Next]_vars
  PROVE  Keeps \/ \E e \in Executions : Lock(e) \/ Save(e) \/ Attach(e)
  <1>1. ASSUME NEW e \in Executions, Arrive(e) PROVE Keeps
    <2>1. /\ \A x \in Executions \ {e} : dispatch'[x] = dispatch[x]
          /\ dispatch'[e].pc = "look" /\ dispatch[e].pc = "off"
      BY <1>1 DEF Arrive, NoDispatch, KeyInv, NewInv, TypeInv, TaskType
    <2>2. ASSUME NEW x \in Executions
          PROVE  /\ dispatch'[x].pc \in UnderLock => dispatch'[x] = dispatch[x]
                 /\ dispatch'[x].pc \in {"save", "attach"} => dispatch'[x] = dispatch[x]
                 /\ dispatch[x].pc = "attach" => dispatch'[x] = dispatch[x]
      BY <2>1 DEF UnderLock
    <2>3. QED
      BY <1>1, <2>2 DEF Arrive, Keeps, TypeInv, RowType
  <1>2. ASSUME NEW e \in Executions, Look(e) PROVE Keeps
    <2>1. CASE ~Live(e)
      BY <1>2, <2>1, AbandonedLetsGo, LetsGoIsKept DEF Look, outside
    <2>2. CASE Live(e)
      BY <1>2, <2>2, MoveIsKept DEF Look, Goto, TypeInv, TaskType, DispatchType, UnderLock
    <2>3. QED
      BY <2>1, <2>2
  <1>3. ASSUME NEW e \in Executions, Mint(e) PROVE Keeps
    <2>1. CASE Failed(e)
      BY <1>3, <2>1, AbandonedLetsGo, LetsGoIsKept DEF Mint, outside
    <2>2. CASE ~Failed(e)
      BY <1>3, <2>2, MoveIsKept DEF Mint, TypeInv, TaskType, DispatchType, UnderLock
    <2>3. QED
      BY <2>1, <2>2
  <1>4. ASSUME NEW e \in Executions, Call(e) PROVE Keeps
    <2>1. /\ \A x \in Executions \ {e} : dispatch'[x] = dispatch[x]
          /\ \/ dispatch'[e].pc = "off"
             \/ dispatch'[e].pc \in {"bind", "check"} /\ dispatch'[e].s = dispatch[e].s
          /\ dispatch[e].pc \in {"create", "get", "send"}
      BY <1>4 DEF Call, Calling, NoDispatch, TypeInv, TaskType, DispatchType
    <2>2. QED
      BY <1>4, <2>1, MoveIsKept DEF Call, rows, UnderLock
  <1>5. ASSUME NEW e \in Executions, CallLost(e) PROVE Keeps
    <2>1. /\ \A x \in Executions \ {e} : dispatch'[x] = dispatch[x]
          /\ dispatch'[e].pc = "off" /\ dispatch[e].pc \in {"create", "get", "send"}
      BY <1>5 DEF CallLost, Abandoned, Calling, NoDispatch, TypeInv, TaskType
    <2>2. QED
      BY <1>5, <2>1, MoveIsKept DEF CallLost, Abandoned, UnderLock
  <1>6. ASSUME NEW e \in Executions, Bind(e) PROVE Keeps
    <2>1. /\ \A x \in Executions \ {e} : dispatch'[x] = dispatch[x]
          /\ dispatch'[e].pc = "get" /\ dispatch[e].pc = "bind" /\ dispatch'[e].s = dispatch[e].s
      BY <1>6 DEF Bind, Goto, TypeInv, TaskType, DispatchType
    <2>2. session[dispatch[e].s] # "absent"
      BY <2>1 DEF SavedOnce, KeyInv, HeldSession, UnderLock
    <2>3. ASSUME NEW x \in Executions
          PROVE  /\ session'[x] = session[x] \/ (session[x] # "absent" /\ session'[x] = "bound")
                 /\ dispatch'[x].pc \in UnderLock =>
                      dispatch[x].pc \in UnderLock /\ dispatch'[x].s = dispatch[x].s
                 /\ dispatch'[x].pc \in {"save", "attach"} => dispatch'[x].pc = dispatch[x].pc
                 /\ dispatch[x].pc = "attach" => dispatch'[x].pc = "attach"
      BY <1>6, <2>1, <2>2 DEF Bind, UnderLock, TypeInv, RowType
    <2>4. QED
      BY <1>6, <2>3 DEF Bind, Keeps
  <1>7. ASSUME NEW e \in Executions, Check(e) PROVE Keeps
    <2>1. CASE ~Live(e)
      BY <1>7, <2>1, AbandonedLetsGo, LetsGoIsKept DEF Check, outside
    <2>2. CASE Live(e)
      BY <1>7, <2>2, MoveIsKept DEF Check, Goto, TypeInv, TaskType, DispatchType, UnderLock
    <2>3. QED
      BY <2>1, <2>2
  <1>8. ASSUME NEW e \in Executions, Recover(e) PROVE Keeps
    <2>1. CASE Live(e) /\ End(e, "failed", FALSE) /\ UNCHANGED dispatch
      BY <1>8, <2>1, EndLetsGo, LetsGoIsKept DEF Recover, outside, Ended
    <2>2. CASE UNCHANGED <<status, dispatch>>
      BY <1>8, <2>2, StandStill, LetsGoIsKept DEF Recover, outside
    <2>3. CASE /\ UNCHANGED status
               /\ dispatch' = [dispatch EXCEPT ![e] = [NoDispatch EXCEPT !.pc = "look", !.conn = "open"]]
      BY <1>8, <2>3, MoveIsKept DEF Recover, NoDispatch, TypeInv, TaskType, UnderLock
    <2>4. QED
      BY <1>8, <2>1, <2>2, <2>3 DEF Recover
  <1>9. QED
    BY <1>1, <1>2, <1>3, <1>4, <1>5, <1>6, <1>7, <1>8, Releases, LetsGoIsKept

\* Before anything arrives no session is in use.
LEMMA InitSession == Init => SessionInv /\ CredsInv
  BY DEF Init, SessionInv, SavedOnce, ControlInv, LateInv, AgentInv, CredsInv, ReleaseInv, HeldInv,
         NoDispatch, NoRelease, NoControl, UnderLock, Live

\* Every step keeps SavedOnce.
LEMMA StepSaved ==
  ASSUME SessionsKept, TypeInv, KeyInv, SavedOnce, [Next]_vars
  PROVE  SavedOnce'
  <1>1. CASE Keeps
    <2>1. /\ UNCHANGED <<belongs, key>>
          /\ \A x \in Executions :
               /\ session'[x] # "absent" <=> session[x] # "absent"
               /\ dispatch'[x].pc = "attach" =>
                    dispatch[x].pc = "attach" /\ dispatch'[x].s = dispatch[x].s
               /\ Leased /\ dispatch[x].pc = "attach" => dispatch'[x].pc = "attach"
      BY <1>1 DEF Keeps, UnderLock
    <2>2. key \in Executions \cup {None} /\ \A x \in Executions : belongs[x] \in Executions \cup {None}
      BY DEF TypeInv, RowType
    <2>3. QED
      BY <2>1, <2>2 DEF SavedOnce
  <1>2. ASSUME NEW e \in Executions, Lock(e) PROVE SavedOnce'
    <2>1. CASE LockUses(e)
      <3>1. Leased => \E x \in Executions : belongs[x] = key
        BY <2>1, LockShape, <1>2 DEF LockUses, SavedOnce, UnderLock
      <3>2. Leased /\ dispatch'[e].s = e => belongs[e] # None
        BY <2>1, LockShape, <1>2 DEF LockUses, SavedOnce, UnderLock
      <3>3. QED
        BY <1>2, <2>1, <3>1, <3>2, LockShape DEF LockUses, SavedOnce, UnderLock
    <2>2. CASE LockStartsOver(e)
      BY <1>2, <2>2, LockShape DEF LockStartsOver, SavedOnce, UnderLock
    <2>3. CASE LockReplaces(e)
      <3>1. ASSUME ~Leased, NEW x \in Executions PROVE session[x] = "absent"
        BY <2>3, <3>1 DEF LockReplaces, Fresh, NeedsFresh, SavedOnce
      <3>2. QED
        BY <1>2, <2>3, <3>1, LockShape DEF LockReplaces, SavedOnce, UnderLock
    <2>4. QED
      BY <1>2, <2>1, <2>2, <2>3, LockShape
  <1>3. ASSUME NEW e \in Executions, Save(e) PROVE SavedOnce'
    <2>1. /\ UNCHANGED belongs /\ session' = [session EXCEPT ![e] = "saved"]
          /\ key = None /\ key' = e /\ belongs[e] = None /\ e # None
          /\ dispatch[e].pc = "save" /\ dispatch'[e].pc = "attach" /\ dispatch'[e].s = e
          /\ \A x \in Executions \ {e} : dispatch'[x] = dispatch[x] /\ dispatch[x].pc # "attach"
      BY <1>3, SaveShape DEF UnderLock
    <2>2. \A x \in Executions : session'[x] = IF x = e THEN "saved" ELSE session[x]
      BY <2>1 DEF TypeInv, RowType
    <2>3. session[e] = "absent"
      BY <2>1 DEF SavedOnce
    <2>4. \A x \in Executions : belongs[x] # e
      BY <2>1, <2>3 DEF SavedOnce
    <2>5. \A x \in Executions : belongs[x] \in Executions \cup {None}
      BY DEF TypeInv, RowType
    <2>6. ~Leased => \A x \in Executions : session[x] = "absent"
      BY <2>1 DEF SavedOnce
    <2>7. QED
      BY <2>1, <2>2, <2>4, <2>5, <2>6 DEF SavedOnce
  <1>4. ASSUME NEW e \in Executions, Attach(e) PROVE SavedOnce'
    <2>1. \A x \in Executions : dispatch'[x].pc # "attach"
      BY <1>4, AttachShape DEF UnderLock
    <2>2. ASSUME NEW x \in Executions, session[x] # "absent"
          PROVE  IF Leased THEN belongs'[x] = x ELSE key = x
      BY <1>4, <2>2, AttachShape DEF SavedOnce, UnderLock
    <2>3. ASSUME NEW x \in Executions, belongs'[x] # None PROVE session[belongs'[x]] # "absent"
      BY <1>4, <2>3, AttachShape DEF SavedOnce
    <2>4. key # None => session[key] # "absent"
      BY DEF SavedOnce
    <2>5. QED
      BY <1>4, <2>1, <2>2, <2>3, <2>4, AttachShape DEF SavedOnce
  <1>5. QED
    BY <1>1, <1>2, <1>3, <1>4, Kept

\* A lock that serves keeps serving.
LEMMA ServesStays ==
  ASSUME SessionsKept, TypeInv, KeyInv, SavedOnce, [Next]_vars, NEW s, NEW lock, Serves(s, lock)
  PROVE  Serves(s, lock)'
  <1>1. CASE Keeps
    BY <1>1 DEF Keeps, Serves
  <1>2. ASSUME NEW e \in Executions, Lock(e) PROVE Serves(s, lock)'
    BY <1>2, LockShape, SessionsAssumption DEF LockUses, LockStartsOver, LockReplaces, Serves
  <1>3. ASSUME NEW e \in Executions, Save(e) PROVE Serves(s, lock)'
    <2>1. /\ key = None /\ key' = e /\ belongs[e] = None /\ dispatch[e].pc = "save"
          /\ session' = [session EXCEPT ![e] = "saved"]
      BY <1>3, SaveShape
    <2>2. session[e] = "absent"
      BY <2>1 DEF SavedOnce
    <2>3. QED
      BY <2>1, <2>2 DEF Serves, TypeInv, RowType
  <1>4. ASSUME NEW e \in Executions, Attach(e) PROVE Serves(s, lock)'
    BY <1>4, AttachShape DEF Serves
  <1>5. QED
    BY <1>1, <1>2, <1>3, <1>4, Kept

\* A session that has finished stays so.
LEMMA FinishedStays ==
  ASSUME SessionsKept, Leased, TypeInv, KeyInv, SavedOnce, [Next]_vars,
         NEW s \in Executions, Finished(s)
  PROVE  /\ Finished(s)'
         /\ session[s] # "absent" /\ dispatch[s].pc \notin UnderLock
              => session'[s] # "absent" /\ dispatch'[s].pc \notin UnderLock
  <1>1. CASE Keeps
    <2>1. status'[s] \in Ended
      BY <1>1 DEF Keeps, Finished, Ended, Live
    <2>2. ~InUse(s)'
      BY <1>1, SessionsAssumption DEF Keeps, Finished, InUse, Members, Live, KeyInv, NewInv, Ended
    <2>3. QED
      BY <1>1, <2>1, <2>2 DEF Keeps, Finished
  <1>2. ASSUME NEW e \in Executions, Lock(e)
        PROVE  /\ Finished(s)'
               /\ session[s] # "absent" => session'[s] # "absent" /\ dispatch'[s].pc \notin UnderLock
    <2>1. UNCHANGED <<status, belongs, session>>
      BY <1>2, LockShape
    <2>2. status'[s] \in Ended /\ ~InUse(s)'
      BY <2>1 DEF Finished, InUse, Members, Live
    <2>3. CASE LockUses(e)
      <3>1. key # s
        <4>1. SUFFICES ASSUME key = s PROVE FALSE
          OBVIOUS
        <4>2. belongs[s] = s
          BY <4>1, <1>2, LockShape, SessionsAssumption DEF SavedOnce, UnderLock
        <4>3. s \in Members(s)
          BY <4>2 DEF Members
        <4>4. QED
          BY <2>3, <4>1, <4>3 DEF LockUses, NeedsFresh, Finished
      <3>2. session[s] # "absent" => e # s
        BY <1>2, <2>3, <3>1, LockShape, SessionsAssumption DEF LockUses, SavedOnce, UnderLock
      <3>3. QED
        BY <1>2, <2>1, <2>2, <2>3, <3>1, <3>2, LockShape DEF LockUses, Finished
    <2>4. CASE LockStartsOver(e)
      BY <1>2, <2>1, <2>2, <2>4, LockShape DEF LockStartsOver, Finished, UnderLock
    <2>5. CASE LockReplaces(e)
      <3>1. session[s] # "absent" => e # s
        BY <1>2, <2>5, LockShape, SessionsAssumption DEF LockReplaces, SavedOnce, UnderLock
      <3>2. QED
        BY <1>2, <2>1, <2>2, <2>5, <3>1, LockShape DEF LockReplaces, Finished
    <2>6. QED
      BY <1>2, <2>3, <2>4, <2>5, LockShape
  <1>3. ASSUME NEW e \in Executions, Save(e)
        PROVE  /\ Finished(s)'
               /\ session[s] # "absent" /\ dispatch[s].pc \notin UnderLock
                    => session'[s] # "absent" /\ dispatch'[s].pc \notin UnderLock
    <2>1. UNCHANGED <<status, belongs>>
      BY <1>3, SaveShape
    <2>2. status'[s] \in Ended /\ ~InUse(s)'
      BY <2>1 DEF Finished, InUse, Members, Live
    <2>3. session[s] # "absent" => session'[s] # "absent"
      BY <1>3, SaveShape DEF TypeInv, RowType
    <2>4. QED
      BY <1>3, <2>2, <2>3, SaveShape DEF Finished, UnderLock
  <1>4. ASSUME NEW e \in Executions, Attach(e)
        PROVE  /\ Finished(s)'
               /\ session[s] # "absent" /\ dispatch[s].pc \notin UnderLock
                    => session'[s] # "absent" /\ dispatch'[s].pc \notin UnderLock
    <2>1. key = s => e = s
      BY <1>4, AttachShape DEF Finished, UnderLock
    <2>2. ~Live(s)
      BY DEF Finished, Live, Ended
    <2>3. ~InUse(s)'
      BY <1>4, <2>1, <2>2, AttachShape DEF Finished, InUse, Members, Live
    <2>4. QED
      BY <1>4, <2>1, <2>3, AttachShape DEF Finished, UnderLock
  <1>5. QED
    BY <1>1, <1>2, <1>3, <1>4, Kept

\* A control comes to wait for a lock, or to stop an agent, by its own two steps.
LEMMA ControlMoves ==
  ASSUME TypeInv, [Next]_vars, NEW x \in Executions, control'[x].pc \in {"lock", "apply"}
  PROVE  \/ /\ control'[x].pc = control[x].pc /\ control'[x].s = control[x].s
            /\ control'[x].lock = control[x].lock
         \/ ControlRead(x) \/ ControlLock(x)
  <1> DEFINE Same == /\ control'[x].pc = control[x].pc /\ control'[x].s = control[x].s
                     /\ control'[x].lock = control[x].lock
  <1> SUFFICES ASSUME ~ControlRead(x), ~ControlLock(x) PROVE Same
    OBVIOUS
  <1>1. CASE control'[x] = control[x]
    BY <1>1
  <1>2. ASSUME NEW e \in Executions, control' = Reconciled(e) PROVE Same
    BY <1>2 DEF Reconciled, NoControl, TypeInv, TaskType
  <1>3. ASSUME NEW e \in Executions, Failed(e) \/ Abandoned(e) PROVE Same
    BY <1>1, <1>2, <1>3 DEF Failed, Abandoned
  <1>4. ASSUME NEW e \in Executions, NEW pc,
               control' = [control EXCEPT ![e].pc = pc], pc \notin {"lock", "apply"}
        PROVE  Same
    BY <1>4 DEF TypeInv, TaskType, ControlType
  <1>5. ASSUME NEW e \in Executions, control' = [control EXCEPT ![e] = NoControl] PROVE Same
    BY <1>5 DEF NoControl, TypeInv, TaskType
  <1>6. ASSUME NEW e \in Executions, Finish(e) \/ Expire(e) \/ Arrive(e) \/ Recover(e) PROVE Same
    BY <1>1, <1>6 DEF Finish, Expire, Arrive, Recover
  <1>7. ASSUME NEW e \in Executions, Acknowledge(e) \/ LoseSign(e) PROVE Same
    BY <1>1, <1>7 DEF Acknowledge, LoseSign, NoControl, tasks, TypeInv, TaskType
  <1>8. ASSUME NEW e \in Executions, Releasing(e) PROVE Same
    BY <1>1, <1>2, <1>8 DEF Releasing, ReleaseRead, ReleaseList, Revoke, tasks
  <1>9. ASSUME NEW e \in Executions, ControlRead(e) \/ ControlLock(e) PROVE Same
    BY <1>9 DEF ControlRead, ControlLock, TypeInv, TaskType
  <1>10. ASSUME NEW e \in Executions, ControlApply(e) \/ ControlLost(e) PROVE Same
    BY <1>4, <1>5, <1>10 DEF ControlApply, ControlLost
  <1>11. ASSUME NEW e \in Executions, ControlRecord(e) \/ ControlFinally(e) PROVE Same
    BY <1>5, <1>11 DEF ControlRecord, ControlFinally
  <1>12. ASSUME NEW e \in Executions, Dispatching(e) \/ Reject(e) PROVE Same
    BY <1>1, <1>3, <1>12
       DEF Dispatching, Reject, Look, Mint, Lock, Save, Attach, Call, CallLost, Bind, Check
  <1>13. ASSUME NEW e \in Executions, WaitCancelled(e) PROVE Same
    BY <1>1, <1>2, <1>3, <1>5, <1>13 DEF WaitCancelled
  <1>14. CASE Disconnect
    BY <1>14 DEF Disconnect, Severed, TypeInv, TaskType, ControlType
  <1>15. CASE Reconnect
    BY <1>15 DEF Reconnect, Reconciled, NoControl, TypeInv, TaskType
  <1>16. CASE Crash
    BY <1>16 DEF Crash, NoControl
  <1>17. ASSUME NEW s, NEW a, LateControl(s, a) PROVE Same
    BY <1>1, <1>17 DEF LateControl, tasks
  <1>18. CASE UNCHANGED vars
    BY <1>1, <1>18 DEF vars, tasks
  <1>19. QED
    BY <1>6, <1>7, <1>8, <1>9, <1>10, <1>11, <1>12, <1>13, <1>14, <1>15, <1>16, <1>17, <1>18
       DEF Next, Controlling

\* A stop under way keeps meeting an agent nobody needs.
LEMMA StopStays ==
  ASSUME SessionsKept, TypeInv, KeyInv, SavedOnce, ControlInv, [Next]_vars,
         NEW c \in Executions, control[c].pc = "apply", NEW t, t = control[c].s,
         NEW lock, lock = control[c].lock
  PROVE  /\ ~InUse(t)'
         /\ lock = KeyLock => \A x \in Executions : dispatch'[x].pc \notin UnderLock
  <1>1. /\ t \in Executions /\ ~InUse(t)
        /\ lock = KeyLock => \A x \in Executions : dispatch[x].pc \notin UnderLock
        /\ lock = KeyLock \/ key # t
    BY DEF ControlInv, Serves
  <1>2. CASE Keeps
    <2>1. ~InUse(t)'
      BY <1>1, <1>2, SessionsAssumption DEF Keeps, InUse, Members, Live, KeyInv, NewInv, Ended
    <2>2. QED
      BY <1>1, <1>2, <2>1 DEF Keeps
  <1>3. ASSUME NEW e \in Executions, Lock(e) PROVE lock # KeyLock /\ ~InUse(t)'
    BY <1>1, <1>3, LockShape DEF Lock, Free, InUse, Members, Live
  <1>4. ASSUME NEW e \in Executions, Save(e) PROVE lock # KeyLock /\ ~InUse(t)'
    BY <1>1, <1>4, SaveShape DEF InUse, Members, Live, UnderLock
  <1>5. ASSUME NEW e \in Executions, Attach(e) PROVE lock # KeyLock /\ ~InUse(t)'
    BY <1>1, <1>5, AttachShape DEF InUse, Members, Live, UnderLock
  <1>6. QED
    BY <1>2, <1>3, <1>4, <1>5, Kept

\* Every step keeps ControlInv: the lock a control task took still serves when it applies.
LEMMA StepControl ==
  ASSUME SessionsKept, TypeInv, KeyInv, SavedOnce, ControlInv, [Next]_vars
  PROVE  ControlInv'
  <1> SUFFICES ASSUME NEW c \in Executions, control'[c].pc \in {"lock", "apply"}
               PROVE  /\ Serves(control[c].s, control[c].lock)'
                      /\ control'[c].pc = "apply" =>
                           /\ ~InUse(control[c].s)'
                           /\ control'[c].lock = KeyLock =>
                                \A x \in Executions : dispatch'[x].pc \notin UnderLock
    BY DEF ControlInv
  <1>1. CASE /\ control'[c].pc = control[c].pc /\ control'[c].s = control[c].s
             /\ control'[c].lock = control[c].lock
    <2>1. ASSUME NEW s, NEW lock, s = control[c].s, lock = control[c].lock
          PROVE  Serves(s, lock)'
      <3>1. Serves(s, lock)
        BY <1>1, <2>1 DEF ControlInv
      <3>2. QED
        BY <3>1, ServesStays
    <2>2. Serves(control[c].s, control[c].lock)'
      BY <1>1, <2>1 DEF Serves
    <2>3. ASSUME control'[c].pc = "apply", NEW t, NEW lock, t = control[c].s, lock = control[c].lock
          PROVE  /\ ~InUse(t)'
                 /\ lock = KeyLock => \A x \in Executions : dispatch'[x].pc \notin UnderLock
      BY <1>1, <2>3, StopStays
    <2>4. QED
      BY <1>1, <2>2, <2>3 DEF InUse, Members
  <1>2. CASE ControlRead(c)
    <2>1. /\ UNCHANGED <<status, belongs, key, session, dispatch>>
          /\ belongs[c] \in Executions /\ session[belongs[c]] # "absent"
          /\ control'[c].pc = "lock" /\ control'[c].s = belongs[c]
          /\ control'[c].lock = LockOf(belongs[c])
      BY <1>2 DEF ControlRead, NoControl, rows, TypeInv, TaskType, RowType
    <2>2. ~Leased => key = belongs[c]
      BY <2>1, SessionsAssumption DEF KeyInv, KeyKept
    <2>3. QED
      BY <2>1, <2>2 DEF Serves, LockOf
  <1>3. CASE ControlLock(c)
    <2>1. /\ UNCHANGED <<status, belongs, key, session, dispatch>>
          /\ control[c].pc = "lock"
          /\ control'[c].s = control[c].s /\ control'[c].lock = control[c].lock
          /\ control'[c].pc = "apply" => ~InUse(control[c].s)
          /\ control[c].lock = KeyLock => \A x \in Executions : dispatch[x].pc \notin UnderLock
      BY <1>3 DEF ControlLock, Free, rows, TypeInv, TaskType, ControlType
    <2>2. QED
      BY <2>1 DEF ControlInv, Serves, InUse, Members, Live
  <1>4. QED
    BY <1>1, <1>2, <1>3, ControlMoves

\* The session a control stops the agent of has finished.
LEMMA StoppedHasFinished ==
  ASSUME TypeInv, KeyInv, SavedOnce, ControlInv, Leased,
         NEW c \in Executions, control[c].pc = "apply", NEW s \in Executions, s = control[c].s
  PROVE  session[s] # "absent" /\ Finished(s) /\ dispatch[s].pc \notin UnderLock
  <1>1. /\ session[s] # "absent" /\ ~InUse(s)
        /\ (\A x \in Executions : dispatch[x].pc \notin UnderLock) \/ key # s
    BY DEF ControlInv, Serves
  <1>2. belongs[s] = s
    BY <1>1 DEF SavedOnce, KeyInv, HeldSession, UnderLock
  <1>3. status[s] \in Ended
    BY <1>1, <1>2, SessionsAssumption
       DEF InUse, Members, Live, KeyInv, NewInv, TypeInv, RowType, Ended
  <1>4. ASSUME NEW x \in Executions, dispatch[x].pc \in UnderLock, dispatch[x].s = s PROVE FALSE
    BY <1>1, <1>2, <1>4, SessionsAssumption DEF KeyInv, HeldSession
  <1>5. dispatch[s].pc \notin UnderLock
    <2>1. SUFFICES ASSUME dispatch[s].pc \in UnderLock PROVE FALSE
      OBVIOUS
    <2>2. dispatch[s].s = s
      BY <1>2, <2>1, SessionsAssumption DEF KeyInv, HeldSession, SavedOnce, UnderLock
    <2>3. QED
      BY <1>4, <2>1, <2>2
  <1>6. QED
    BY <1>1, <1>3, <1>4, <1>5 DEF Finished

\* A stop becomes late only when the task that applies it gives it up.
LEMMA LateMoves ==
  ASSUME TypeInv, [Next]_vars, NEW s, NEW a, <<s, a>> \in late'
  PROVE  \/ <<s, a>> \in late
         \/ "late" \in Faults /\ \E c \in Executions : control[c].pc = "apply" /\ control[c].s = s
  <1>1. CASE late' \subseteq late
    BY <1>1
  <1>2. ASSUME NEW c \in Executions, ControlLost(c)
        PROVE  \/ late' \subseteq late
               \/ /\ "late" \in Faults /\ control[c].pc = "apply"
                  /\ late' = late \cup {<<control[c].s, action[c]>>}
    BY <1>2 DEF ControlLost, Fault, outside
  <1>3. ASSUME NEW e \in Executions, Finish(e) \/ Expire(e) \/ Arrive(e) \/ Recover(e)
                                     \/ Acknowledge(e) \/ LoseSign(e) \/ Releasing(e)
        PROVE  late' \subseteq late
    BY <1>3 DEF Finish, Expire, Arrive, Recover, Acknowledge, LoseSign, Releasing, ReleaseRead,
                ReleaseList, Revoke, outside
  <1>4. ASSUME NEW e \in Executions, ControlRead(e) \/ ControlLock(e) \/ ControlApply(e)
                                     \/ ControlRecord(e) \/ ControlFinally(e)
        PROVE  late' \subseteq late
    BY <1>4 DEF ControlRead, ControlLock, ControlApply, ControlRecord, ControlFinally, outside
  <1>5. ASSUME NEW e \in Executions, Dispatching(e) \/ Reject(e) \/ WaitCancelled(e)
        PROVE  late' \subseteq late
    BY <1>5 DEF Dispatching, Reject, WaitCancelled, Look, Mint, Lock, Save, Attach, Call, CallLost,
                Bind, Check, outside
  <1>6. CASE Disconnect \/ Reconnect \/ Crash \/ UNCHANGED vars
    BY <1>6 DEF Disconnect, Reconnect, Crash, vars, outside
  <1>7. ASSUME NEW t, NEW b, LateControl(t, b) PROVE late' \subseteq late
    BY <1>7 DEF LateControl
  <1>8. QED
    BY <1>1, <1>2, <1>3, <1>4, <1>5, <1>6, <1>7 DEF Next, Controlling

\* Every step keeps LateInv: what a late stop is for has finished, and stays so.
LEMMA StepLate ==
  ASSUME SessionsKept, TypeInv, KeyInv, SavedOnce, ControlInv, LateInv, [Next]_vars
  PROVE  LateInv'
  <1> SUFFICES ASSUME NEW s \in Executions, NEW a \in {"interrupt", "archive"}, <<s, a>> \in late'
               PROVE  /\ Leased /\ session'[s] # "absent" /\ Finished(s)'
                      /\ dispatch'[s].pc \notin UnderLock
    BY DEF LateInv
  <1>1. Leased /\ session[s] # "absent" /\ Finished(s) /\ dispatch[s].pc \notin UnderLock
    <2>1. CASE <<s, a>> \in late
      BY <2>1 DEF LateInv
    <2>2. CASE "late" \in Faults /\ \E c \in Executions : control[c].pc = "apply" /\ control[c].s = s
      BY <2>2, StoppedHasFinished DEF SessionsKept
    <2>3. QED
      BY <2>1, <2>2, LateMoves
  <1>2. QED
    BY <1>1, FinishedStays

\* The agent of t is stopped, by a control or by a stop given up earlier.
Stops(t) ==
  /\ \/ \E c \in Executions : control[c].pc = "apply" /\ control[c].s = t
     \/ \E a : <<t, a>> \in late /\ <<t, a>> \notin late'
  /\ \E a : Applied(t, a)
  /\ UNCHANGED <<status, belongs, key, session, dispatch>>

\* What a step may do to the agents: stop one, or a dispatch's own call.
LEMMA AgentMoves ==
  ASSUME TypeInv, PendingInv, [Next]_vars
  PROVE  \/ UNCHANGED <<agent, working>>
         \/ \E t \in Executions : Stops(t)
         \/ \E e \in Executions : Call(e) \/ CallLost(e)
  <1>1. ASSUME NEW e \in Executions, Finish(e) \/ Expire(e) \/ Arrive(e) \/ Recover(e)
                                     \/ Acknowledge(e) \/ LoseSign(e) \/ Releasing(e)
        PROVE  UNCHANGED <<agent, working>>
    BY <1>1 DEF Finish, Expire, Arrive, Recover, Acknowledge, LoseSign, Releasing, ReleaseRead,
                ReleaseList, Revoke, outside
  <1>2. ASSUME NEW e \in Executions, ControlRead(e) \/ ControlLock(e)
                                     \/ ControlRecord(e) \/ ControlFinally(e)
        PROVE  UNCHANGED <<agent, working>>
    BY <1>2 DEF ControlRead, ControlLock, ControlRecord, ControlFinally, outside
  <1>3. ASSUME NEW e \in Executions, ControlApply(e) \/ ControlLost(e)
        PROVE  UNCHANGED <<agent, working>> \/ \E t \in Executions : Stops(t)
    <2>1. control[e].pc = "apply" /\ control[e].s \in Executions
      BY <1>3 DEF ControlApply, ControlLost, PendingInv, TypeInv, TaskType, ControlType
    <2>2. \/ UNCHANGED <<agent, working>>
          \/ Applied(control[e].s, action[e]) /\ UNCHANGED <<status, belongs, key, session, dispatch>>
      BY <1>3 DEF ControlApply, ControlLost, outside, rows
    <2>3. QED
      BY <2>1, <2>2 DEF Stops
  <1>4. ASSUME NEW e \in Executions, Dispatching(e) \/ Reject(e) \/ WaitCancelled(e)
        PROVE  UNCHANGED <<agent, working>> \/ Call(e) \/ CallLost(e)
    BY <1>4 DEF Dispatching, Reject, WaitCancelled, Look, Mint, Lock, Save, Attach, Bind, Check, outside
  <1>5. CASE Disconnect \/ Reconnect \/ Crash \/ UNCHANGED vars
    BY <1>5 DEF Disconnect, Reconnect, Crash, vars, outside
  <1>6. ASSUME NEW t \in Executions, NEW a \in {"interrupt", "archive"}, LateControl(t, a)
        PROVE  Stops(t)
    BY <1>6 DEF LateControl, Stops, rows, tasks
  <1>7. QED
    BY <1>1, <1>2, <1>3, <1>4, <1>5, <1>6 DEF Next, Controlling

\* Nobody is about to use, or uses, the agent that is stopped.
LEMMA StopMeetsNobody ==
  ASSUME TypeInv, KeyInv, SessionInv, NEW t \in Executions, Stops(t)
  PROVE  /\ \A x \in Executions :
              dispatch[x].pc \in UnderLock \ {"save"} => dispatch[x].s # t
         /\ ~InUse(t)
  <1>1. ASSUME NEW c \in Executions, control[c].pc = "apply", control[c].s = t
        PROVE  /\ \A x \in Executions :
                    dispatch[x].pc \in UnderLock \ {"save"} => dispatch[x].s # t
               /\ ~InUse(t)
    BY <1>1 DEF SessionInv, ControlInv, Serves, KeyInv, HeldSession
  <1>2. ASSUME NEW a, <<t, a>> \in late
        PROVE  /\ \A x \in Executions :
                    dispatch[x].pc \in UnderLock \ {"save"} => dispatch[x].s # t
               /\ ~InUse(t)
    <2>1. a \in {"interrupt", "archive"}
      BY <1>2 DEF TypeInv, WorldType
    <2>2. QED
      BY <1>2, <2>1 DEF SessionInv, LateInv, Finished
  <1>3. QED
    BY <1>1, <1>2 DEF Stops

\* A call never takes an agent away.
LEMMA CallEffect ==
  ASSUME TypeInv, KeyInv, AgentInv, NEW e \in Executions, Call(e) \/ CallLost(e)
  PROVE  /\ dispatch[e].pc \in Calling
         /\ \A s \in Executions :
              /\ agent[s] = "up" => agent'[s] = "up"
              /\ agent[s] # "absent" => agent'[s] # "absent"
              /\ \A x \in Executions : x \in working[s] => x \in working'[s]
              /\ \A x \in Executions : x \in working'[s] =>
                   x \in working[s] \/ (x = e /\ s = dispatch[e].s /\ dispatch[e].pc = "send")
         /\ Call(e) => /\ dispatch[e].pc = "create" => agent'[dispatch[e].s] # "absent"
                       /\ dispatch[e].pc = "get" => agent'[dispatch[e].s] = "up"
  <1>1. dispatch[e].pc \in Calling /\ dispatch[e].s \in Executions
    BY DEF Call, CallLost, Calling, UnderLock, KeyInv, HeldSession
  <1>2. CASE Effect(e)
    <2>1. \A s \in Executions :
            agent'[s] = IF s = dispatch[e].s
                           /\ <<dispatch[e].pc, agent[s]>> \in {<<"create", "absent">>, <<"get", "archived">>}
                        THEN "up" ELSE agent[s]
      BY <1>1, <1>2 DEF Effect, TypeInv, WorldType
    <2>2. \A s \in Executions :
            working'[s] = IF s = dispatch[e].s /\ dispatch[e].pc = "send"
                          THEN working[s] \cup {e} ELSE working[s]
      BY <1>1, <1>2 DEF Effect, TypeInv, WorldType
    <2>3. \A s \in Executions : agent[s] \in {"absent", "up", "archived"}
      BY DEF TypeInv, WorldType
    <2>4. dispatch[e].pc = "get" => agent[dispatch[e].s] # "absent"
      BY <1>1 DEF AgentInv
    <2>5. \A s \in Executions : /\ agent[s] = "up" => agent'[s] = "up"
                                /\ agent[s] # "absent" => agent'[s] # "absent"
      BY <2>1
    <2>6. /\ dispatch[e].pc = "create" => agent'[dispatch[e].s] # "absent"
          /\ dispatch[e].pc = "get" => agent'[dispatch[e].s] = "up"
      BY <1>1, <2>1, <2>3, <2>4
    <2>7. \A s \in Executions :
            /\ \A x \in Executions : x \in working[s] => x \in working'[s]
            /\ \A x \in Executions : x \in working'[s] =>
                   x \in working[s] \/ (x = e /\ s = dispatch[e].s /\ dispatch[e].pc = "send")
      BY <2>2
    <2>8. QED
      BY <1>1, <2>5, <2>6, <2>7
  <1>3. CASE UNCHANGED <<agent, working>> /\ ~Call(e)
    BY <1>1, <1>3
  <1>4. QED
    BY <1>2, <1>3 DEF Call, CallLost

\* Where a dispatch comes to the daemon, and how it goes on there.
LEMMA CallMoves ==
  ASSUME TypeInv, KeyInv, SavedOnce, [Next]_vars, NEW x \in Executions,
         dispatch'[x].pc \in {"bind", "get", "check", "send"}
  PROVE  \/ dispatch'[x].pc = dispatch[x].pc /\ dispatch'[x].s = dispatch[x].s
         \/ Attach(x) /\ dispatch'[x].pc = "get"
         \/ Call(x) /\ dispatch[x].pc = "create" /\ dispatch'[x].pc = "bind" /\ dispatch'[x].s = dispatch[x].s
         \/ Call(x) /\ dispatch[x].pc = "get" /\ dispatch'[x].pc = "check" /\ dispatch'[x].s = dispatch[x].s
         \/ Bind(x) /\ dispatch'[x].pc = "get" /\ dispatch'[x].s = dispatch[x].s
         \/ Check(x) /\ dispatch[x].pc = "check" /\ dispatch'[x].pc = "send" /\ dispatch'[x].s = dispatch[x].s
                     /\ UNCHANGED <<agent, working>>
  <1> DEFINE Same == dispatch'[x].pc = dispatch[x].pc /\ dispatch'[x].s = dispatch[x].s
  <1>1. CASE LetsGo
    BY <1>1 DEF LetsGo
  <1>2. CASE dispatch'[x] = dispatch[x]
    BY <1>2
  <1>3. ASSUME NEW e \in Executions, NEW d, dispatch' = [dispatch EXCEPT ![e] = d],
               d.pc \notin {"bind", "get", "check", "send"}
        PROVE  Same
    BY <1>3 DEF TypeInv, TaskType
  <1>4. ASSUME NEW e \in Executions, Failed(e) \/ Abandoned(e) PROVE Same
    <2>1. NoDispatch.pc \notin {"bind", "get", "check", "send"}
      BY DEF NoDispatch
    <2>2. QED
      BY <1>3, <1>4, <2>1, AbandonedLetsGo
  <1>5. ASSUME NEW e \in Executions, Arrive(e) \/ Recover(e) PROVE Same
    <2>1. [NoDispatch EXCEPT !.pc = "look", !.conn = "open"].pc \notin {"bind", "get", "check", "send"}
      BY DEF NoDispatch
    <2>2. QED
      BY <1>2, <1>3, <1>5, <2>1 DEF Arrive, Recover
  <1>6. ASSUME NEW e \in Executions, Look(e) \/ Mint(e) PROVE Same
    BY <1>4, <1>6 DEF Look, Mint, Goto, TypeInv, TaskType, DispatchType
  <1>7. ASSUME NEW e \in Executions, Lock(e) PROVE Same
    BY <1>7, LockShape DEF LockUses, LockStartsOver, LockReplaces
  <1>8. ASSUME NEW e \in Executions, Save(e) PROVE Same
    BY <1>8, SaveShape
  <1>9. ASSUME NEW e \in Executions, Attach(e) PROVE Same \/ (Attach(x) /\ dispatch'[x].pc = "get")
    BY <1>9, AttachShape
  <1>10. ASSUME NEW e \in Executions, CallLost(e) PROVE Same
    BY <1>4, <1>10 DEF CallLost
  <1>11. ASSUME NEW e \in Executions, Call(e)
         PROVE  \/ Same
                \/ /\ Call(x) /\ dispatch'[x].s = dispatch[x].s
                   /\ <<dispatch[x].pc, dispatch'[x].pc>> \in {<<"create", "bind">>, <<"get", "check">>}
    BY <1>11 DEF Call, Calling, NoDispatch, TypeInv, TaskType, DispatchType
  <1>12. ASSUME NEW e \in Executions, Bind(e)
         PROVE  Same \/ (Bind(x) /\ dispatch'[x].pc = "get" /\ dispatch'[x].s = dispatch[x].s)
    <2>1. CASE e = x
      BY <1>12, <2>1 DEF Bind, Goto, TypeInv, TaskType, DispatchType
    <2>2. CASE e # x
      BY <1>12, <2>2 DEF Bind, Goto, TypeInv, TaskType
    <2>3. QED
      BY <2>1, <2>2
  <1>13. ASSUME NEW e \in Executions, Check(e)
         PROVE  \/ Same
                \/ /\ Check(x) /\ dispatch[x].pc = "check" /\ dispatch'[x].pc = "send"
                   /\ dispatch'[x].s = dispatch[x].s /\ UNCHANGED <<agent, working>>
    <2>1. CASE Live(e)
      BY <1>13, <2>1 DEF Check, Goto, TypeInv, TaskType, DispatchType, outside
    <2>2. CASE ~Live(e)
      BY <1>4, <1>13, <2>2 DEF Check
    <2>3. QED
      BY <2>1, <2>2
  <1>14. QED
    BY <1>1, <1>5, <1>6, <1>7, <1>8, <1>9, <1>10, <1>11, <1>12, <1>13, Releases

\* Prompts are sent only to the agent of the session, and only an agent that is
\* there keeps one of a live execution.
LEMMA WorkMoves ==
  ASSUME TypeInv, PendingInv, KeyInv, SessionInv, [Next]_vars, NEW s \in Executions
  PROVE  /\ agent[s] # "absent" => agent'[s] # "absent"
         /\ \A x \in Executions :
              /\ dispatch[x].pc \in {"check", "send"} /\ dispatch[x].s = s => agent'[s] = "up"
              /\ x \in working[s] /\ Live(x) => x \in working'[s] /\ agent'[s] = "up"
              /\ x \in working'[s] /\ Live(x) => agent'[s] = "up"
  <1>1. AgentInv
    BY DEF SessionInv
  <1>2. CASE UNCHANGED <<agent, working>>
    BY <1>1, <1>2 DEF AgentInv
  <1>3. ASSUME NEW t \in Executions, Stops(t) PROVE
         /\ agent[s] # "absent" => agent'[s] # "absent"
         /\ \A x \in Executions :
              /\ dispatch[x].pc \in {"check", "send"} /\ dispatch[x].s = s => agent'[s] = "up"
              /\ x \in working[s] /\ Live(x) => x \in working'[s] /\ agent'[s] = "up"
              /\ x \in working'[s] /\ Live(x) => agent'[s] = "up"
    <2>1. /\ \A y \in Executions : y # t => agent'[y] = agent[y] /\ working'[y] = working[y]
          /\ working'[t] = {} /\ (agent'[t] = "archived" \/ agent'[t] = agent[t])
      BY <1>3 DEF Stops, Applied, TypeInv, WorldType
    <2>2. \A x \in Executions : dispatch[x].pc \in {"check", "send"} => dispatch[x].s # t
      BY <1>3, StopMeetsNobody DEF UnderLock
    <2>3. \A x \in Executions : x \in working[t] => ~Live(x)
      BY <1>3, StopMeetsNobody DEF InUse, Members, KeyInv, KeyKept
    <2>4. QED
      BY <1>1, <2>1, <2>2, <2>3 DEF AgentInv
  <1>4. ASSUME NEW e \in Executions, Call(e) \/ CallLost(e) PROVE
         /\ agent[s] # "absent" => agent'[s] # "absent"
         /\ \A x \in Executions :
              /\ dispatch[x].pc \in {"check", "send"} /\ dispatch[x].s = s => agent'[s] = "up"
              /\ x \in working[s] /\ Live(x) => x \in working'[s] /\ agent'[s] = "up"
              /\ x \in working'[s] /\ Live(x) => agent'[s] = "up"
    BY <1>1, <1>4, CallEffect DEF AgentInv
  <1>5. QED
    BY <1>2, <1>3, <1>4, AgentMoves

\* What a step may do to the state of a session.
LEMMA SessionMoves ==
  ASSUME TypeInv, KeyInv, SavedOnce, [Next]_vars, NEW s \in Executions
  PROVE  /\ session'[s] = "bound" =>
              \/ session[s] = "bound"
              \/ /\ UNCHANGED agent
                 /\ \E e \in Executions : dispatch[e].pc = "bind" /\ dispatch[e].s = s
         /\ session[s] = "bound" => session'[s] = "bound"
  <1>1. CASE UNCHANGED session
    BY <1>1
  <1>2. ASSUME NEW e \in Executions, Arrive(e) \/ Look(e) \/ Mint(e) \/ Lock(e) \/ Attach(e)
                                     \/ Call(e) \/ CallLost(e) \/ Check(e) \/ Recover(e)
        PROVE  UNCHANGED session
    BY <1>2 DEF Arrive, Look, Mint, Lock, Attach, Call, CallLost, Check, Recover, rows
  <1>3. ASSUME NEW e \in Executions, Save(e)
        PROVE  (session'[s] = "bound") = (session[s] = "bound")
    <2>1. session' = [session EXCEPT ![e] = "saved"] /\ session[e] = "absent"
      BY <1>3, SaveShape DEF SavedOnce
    <2>2. QED
      BY <2>1 DEF TypeInv, RowType
  <1>4. ASSUME NEW e \in Executions, Bind(e)
        PROVE  /\ session[s] = "bound" => session'[s] = "bound"
               /\ session'[s] = "bound" => session[s] = "bound" \/ dispatch[e].s = s
               /\ UNCHANGED agent /\ dispatch[e].pc = "bind"
    BY <1>4 DEF Bind, TypeInv, RowType, outside
  <1>5. QED
    BY <1>1, <1>2, <1>3, <1>4, Releases DEF LetsGo

\* Every step keeps AgentInv: a stop meets an agent that no live execution needs.
LEMMA StepAgent ==
  ASSUME SessionsKept, TypeInv, PendingInv, KeyInv, SessionInv, [Next]_vars
  PROVE  AgentInv'
  <1> SUFFICES ASSUME NEW e \in Executions
               PROVE  /\ session'[e] = "bound" => agent'[e] # "absent"
                      /\ dispatch'[e].pc = "bind" => agent'[dispatch'[e].s] # "absent"
                      /\ dispatch'[e].pc = "get" => session'[dispatch'[e].s] = "bound"
                      /\ dispatch'[e].pc \in {"check", "send"} => agent'[dispatch'[e].s] = "up"
                      /\ \A s \in Executions : e \in working'[s] /\ Live(e)' => agent'[s] = "up"
    BY DEF AgentInv, Live
  <1>1. AgentInv /\ SavedOnce
    BY DEF SessionInv
  <1>2. session'[e] = "bound" => agent'[e] # "absent"
    <2>1. session[e] = "bound" => agent'[e] # "absent"
      BY <1>1, WorkMoves DEF AgentInv
    <2>2. UNCHANGED agent /\ (\E x \in Executions : dispatch[x].pc = "bind" /\ dispatch[x].s = e)
            => agent'[e] # "absent"
      BY <1>1 DEF AgentInv
    <2>3. QED
      BY <1>1, <2>1, <2>2, SessionMoves
  <1>3. dispatch[e].pc \in UnderLock => dispatch[e].s \in Executions
    BY DEF KeyInv, HeldSession
  <1>4. ASSUME dispatch'[e].pc = "bind" PROVE agent'[dispatch'[e].s] # "absent"
    <2>1. \/ dispatch[e].pc = "bind" /\ dispatch'[e].s = dispatch[e].s
          \/ Call(e) /\ dispatch[e].pc = "create" /\ dispatch'[e].s = dispatch[e].s
      BY <1>1, <1>4, CallMoves
    <2>2. agent'[dispatch[e].s] # "absent"
      BY <1>1, <1>3, <2>1, WorkMoves, CallEffect DEF AgentInv, UnderLock
    <2>3. QED
      BY <2>1, <2>2
  <1>5. ASSUME dispatch'[e].pc = "get" PROVE session'[dispatch'[e].s] = "bound"
    <2>1. CASE dispatch[e].pc = "get" /\ dispatch'[e].s = dispatch[e].s
      BY <1>1, <1>3, <2>1, SessionMoves DEF AgentInv, UnderLock
    <2>2. CASE Attach(e)
      BY <1>5, <2>2, AttachShape
    <2>3. CASE Bind(e) /\ dispatch'[e].s = dispatch[e].s
      BY <1>3, <2>3 DEF Bind, UnderLock, TypeInv, RowType
    <2>4. QED
      BY <1>1, <1>5, <2>1, <2>2, <2>3, CallMoves
  <1>6. ASSUME dispatch'[e].pc \in {"check", "send"} PROVE agent'[dispatch'[e].s] = "up"
    <2>1. \/ dispatch[e].pc \in {"check", "send"} /\ dispatch'[e].s = dispatch[e].s
          \/ Call(e) /\ dispatch[e].pc = "get" /\ dispatch'[e].s = dispatch[e].s
      BY <1>1, <1>6, CallMoves
    <2>2. agent'[dispatch[e].s] = "up"
      BY <1>1, <1>3, <2>1, WorkMoves, CallEffect DEF UnderLock
    <2>3. QED
      BY <2>1, <2>2
  <1>7. ASSUME NEW s \in Executions, e \in working'[s], Live(e)' PROVE agent'[s] = "up"
    <2>1. CASE Live(e)
      BY <1>7, <2>1, WorkMoves
    <2>2. CASE ~Live(e)
      <3>1. status[e] = "none"
        BY <1>1, <1>7, <2>2, Kept, LockShape, SaveShape, AttachShape DEF Keeps, Live, Ended
      <3>2. e \notin working[s] /\ dispatch[e].pc = "off"
        BY <3>1 DEF KeyInv, NewInv
      <3>3. PICK x \in Executions : Call(x) \/ CallLost(x)
        BY <1>7, <3>2, AgentMoves DEF Stops, Applied, TypeInv, WorldType
      <3>4. QED
        BY <1>1, <1>7, <3>2, <3>3, CallEffect DEF Calling
    <2>3. QED
      BY <2>1, <2>2
  <1>8. QED
    BY <1>2, <1>4, <1>5, <1>6, <1>7

\* SessionInv is inductive.
LEMMA StepSession ==
  SessionsKept /\ TypeInv /\ PendingInv /\ KeyInv /\ SessionInv /\ [Next]_vars => SessionInv'
  BY StepSaved, StepControl, StepLate, StepAgent DEF SessionInv

\* A session belongs to the execution that made it, the lock chosen for a stop still
\* is right when it is applied (control, src/src/agent-sessions/index.ts), and a
\* stop given up only meets a session that has finished.
THEOREM SessionsHold ==
  ASSUME SessionsKept
  PROVE  Spec => [](TypeInv /\ PendingInv /\ KeyInv /\ SessionInv)
  <1>1. Init => SessionInv
    BY InitSession
  <1>2. TypeInv /\ PendingInv /\ KeyInv /\ SessionInv /\ [Next]_vars => SessionInv'
    BY StepSession
  <1>3. QED
    BY <1>1, <1>2, TypesHold, KeyHolds, PTL DEF Spec

\* The end of one execution never stops the agent another one works with, as long
\* as sessions are kept (control, src/src/agent-sessions/index.ts).
THEOREM NoWorkIsStopped ==
  ASSUME SessionsKept
  PROVE  Spec => LiveWorkGoesOn
  <1> DEFINE Goes == late \subseteq late' =>
                       \A s \in Executions : \A e \in working[s] :
                         Live(e) => e \in working'[s] /\ agent'[s] = "up"
  <1>1. TypeInv /\ PendingInv /\ KeyInv /\ SessionInv /\ [Next]_vars => [Goes]_vars
    <2> SUFFICES ASSUME TypeInv, PendingInv, KeyInv, SessionInv, [Next]_vars,
                        NEW s \in Executions, NEW e \in working[s], Live(e)
                 PROVE  e \in working'[s] /\ agent'[s] = "up"
      OBVIOUS
    <2>1. e \in Executions
      BY DEF TypeInv, WorldType
    <2>2. QED
      BY <2>1, WorkMoves
  <1>2. QED
    BY <1>1, SessionsHold, PTL DEF Spec, LiveWorkGoesOn

\* A release of credentials moves by its own steps only, or starts.
LEMMA ReleaseMoves ==
  ASSUME TypeInv, [Next]_vars, NEW x \in Executions, releasing'[x].pc # "off"
  PROVE  \/ releasing'[x] = releasing[x]
         \/ ReleaseRead(x) \/ ReleaseList(x)
         \/ /\ Live(x) /\ status'[x] \in Ended
            /\ releasing'[x].pc = "read" /\ releasing'[x].s = belongs[x]
  <1> DEFINE Moved == \/ releasing'[x] = releasing[x]
                      \/ /\ Live(x) /\ status'[x] \in Ended
                         /\ releasing'[x].pc = "read" /\ releasing'[x].s = belongs[x]
  <1> SUFFICES ASSUME ~ReleaseRead(x), ~ReleaseList(x) PROVE Moved
    OBVIOUS
  <1>1. CASE UNCHANGED releasing
    BY <1>1
  <1>2. ASSUME NEW e \in Executions, NEW o \in Ended, NEW b, Live(e), End(e, o, b) PROVE Moved
    BY <1>2 DEF End, NoRelease, TypeInv, TaskType, RowType
  <1>3. ASSUME NEW e \in Executions, Failed(e) \/ Abandoned(e) PROVE Moved
    BY <1>1, <1>2, <1>3 DEF Failed, Abandoned, Ended
  <1>4. ASSUME NEW e \in Executions, releasing' = [releasing EXCEPT ![e] = NoRelease] PROVE Moved
    BY <1>4 DEF NoRelease, TypeInv, TaskType
  <1>5. ASSUME NEW e \in Executions, Finish(e) \/ Expire(e) \/ Arrive(e) \/ Recover(e)
                                     \/ Acknowledge(e) \/ LoseSign(e)
        PROVE  Moved
    BY <1>1, <1>2, <1>5 DEF Finish, Expire, Arrive, Recover, Acknowledge, LoseSign, tasks, Ended
  <1>6. ASSUME NEW e \in Executions, ReleaseRead(e) \/ ReleaseList(e) PROVE Moved
    BY <1>6 DEF ReleaseRead, ReleaseList, TypeInv, TaskType
  <1>7. ASSUME NEW e \in Executions, Revoke(e) PROVE Moved
    BY <1>4, <1>7 DEF Revoke
  <1>8. ASSUME NEW e \in Executions, Controlling(e) PROVE Moved
    BY <1>1, <1>8 DEF Controlling, ControlRead, ControlLock, ControlApply, ControlLost,
                      ControlRecord, ControlFinally
  <1>9. ASSUME NEW e \in Executions, Dispatching(e) \/ Reject(e) PROVE Moved
    BY <1>1, <1>3, <1>9
       DEF Dispatching, Reject, Look, Mint, Lock, Save, Attach, Call, CallLost, Bind, Check
  <1>10. ASSUME NEW e \in Executions, WaitCancelled(e) PROVE Moved
    BY <1>1, <1>3, <1>4, <1>10 DEF WaitCancelled
  <1>11. CASE Disconnect \/ Reconnect \/ UNCHANGED vars
    BY <1>1, <1>11 DEF Disconnect, Reconnect, vars, tasks
  <1>12. CASE Crash
    BY <1>12 DEF Crash, NoRelease
  <1>13. ASSUME NEW s, NEW a, LateControl(s, a) PROVE Moved
    BY <1>1, <1>13 DEF LateControl, tasks
  <1>14. QED
    BY <1>5, <1>6, <1>7, <1>8, <1>9, <1>10, <1>11, <1>12, <1>13 DEF Next, Releasing

\* An execution that ends before it has a session leaves one that has finished, if
\* its dispatch still saves it.
LEMMA EndFinishes ==
  ASSUME SessionsKept, Leased, TypeInv, KeyInv, SavedOnce, [Next]_vars,
         NEW e \in Executions, Live(e), status'[e] \in Ended, belongs[e] = None
  PROVE  Finished(e)'
  <1>1. Keeps
    BY Kept, LockShape, SaveShape, AttachShape DEF Live, Ended
  <1>2. ASSUME NEW x \in Executions PROVE belongs[x] # e
    BY <1>2, SessionsAssumption DEF SavedOnce
  <1>3. ASSUME NEW x \in Executions, dispatch[x].pc \in UnderLock, dispatch[x].s = e PROVE x = e
    <2>1. CASE dispatch[x].pc = "save"
      BY <1>3, <2>1 DEF KeyInv, HeldSession
    <2>2. CASE dispatch[x].pc # "save"
      <3>1. session[e] # "absent"
        BY <1>3, <2>2, SessionsAssumption DEF KeyInv, HeldSession, SavedOnce
      <3>2. dispatch[e].pc \in UnderLock
        BY <3>1, SessionsAssumption DEF SavedOnce, UnderLock
      <3>3. QED
        BY <1>3, <3>2 DEF KeyInv, OneHolder
    <2>3. QED
      BY <2>1, <2>2
  <1>4. ~InUse(e)'
    BY <1>1, <1>2 DEF Keeps, InUse, Members
  <1>5. QED
    BY <1>1, <1>3, <1>4 DEF Keeps, Finished

\* The credentials listed are of sessions that have finished.
LEMMA OwnersHaveFinished ==
  ASSUME TypeInv, KeyInv, SavedOnce, Leased, NEW s, NEW lock, Serves(s, lock), Free(lock), ~InUse(s),
         NEW o \in Members(s)
  PROVE  Finished(o)
  <1>1. /\ o \in Executions /\ belongs[o] = s /\ s \in Executions /\ ~Live(o)
        /\ session[s] # "absent"
        /\ (\A x \in Executions : dispatch[x].pc \notin UnderLock) \/ key # s
    BY DEF Serves, Free, Members, InUse
  <1>2. status[o] \in Ended
    BY <1>1, SessionsAssumption DEF Live, KeyInv, NewInv, TypeInv, RowType, Ended
  <1>3. CASE o = s
    <2>1. ASSUME NEW x \in Executions, dispatch[x].pc \in UnderLock, dispatch[x].s = s PROVE x = s
      BY <1>1, <2>1 DEF KeyInv, HeldSession
    <2>2. QED
      BY <1>1, <1>2, <1>3, <2>1 DEF Finished
  <1>4. CASE o # s
    <2>1. session[o] = "absent"
      BY <1>1, <1>4, SessionsAssumption DEF SavedOnce
    <2>2. ~InUse(o)
      BY <1>1, <2>1, SessionsAssumption DEF InUse, Members, SavedOnce
    <2>3. ASSUME NEW x \in Executions, dispatch[x].pc \in UnderLock, dispatch[x].s = o PROVE x = o
      BY <1>1, <2>1, <2>3, SessionsAssumption DEF KeyInv, HeldSession, SavedOnce
    <2>4. QED
      BY <1>2, <2>2, <2>3 DEF Finished
  <1>5. QED
    BY <1>3, <1>4

\* Every step keeps ReleaseInv: only credentials of finished sessions are given back.
LEMMA StepRelease ==
  ASSUME SessionsKept, Leased, TypeInv, PendingInv, KeyInv, SavedOnce, ReleaseInv, [Next]_vars
  PROVE  ReleaseInv'
  <1> SUFFICES ASSUME NEW r \in Executions, releasing'[r].pc # "off"
               PROVE  /\ releasing'[r].pc = "read" =>
                           IF releasing'[r].s = None THEN Finished(r)'
                           ELSE session'[releasing'[r].s] # "absent"
                      /\ releasing'[r].pc = "list" => Serves(releasing[r].s, releasing[r].lock)'
                      /\ releasing'[r].pc = "revoke" => \A o \in releasing'[r].owners : Finished(o)'
    BY DEF ReleaseInv
  <1>1. /\ releasing[r].s \in Executions \cup {None} /\ releasing'[r].s \in Executions \cup {None}
        /\ releasing[r].owners \subseteq Executions
    BY StepTypes DEF TypeInv, TaskType, ReleaseType
  <1>2. ASSUME NEW s \in Executions, session[s] # "absent" PROVE session'[s] # "absent"
    <2>1. Serves(s, KeyLock)
      BY <1>2 DEF Serves
    <2>2. QED
      BY <2>1, ServesStays DEF Serves
  <1>3. CASE releasing'[r] = releasing[r]
    <2>1. ASSUME releasing[r].pc = "read" PROVE
            IF releasing[r].s = None THEN Finished(r)' ELSE session'[releasing[r].s] # "absent"
      BY <1>1, <1>2, <2>1, FinishedStays DEF ReleaseInv
    <2>2. ASSUME releasing[r].pc = "list", NEW s, NEW lock, s = releasing[r].s, lock = releasing[r].lock
          PROVE  Serves(s, lock)'
      <3>1. Serves(s, lock)
        BY <2>2 DEF ReleaseInv
      <3>2. QED
        BY <3>1, ServesStays
    <2>3. ASSUME releasing[r].pc = "revoke", NEW o \in releasing[r].owners PROVE Finished(o)'
      BY <1>1, <2>3, FinishedStays DEF ReleaseInv
    <2>4. QED
      BY <1>3, <2>1, <2>2, <2>3 DEF Serves
  <1>4. CASE ReleaseRead(r)
    <2>1. /\ releasing[r].pc = "read" /\ UNCHANGED <<status, belongs, key, session, dispatch>>
          /\ IF releasing[r].s = None
             THEN releasing'[r].pc = "revoke" /\ releasing'[r].owners = {r}
             ELSE /\ releasing'[r].pc = "list" /\ releasing'[r].s = releasing[r].s
                  /\ releasing'[r].lock = LockOf(releasing[r].s)
      BY <1>4 DEF ReleaseRead, rows, TypeInv, TaskType, ReleaseType
    <2>2. CASE releasing[r].s = None
      BY <2>1, <2>2, FinishedStays DEF ReleaseInv
    <2>3. CASE releasing[r].s # None
      BY <1>1, <2>1, <2>3 DEF ReleaseInv, Serves, LockOf
    <2>4. QED
      BY <2>2, <2>3
  <1>5. CASE ReleaseList(r)
    <2>1. /\ releasing[r].pc = "list" /\ Free(releasing[r].lock)
          /\ releasing'[r].pc = "revoke" /\ releasing'[r].owners = Owners(r, releasing[r].s)
      BY <1>5 DEF ReleaseList, TypeInv, TaskType, ReleaseType
    <2>2. ASSUME NEW o \in releasing'[r].owners PROVE Finished(o)'
      <3>1. o \in Executions /\ Finished(o)
        BY <2>1, <2>2, OwnersHaveFinished DEF Owners, ReleaseInv, Members
      <3>2. QED
        BY <3>1, FinishedStays
    <2>3. QED
      BY <2>1, <2>2
  <1>6. CASE /\ Live(r) /\ status'[r] \in Ended
             /\ releasing'[r].pc = "read" /\ releasing'[r].s = belongs[r]
    BY <1>1, <1>2, <1>6, EndFinishes DEF SavedOnce
  <1>7. QED
    BY <1>3, <1>4, <1>5, <1>6, ReleaseMoves

\* Credentials that held are taken back by a release, or by a mint that finds its
\* execution ended.
LEMMA CredsMoves ==
  ASSUME SessionsKept, Leased, TypeInv, [Next]_vars, NEW s \in Executions,
         creds[s] = "held", creds'[s] # "held"
  PROVE  \/ \E r \in Executions : releasing[r].pc = "revoke" /\ s \in releasing[r].owners
         \/ dispatch[s].pc = "mint" /\ ~Live(s)
  <1> DEFINE Taken == \/ \E r \in Executions : releasing[r].pc = "revoke" /\ s \in releasing[r].owners
                      \/ dispatch[s].pc = "mint" /\ ~Live(s)
  <1>1. ASSUME NEW e \in Executions, Finish(e) \/ Expire(e) \/ Arrive(e) \/ Recover(e)
                                     \/ Acknowledge(e) \/ LoseSign(e)
        PROVE  UNCHANGED creds
    BY <1>1 DEF Finish, Expire, Arrive, Recover, Acknowledge, LoseSign
  <1>2. ASSUME NEW e \in Executions, ReleaseRead(e) \/ ReleaseList(e) \/ Controlling(e)
        PROVE  UNCHANGED creds
    BY <1>2 DEF ReleaseRead, ReleaseList, Controlling, ControlRead, ControlLock, ControlApply,
                ControlLost, ControlRecord, ControlFinally
  <1>3. ASSUME NEW e \in Executions, Revoke(e) PROVE Taken
    BY <1>3 DEF Revoke
  <1>4. ASSUME NEW e \in Executions, Mint(e) PROVE Taken
    BY <1>4 DEF Mint, TypeInv, WorldType
  <1>5. ASSUME NEW e \in Executions, Look(e) \/ Lock(e) \/ Save(e) \/ Attach(e) \/ Call(e)
                                     \/ CallLost(e) \/ Bind(e) \/ Check(e)
        PROVE  UNCHANGED creds
    BY <1>5 DEF Look, Lock, Save, Attach, Call, CallLost, Bind, Check
  <1>6. ASSUME NEW e \in Executions, Reject(e) \/ WaitCancelled(e) PROVE UNCHANGED creds
    BY <1>6 DEF Reject, WaitCancelled
  <1>7. CASE Disconnect \/ Reconnect \/ UNCHANGED vars
    BY <1>7 DEF Disconnect, Reconnect, vars
  <1>8. ~Crash
    BY DEF Crash, Fault, SessionsKept
  <1>9. ASSUME NEW t, NEW a, LateControl(t, a) PROVE UNCHANGED creds
    BY <1>9 DEF LateControl
  <1>10. QED
    BY <1>1, <1>2, <1>3, <1>4, <1>5, <1>6, <1>7, <1>8, <1>9 DEF Next, Releasing, Dispatching

\* A dispatch comes to the lock with credentials by minting them.
LEMMA OptionMoves ==
  ASSUME Leased, TypeInv, KeyInv, [Next]_vars, NEW x \in Executions,
         dispatch'[x].pc = "lock", dispatch'[x].options
  PROVE  \/ dispatch[x].pc = "lock" /\ dispatch[x].options
         \/ creds'[x] = "held"
  <1> DEFINE Same == dispatch[x].pc = "lock" /\ dispatch[x].options
  <1>1. CASE LetsGo
    BY <1>1 DEF LetsGo
  <1>2. ASSUME NEW e \in Executions, NEW d, dispatch' = [dispatch EXCEPT ![e] = d], d.pc # "lock"
        PROVE  Same
    BY <1>2 DEF TypeInv, TaskType
  <1>3. ASSUME NEW e \in Executions, Failed(e) \/ Abandoned(e) PROVE Same
    <2>1. NoDispatch.pc # "lock"
      BY DEF NoDispatch
    <2>2. QED
      BY <1>2, <1>3, <2>1, AbandonedLetsGo
  <1>4. ASSUME NEW e \in Executions, Arrive(e) \/ Recover(e) PROVE Same
    <2>1. [NoDispatch EXCEPT !.pc = "look", !.conn = "open"].pc # "lock"
      BY DEF NoDispatch
    <2>2. QED
      BY <1>2, <1>4, <2>1 DEF Arrive, Recover
  <1>5. ASSUME NEW e \in Executions, Look(e) PROVE Same
    <2>1. CASE ~Live(e)
      BY <1>3, <1>5, <2>1 DEF Look
    <2>2. CASE Live(e)
      BY <1>5, <2>2 DEF Look, Goto, KeyInv, HeldSession, TypeInv, TaskType, DispatchType
    <2>3. QED
      BY <2>1, <2>2
  <1>6. ASSUME NEW e \in Executions, Mint(e) PROVE Same \/ creds'[x] = "held"
    <2>1. CASE Failed(e)
      BY <1>3, <2>1
    <2>2. CASE ~Failed(e)
      BY <1>6, <2>2 DEF Mint, TypeInv, TaskType, WorldType
    <2>3. QED
      BY <2>1, <2>2
  <1>7. ASSUME NEW e \in Executions, Lock(e) PROVE Same
    BY <1>7, LockShape DEF LockUses, LockStartsOver, LockReplaces
  <1>8. ASSUME NEW e \in Executions, Save(e) \/ Attach(e) PROVE Same
    BY <1>8, SaveShape, AttachShape
  <1>9. ASSUME NEW e \in Executions, Call(e) PROVE Same
    BY <1>9 DEF Call, Calling, NoDispatch, TypeInv, TaskType, DispatchType
  <1>10. ASSUME NEW e \in Executions, CallLost(e) PROVE Same
    BY <1>3, <1>10 DEF CallLost
  <1>11. ASSUME NEW e \in Executions, Bind(e) PROVE Same
    BY <1>11 DEF Bind, Goto, TypeInv, TaskType, DispatchType
  <1>12. ASSUME NEW e \in Executions, Check(e) PROVE Same
    <2>1. CASE ~Live(e)
      BY <1>3, <1>12, <2>1 DEF Check
    <2>2. CASE Live(e)
      BY <1>12, <2>2 DEF Check, Goto, TypeInv, TaskType, DispatchType
    <2>3. QED
      BY <2>1, <2>2
  <1>13. QED
    BY <1>1, <1>4, <1>5, <1>6, <1>7, <1>8, <1>9, <1>10, <1>11, <1>12, Releases

\* What a live execution's session, or the one it is about to have, was made with.
LEMMA NotTaken ==
  ASSUME SessionsKept, Leased, TypeInv, KeyInv, SavedOnce, ReleaseInv, [Next]_vars,
         NEW s \in Executions, creds[s] = "held",
         ~Finished(s), dispatch[s].pc = "mint" => Live(s)
  PROVE  creds'[s] = "held"
  BY CredsMoves DEF ReleaseInv

\* Every step keeps HeldInv: what a live execution needs is not revoked.
LEMMA StepHeld ==
  ASSUME SessionsKept, Leased, TypeInv, KeyInv, SavedOnce, ReleaseInv, HeldInv, [Next]_vars
  PROVE  HeldInv'
  <1> SUFFICES ASSUME NEW e \in Executions, Live(e)'
               PROVE  /\ belongs'[e] # None => creds'[belongs'[e]] = "held"
                      /\ dispatch'[e].pc = "lock" /\ dispatch'[e].options => creds'[e] = "held"
                      /\ dispatch'[e].pc = "save" => creds'[e] = "held"
                      /\ dispatch'[e].pc = "attach" => creds'[dispatch'[e].s] = "held"
    BY DEF HeldInv, Live
  <1>1. CASE ~Live(e)
    <2>1. status[e] = "none" /\ Keeps
      BY <1>1, Kept, LockShape, SaveShape, AttachShape DEF Keeps, Live, Ended
    <2>2. belongs[e] = None /\ dispatch[e].pc = "off"
      BY <2>1 DEF KeyInv, NewInv
    <2>3. QED
      BY <2>1, <2>2, OptionMoves DEF Keeps
  <1>2. CASE Live(e)
    <2>1. \A s \in Executions : session[s] # "absent" => dispatch[s].pc # "mint"
      BY SessionsAssumption DEF SavedOnce, KeyInv, HeldSession
    <2>2. ~Finished(e)
      BY <1>2 DEF Finished, Live, Ended
    <2>3. ASSUME belongs[e] # None PROVE creds[belongs[e]] = "held" /\ creds'[belongs[e]] = "held"
      <3>1. belongs[e] \in Executions /\ session[belongs[e]] # "absent" /\ InUse(belongs[e])
        BY <1>2, <2>3 DEF SavedOnce, InUse, Members, TypeInv, RowType
      <3>2. creds[belongs[e]] = "held"
        BY <1>2, <2>3 DEF HeldInv
      <3>3. QED
        BY <2>1, <3>1, <3>2, NotTaken DEF Finished
    <2>4. ASSUME dispatch[e].pc = "attach"
          PROVE  creds[dispatch[e].s] = "held" /\ creds'[dispatch[e].s] = "held"
      <3>1. dispatch[e].s \in Executions /\ session[dispatch[e].s] # "absent"
        BY <2>4, SessionsAssumption DEF KeyInv, HeldSession, UnderLock, SavedOnce
      <3>2. creds[dispatch[e].s] = "held"
        BY <1>2, <2>4 DEF HeldInv
      <3>3. ~Finished(dispatch[e].s)
        BY <2>2, <2>4 DEF Finished, UnderLock
      <3>4. QED
        BY <2>1, <3>1, <3>2, <3>3, NotTaken
    <2>5. ASSUME NEW x \in Executions, Lock(x), LockUses(x) PROVE creds[key] = "held"
      <3>1. key \in Executions /\ ~NeedsFresh(key) /\ session[key] # "absent"
        BY <2>5, SessionsAssumption DEF LockUses, SavedOnce
      <3>2. key \in Members(key)
        BY <2>5, <3>1, LockShape DEF SavedOnce, Members, UnderLock
      <3>3. PICK y \in Executions : belongs[y] = key /\ Live(y)
        BY <3>1, <3>2 DEF NeedsFresh, InUse, Members
      <3>4. QED
        BY <3>1, <3>3, SessionsAssumption DEF HeldInv
    <2>6. belongs'[e] # None => creds'[belongs'[e]] = "held"
      <3>1. CASE belongs'[e] = belongs[e]
        BY <2>3, <3>1
      <3>2. CASE Attach(e)
        BY <2>4, <3>2, AttachShape
      <3>3. QED
        BY <3>1, <3>2, Kept, LockShape, SaveShape, AttachShape DEF Keeps
    <2>7. dispatch'[e].pc = "lock" /\ dispatch'[e].options => creds'[e] = "held"
      <3>1. ASSUME dispatch[e].pc = "lock", dispatch[e].options PROVE creds'[e] = "held"
        BY <1>2, <2>2, <3>1, NotTaken DEF HeldInv
      <3>2. QED
        BY <3>1, OptionMoves
    <2>8. dispatch'[e].pc = "save" => creds'[e] = "held"
      <3>1. CASE dispatch[e].pc = "save"
        BY <1>2, <2>2, <3>1, NotTaken DEF HeldInv
      <3>2. CASE Lock(e) /\ LockReplaces(e)
        BY <1>2, <3>2, LockShape DEF LockReplaces, HeldInv
      <3>3. ASSUME dispatch'[e].pc = "save" PROVE dispatch[e].pc = "save" \/ (Lock(e) /\ LockReplaces(e))
        BY <3>3, Kept, LockShape, SaveShape, AttachShape DEF Keeps, LockUses, LockStartsOver
      <3>4. QED
        BY <3>1, <3>2, <3>3
    <2>9. dispatch'[e].pc = "attach" => creds'[dispatch'[e].s] = "held"
      <3>1. CASE dispatch[e].pc = "attach" /\ dispatch'[e].s = dispatch[e].s
        BY <2>4, <3>1
      <3>2. CASE Lock(e) /\ LockUses(e)
        BY <2>5, <3>2, LockShape DEF LockUses
      <3>3. CASE Save(e)
        BY <1>2, <3>3, SaveShape DEF HeldInv
      <3>4. ASSUME dispatch'[e].pc = "attach"
            PROVE  \/ dispatch[e].pc = "attach" /\ dispatch'[e].s = dispatch[e].s
                   \/ Lock(e) /\ LockUses(e)
                   \/ Save(e)
        BY <3>4, Kept, LockShape, SaveShape, AttachShape
           DEF Keeps, UnderLock, LockReplaces, LockStartsOver
      <3>5. QED
        BY <3>1, <3>2, <3>3, <3>4
    <2>10. QED
      BY <2>6, <2>7, <2>8, <2>9
  <1>3. QED
    BY <1>1, <1>2

\* The credentials of finished sessions only are given back, and those of a session
\* in use hold (releaseAuthority, src/src/agent-sessions/index.ts).
THEOREM CredsHold ==
  ASSUME SessionsKept
  PROVE  Spec => []CredsInv
  <1>1. Init => CredsInv
    BY InitSession
  <1>2. TypeInv /\ PendingInv /\ KeyInv /\ SessionInv /\ CredsInv /\ [Next]_vars => CredsInv'
    BY StepRelease, StepHeld DEF CredsInv, SessionInv
  <1>3. QED
    BY <1>1, <1>2, SessionsHold, PTL DEF Spec

\* The agent a live execution works with keeps the credentials it was made with,
\* whoever of its executions has ended (releaseAuthority, src/src/daemons/lifecycle.ts).
THEOREM CredentialsKept ==
  ASSUME SessionsKept
  PROVE  Spec => []CredentialsOutliveWork
  <1>1. TypeInv /\ KeyInv /\ CredsInv => CredentialsOutliveWork
    <2> SUFFICES ASSUME TypeInv, KeyInv, CredsInv, Leased,
                        NEW s \in Executions, NEW e \in working[s], Live(e)
                 PROVE  creds[s] = "held"
      BY DEF CredentialsOutliveWork
    <2>1. e \in Executions /\ belongs[e] = s
      BY DEF TypeInv, WorldType, KeyInv, KeyKept
    <2>2. QED
      BY <2>1, SessionsAssumption DEF CredsInv, HeldInv
  <1>2. QED
    BY <1>1, KeyHolds, CredsHold, PTL

=============================================================================
