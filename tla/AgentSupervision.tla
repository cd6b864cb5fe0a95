---------------------------- MODULE AgentSupervision ----------------------------
(***************************************************************************)
(* How a hub watches one execution (src/src/daemons/lifecycle.ts): the     *)
(* events of its agent are handled one after another and move the idle     *)
(* deadline, one timer waits for the earlier of the two deadlines, the     *)
(* dispatch and a finish call look at the same row, and a poll of the      *)
(* workflow engine expires what is overdue by the row alone.               *)
(*                                                                         *)
(* A step is one query, or the handling of its answer: what was read may   *)
(* be old when it is used; only the handling of an event, which is alone   *)
(* to move the row's deadline, is one step.  An event carries the time the *)
(* hub received it.                                                        *)
(***************************************************************************)
EXTENDS Integers, Sequences, FiniteSets

CONSTANTS Idle,      \* idle timeout of the step
          Hard,      \* its deadline
          MaxTime,   \* bound on the clock
          MaxEvents, \* bound on events received, failed queries and crashes
          None

\* There is time to be idle, and before the deadline.
SupervisionAssumption ==
  /\ Idle \in Nat \ {0} /\ Hard \in Nat \ {0} /\ MaxTime \in Nat /\ MaxEvents \in Nat
  /\ None \notin Int

VARIABLES
  now,
  up,        \* the process that has the daemon's connection
  connected,
  status,    \* the execution's row: its status,
  idle,      \* ... and its idle deadline
  ended,     \* history: the idle deadline it was failed for by this process, and what the
             \* events that count say it was
  heard,     \* the events received since the process has started
  handled,   \* how many of them are done
  hand,      \* the handling of the next one
  timer,     \* when the armed timer is due
  call,      \* [what is under way: timer, dispatch, finish, start]
  faults,
  crossed    \* history: the timer was armed by a row that an event had changed meanwhile, or
             \* not armed because a query failed

vars == <<now, up, connected, status, idle, ended, heard, handled, hand, timer, call, faults,
          crossed>>

Callers == {"timer", "dispatch", "finish", "start"}
Row == [status |-> status, idle |-> idle]
Live == status \in {"spawning", "running"}
Fault == Len(heard) + faults < MaxEvents /\ faults' = faults + 1
Rest == [pc |-> "rest", row |-> None, upto |-> 0]
Earlier(a, b) == IF a < b THEN a ELSE b
Later(a, b) == IF a < b THEN b ELSE a

TypeOK ==
  /\ now \in 0 .. MaxTime /\ up \in BOOLEAN /\ connected \in BOOLEAN /\ crossed \in BOOLEAN
  /\ status \in {"spawning", "running", "succeeded", "failed"}
  /\ idle \in 0 .. Hard \cup {None} /\ timer \in 0 .. Later(Hard, MaxTime) \cup {None}
  /\ handled \in 0 .. Len(heard) /\ Len(heard) <= MaxEvents /\ faults \in 0 .. MaxEvents
  /\ \A c \in Callers : call[c].upto \in 0 .. MaxEvents
  /\ hand.pc \in {"rest", "reading", "judging"}

\* acquireAndSpawnAgent has armed the timer and asks the agent.
Init ==
  /\ now = 0 /\ up = TRUE /\ connected = TRUE /\ status = "spawning" /\ idle = Earlier(Idle, Hard)
  /\ ended = None /\ heard = <<>> /\ handled = 0 /\ hand = Rest /\ timer = Earlier(Idle, Hard)
  /\ call = [c \in Callers |-> IF c = "dispatch" THEN [Rest EXCEPT !.pc = "sending"] ELSE Rest]
  /\ faults = 0 /\ crossed = FALSE

\* nextExecutionDeadline
Kind(r) == IF r.idle = None \/ Hard <= r.idle THEN "hard" ELSE "idle"
Due(r) == IF Kind(r) = "hard" THEN Hard ELSE r.idle

\* Mutant: a timer that is armed stays.
Keep(r) == timer' = IF timer = None THEN Due(r) ELSE timer
\* armExecutionDeadline: whatever was armed before is replaced.
Arm(r) == timer' = Due(r)

\* The row that was read promises more time than the row has.
Stale(r) == Due(r) > Due(Row)

\* What the events say, one after another: the idle deadline they leave, or the first that
\* passed.
Follow(d, e) ==
  IF d # None /\ d <= e.at THEN d
  ELSE IF e.kind = "running" THEN None
  ELSE IF e.kind = "activity" /\ d = None THEN None ELSE Earlier(e.at + Idle, Hard)
Told[n \in 0 .. MaxEvents] ==
  IF n = 0 THEN Earlier(Idle, Hard)
  ELSE IF n > Len(heard) THEN None ELSE Follow(Told[n - 1], heard[n])
\* Of the first n events those count that were received before the deadline.
Counted(n, due) == Earlier(n, Cardinality({k \in DOMAIN heard : heard[k].at < due}))

\* completeWorkflowAgentExecution of a live execution: what the process holds of it is
\* dropped here; a timer or a handler that is left finds it over.
End(s) ==
  /\ status' = s /\ idle' = None /\ timer' = None /\ heard' = <<>> /\ handled' = 0
  /\ hand' = Rest /\ call' = [c \in Callers |-> Rest]
  /\ UNCHANGED <<now, up, connected, faults, crossed>>
\* deadlineConditionAllows: the deadline that was read is still the row's.
StillDue(r) == Due(r) <= now /\ (Kind(r) = "idle" => idle = r.idle)
\* The events that the row follows: those that are done, and one that has moved the deadline.
Seen == handled + hand.upto
\* The execution fails at the deadline r, when n events had been handled or waited for.
Expire(r, n) ==
  /\ Due(r) <= now /\ StillDue(r) /\ End("failed")
  /\ ended' = IF Kind(r) = "idle" /\ faults = 0
              THEN [due |-> Due(r), told |-> Told[Counted(n, Due(r))]] ELSE None


-----------------------------------------------------------------------------
(* Expiring the execution at its current deadline, by any of the callers *)

\* Mutant: nothing is waited for.
AtOnce(c) == TRUE
\* waitForPendingStreamHandlers: the events that were received when the wait began.
Settled(c) == handled >= call[c].upto

Wait(c) == call' = [call EXCEPT ![c] = [pc |-> "waiting", row |-> None, upto |-> Len(heard)]]

\* expireExecutionAtCurrentDeadline: the row is read when the wait is over,
ReadDeadline(c) ==
  /\ up /\ call[c].pc = "waiting" /\ Settled(c)
  /\ call' = [call EXCEPT ![c].pc = "judging", ![c].row = Row]
  /\ UNCHANGED <<now, up, connected, status, idle, ended, heard, handled, hand, timer,
                 faults, crossed>>

Over(c) == call' = [call EXCEPT ![c] = [Rest EXCEPT !.pc = "over"]]

\* ... and the execution fails, if the row has still that deadline; else the timer is armed
\* for the deadline it has.
ExpireAtDeadline(c) ==
  up /\ call[c].pc = "judging" /\ Expire(call[c].row, Later(call[c].upto, Seen))
ArmMoved(c) ==
  /\ up /\ call[c].pc = "judging" /\ Over(c)
  /\ LET r == call[c].row IN
     \/ Due(r) > now /\ Arm(r) /\ crossed' = (crossed \/ Stale(r))
     \/ Due(r) <= now /\ ~StillDue(r) /\ Arm(Row) /\ UNCHANGED crossed
  /\ UNCHANGED <<now, up, connected, status, idle, ended, heard, handled, hand, faults>>

\* The callback of the timer
Fire ==
  /\ up /\ timer # None /\ timer <= now /\ call["timer"].pc \in {"rest", "over"}
  /\ timer' = None /\ Wait("timer")
  /\ UNCHANGED <<now, up, connected, status, idle, ended, heard, handled, hand, faults,
                 crossed>>

\* A query of the callback fails: retryExecutionDeadline arms the timer again in a second,
\* unless its own query fails too.
TimerQueryFails ==
  /\ up /\ call["timer"].pc = "waiting" /\ Settled("timer") /\ Fault
  /\ call' = [call EXCEPT !["timer"].pc = "retrying"]
  /\ UNCHANGED <<now, up, connected, status, idle, ended, heard, handled, hand, timer, crossed>>
RetryTimer ==
  /\ up /\ call["timer"].pc = "retrying"
  /\ \/ timer' = Earlier(now + 1, MaxTime) /\ UNCHANGED <<faults, crossed>>
     \/ Fault /\ crossed' = TRUE /\ UNCHANGED timer
  /\ Over("timer")
  /\ UNCHANGED <<now, up, connected, status, idle, ended, heard, handled, hand>>

-----------------------------------------------------------------------------
(* The events of the agent *)

\* observeSessionEvent and queueDaemonEvent, once the dispatch has subscribed: the time is
\* that of the receipt.
Receive(kind) ==
  /\ up /\ connected /\ Len(heard) + faults < MaxEvents
  /\ call["dispatch"].pc # "rest"
  /\ heard' = Append(heard, [kind |-> kind, at |-> now])
  /\ UNCHANGED <<now, up, connected, status, idle, ended, handled, hand, timer, call, faults,
                 crossed>>

Event == heard[handled + 1]
Done == handled' = handled + 1 /\ hand' = Rest

\* idleDeadlineForStatus, refreshAgentIdleDeadline
Refreshed == Earlier(Event.at + Idle, Hard)
NewIdle == IF Event.kind = "running" THEN None ELSE Refreshed
\* setAgentExecutionIdleDeadline: not of an execution that is over or overdue.
MaySet == Hard > now /\ (idle = None \/ idle > Event.at)
\* The deadline that the row had at the receipt decides.
Overran == Hard <= now \/ (idle # None /\ idle <= Event.at)
\* armOrExpireExecution, with the row that the update has returned
ArmOrExpire(r) ==
  IF Due(r) <= now
  THEN hand' = [hand EXCEPT !.pc = "reading", !.upto = 1] /\ UNCHANGED <<handled, timer>>
  ELSE Done /\ Arm(r)

\* handleAgentStreamEvent, handleAgentStatus: activity moves only a deadline that there is;
\* the status of an agent clears it or sets it, and starts the execution;
HandleEvent ==
  /\ up /\ hand.pc = "rest" /\ handled < Len(heard) /\ Event.kind # "error"
  /\ \/ /\ Overran /\ hand' = [hand EXCEPT !.pc = "reading"]
        /\ UNCHANGED <<handled, status, idle, timer>>
     \/ /\ ~Overran /\ Event.kind = "activity" /\ idle = None /\ Done
        /\ UNCHANGED <<status, idle, timer>>
     \/ /\ ~Overran /\ (Event.kind = "activity" => idle # None)
        /\ status' = IF Event.kind # "activity" THEN "running" ELSE status
        /\ idle' = IF MaySet THEN NewIdle ELSE idle
        /\ ArmOrExpire([status |-> status', idle |-> idle'])
  /\ UNCHANGED <<now, up, connected, ended, heard, call, faults, crossed>>
\* ... an agent that failed or is closed ends it.
HandleError ==
  /\ up /\ hand.pc = "rest" /\ handled < Len(heard) /\ Event.kind = "error"
  /\ End("failed") /\ UNCHANGED ended

\* The handler expires the execution without waiting for the events that come after its own;
\* the deadline is the one it has moved or seen pass, so there is none to wait for instead.
ReadByEvent ==
  /\ up /\ hand.pc = "reading" /\ hand' = [hand EXCEPT !.pc = "judging", !.row = Row]
  /\ UNCHANGED <<now, up, connected, status, idle, ended, heard, handled, timer, call, faults,
                 crossed>>
ExpireByEvent ==
  up /\ hand.pc = "judging" /\ Expire(hand.row, Seen)
ArmByEvent ==
  /\ up /\ hand.pc = "judging" /\ Done
  /\ LET r == hand.row IN
     \/ Due(r) > now /\ Arm(r)
     \/ Due(r) <= now /\ ~StillDue(r) /\ Arm(Row)
  /\ UNCHANGED <<now, up, connected, status, idle, ended, heard, call, faults, crossed>>

-----------------------------------------------------------------------------
(* The dispatch, the recovery of a restart, and the finish call *)

\* armLiveExecutionDeadline, when the agent has answered, and recoverAgentExecutionDeadlines
Look(c) ==
  /\ up /\ call[c].pc = "look" /\ call' = [call EXCEPT ![c].pc = "armed", ![c].row = Row]
  /\ UNCHANGED <<now, up, connected, status, idle, ended, heard, handled, hand, timer,
                 faults, crossed>>
ArmLooked(c) ==
  /\ up /\ call[c].pc = "armed"
  /\ LET r == call[c].row IN
     \/ Due(r) <= now /\ Wait(c) /\ UNCHANGED <<timer, crossed>>
     \/ Due(r) > now /\ Arm(r) /\ crossed' = (crossed \/ Stale(r)) /\ Over(c)
  /\ UNCHANGED <<now, up, connected, status, idle, ended, heard, handled, hand, faults>>

\* dispatchSession: the agent has the prompt; startAgentExecution.
Sent ==
  /\ up /\ connected /\ call["dispatch"].pc = "sending"
  /\ status' = IF status = "spawning" THEN "running" ELSE status
  /\ call' = [call EXCEPT !["dispatch"] = [Rest EXCEPT !.pc = "look"]]
  /\ UNCHANGED <<now, up, connected, idle, ended, heard, handled, hand, timer, faults,
                 crossed>>

\* withDispatchTimeout and spawnPreparedDispatch: the startup took too long, or failed.
DispatchFails ==
  /\ up /\ call["dispatch"].pc = "sending" /\ End("failed") /\ UNCHANGED ended

\* completeAgentExecutionFromCallback: it waits for the events that came before,
Finish ==
  /\ up /\ call["finish"].pc = "rest"
  /\ call["dispatch"].pc # "rest"
  /\ call' = [call EXCEPT !["finish"] = [pc |-> "before", row |-> None, upto |-> Len(heard)]]
  /\ UNCHANGED <<now, up, connected, status, idle, ended, heard, handled, hand, timer,
                 faults, crossed>>
\* ... reads the row, and expires an execution that is overdue; else the timer goes,
ReadFinish ==
  /\ up /\ call["finish"].pc = "before" /\ Settled("finish")
  /\ \/ Due(Row) <= now /\ Wait("finish") /\ UNCHANGED timer
     \/ /\ Due(Row) > now /\ timer' = None
        /\ call' = [call EXCEPT !["finish"].pc = "completing"]
  /\ UNCHANGED <<now, up, connected, status, idle, ended, heard, handled, hand, faults,
                 crossed>>
\* ... and then the row says so,
CompleteFinish ==
  up /\ call["finish"].pc = "completing" /\ End("succeeded") /\ UNCHANGED ended
\* ... unless the query fails.
FinishFails ==
  /\ up /\ call["finish"].pc = "completing" /\ Over("finish") /\ Fault /\ crossed' = TRUE
  /\ UNCHANGED <<now, up, connected, status, idle, ended, heard, handled, hand, timer>>

-----------------------------------------------------------------------------
(* The clock, the poll of a workflow engine, and crashes *)

Tick ==
  /\ now < MaxTime /\ now' = now + 1
  /\ UNCHANGED <<up, connected, status, idle, ended, heard, handled, hand, timer, call,
                 faults, crossed>>

\* recoverWorkflowDeadlines of any process, by the row
Poll == Due(Row) <= now /\ End("failed") /\ UNCHANGED ended

Crash ==
  /\ up /\ Fault /\ up' = FALSE /\ connected' = FALSE
  /\ heard' = <<>> /\ handled' = 0 /\ hand' = Rest /\ timer' = None
  /\ call' = [c \in Callers |-> Rest] /\ crossed' = FALSE
  /\ UNCHANGED <<now, status, idle, ended>>
\* recoverAgentExecutionDeadlines: the timer is armed again for what is pending.
Start ==
  /\ ~up /\ up' = TRUE
  /\ call' = [call EXCEPT !["start"].pc = "look"]
  /\ UNCHANGED <<now, connected, status, idle, ended, heard, handled, hand, timer, faults,
                 crossed>>
\* recoverDaemon, recoverExecution: a live execution is dispatched again.
Reconnect ==
  /\ up /\ ~connected /\ connected' = TRUE
  /\ call' = IF call["dispatch"].pc \in {"rest", "over"}
             THEN [call EXCEPT !["dispatch"] = [Rest EXCEPT !.pc = "sending"]] ELSE call
  /\ UNCHANGED <<now, up, status, idle, ended, heard, handled, hand, timer, faults, crossed>>

Work ==
  \/ \E c \in Callers :
       ReadDeadline(c) \/ ExpireAtDeadline(c) \/ ArmMoved(c) \/ Look(c) \/ ArmLooked(c)
  \/ Fire \/ RetryTimer
  \/ HandleEvent \/ HandleError \/ ReadByEvent \/ ExpireByEvent \/ ArmByEvent
  \/ Sent \/ ReadFinish \/ CompleteFinish \/ Start \/ Reconnect

Ask ==
  \/ Tick \/ Poll \/ Finish \/ FinishFails \/ TimerQueryFails \/ DispatchFails \/ Crash
  \/ \E kind \in {"activity", "idle", "running", "error"} : Receive(kind)

\* An execution is followed until it has ended.
Next == Live /\ (Work \/ Ask)

Spec == Init /\ [][Next]_vars

-----------------------------------------------------------------------------
(* Properties *)

\* An execution that this process fails as idle was idle by everything it had heard before
\* the deadline when it began to wait, handled by then or not, and has handled since; one that
\* is failed while an event is handled, by the events up to that one (lifecycle.ts,
\* expireExecutionAtCurrentDeadline; daemons.test.ts, "uses the activity receipt time when
\* processing follows the idle deadline").
IdledOutWasIdle == ended # None => ended.told = ended.due

\* When nothing is under way, a live execution has its timer, no later than its deadline: it
\* is not left to the poll, but when the timer was armed by an old row or not at all.
ArmedWhenQuiet ==
  /\ up /\ Live /\ ~crossed
  /\ \A c \in Callers : call[c].pc \in {"rest", "over", "sending"}
  /\ hand.pc = "rest" /\ handled = Len(heard)
  => timer # None /\ (timer <= Due(Row) \/ timer <= now + 1)
=============================================================================
