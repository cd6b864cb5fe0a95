--------------------------- MODULE ExecutionOutputs ---------------------------
(***************************************************************************)
(* One execution seen by its agent's tools                                 *)
(* (src/src/execution-capabilities/server.ts, src/src/db/pg.ts and the     *)
(* observation of the agent in src/src/daemons/lifecycle.ts): calls that   *)
(* send an output each, under a limit and a lease, the call that finishes  *)
(* the execution, and the signals that must have come before the agent is  *)
(* archived. Calls overlap, their answers and the agent's events are lost. *)
(***************************************************************************)
EXTENDS Integers, Sequences, FiniteSets

CONSTANTS Calls,      \* calls of the output tool, each an attempt
          MaxOutputs, \* the declaration's limit
          MaxTurns,   \* bound on the agent's turns
          MaxLosses   \* bound on crashes and lost events

VARIABLES
  status,    \* agent_executions.status
  attempt,   \* output_delivery_attempts
  overdue,   \* attempts past their lease
  sent,      \* what reached the provider: the attempts delivered
  emissions, \* output_emissions
  call,      \* where each output call is
  finish,    \* where the finishing call is
  signs,     \* hub_action_acknowledgements
  action,    \* hub_action and its columns
  turn,      \* the agent's turn, and which one it is
  events,    \* the agent's events on their way
  losses,
  unheard    \* history: a signal of the handshake was lost for good

\* An agent makes finitely many calls, in one turn at least.
OutputsAssumption ==
  /\ IsFiniteSet(Calls) /\ MaxOutputs \in Nat
  /\ MaxTurns \in Nat \ {0} /\ MaxLosses \in Nat

vars == <<status, attempt, overdue, sent, emissions, call, finish, signs, action, turn, events, losses, unheard>>

Live == status = "running"

TypeOK ==
  /\ status \in {"running", "succeeded", "failed"}
  /\ attempt \in [Calls -> {"none", "pending", "succeeded", "failed"}]
  /\ overdue \in [Calls -> BOOLEAN] /\ sent \subseteq Calls /\ emissions \in 0..Cardinality(Calls)
  /\ call \in [Calls -> {"idle", "sending", "sent", "failing", "done"}]
  /\ finish \in {"none", "checked", "completed", "done", "again"}
  /\ signs \in [terminal : BOOLEAN, idle : BOOLEAN, finish : {"none", "running", "failed", "completed"}]
  /\ action \in {"none", "archive", "ready", "archived"}
  /\ turn \in [n : 1..MaxTurns, over : BOOLEAN]
  /\ events \in Seq({"running", "failed", "completed", "turn", "idle"})

Init ==
  /\ status = "running" /\ attempt = [c \in Calls |-> "none"] /\ overdue = [c \in Calls |-> FALSE]
  /\ sent = {} /\ emissions = 0 /\ call = [c \in Calls |-> "idle"] /\ finish = "none"
  /\ signs = [terminal |-> FALSE, idle |-> FALSE, finish |-> "none"] /\ action = "none"
  /\ turn = [n |-> 1, over |-> FALSE] /\ events = <<>> /\ losses = 0 /\ unheard = FALSE

outputVars == <<attempt, overdue, sent, emissions, call>>
handshake == <<signs, action, turn, events, losses, unheard>>

-----------------------------------------------------------------------------
(* Outputs *)

\* Mutant: only what was emitted counts.
NoneUnderWay == {}
\* Attempts whose lease has passed no longer count.
UnderWay == {c \in Calls : attempt[c] = "pending" /\ ~overdue[c]}

\* beginAgentExecutionOutput
Begin(c) ==
  /\ call[c] = "idle" /\ ~turn.over /\ Live
  /\ emissions + Cardinality(UnderWay) < MaxOutputs
  /\ attempt' = [attempt EXCEPT ![c] = "pending"]
  /\ call' = [call EXCEPT ![c] = "sending"]
  /\ UNCHANGED <<status, overdue, sent, emissions, finish, handshake>>

\* execute: the provider takes the output, or the call fails, also after it took it.
Deliver(c, taken, failed) ==
  /\ call[c] = "sending"
  /\ sent' = IF taken THEN sent \cup {c} ELSE sent
  /\ call' = [call EXCEPT ![c] = IF failed THEN "failing" ELSE "sent"]
  /\ taken \/ failed
  /\ UNCHANGED <<status, attempt, overdue, emissions, finish, handshake>>

LeasePasses(c) ==
  /\ attempt[c] = "pending" /\ ~overdue[c]
  /\ overdue' = [overdue EXCEPT ![c] = TRUE]
  /\ UNCHANGED <<status, attempt, sent, emissions, call, finish, handshake>>

\* Mutant: what was sent counts, however late.
AnyTime(c) == attempt[c] = "pending"
InTime(c) == attempt[c] = "pending" /\ ~overdue[c]

\* completeAgentExecutionOutput and failAgentExecutionOutput
Record(c) ==
  /\ call[c] \in {"sent", "failing"}
  /\ IF call[c] = "sent" /\ InTime(c)
     THEN /\ attempt' = [attempt EXCEPT ![c] = "succeeded"]
          /\ emissions' = emissions + 1
     ELSE /\ attempt' = [attempt EXCEPT ![c] = "failed"]
          /\ UNCHANGED emissions
  /\ call' = [call EXCEPT ![c] = "done"]
  /\ UNCHANGED <<status, overdue, sent, finish, handshake>>

-----------------------------------------------------------------------------
(* The end *)

\* Mutant: an output that is under way counts as sent.
BegunIsEnough == emissions + Cardinality(UnderWay) > 0
\* missingRequiredOutputs, of a declaration that requires one
NothingMissing == emissions > 0

\* finishExecutionCall, by a record that was read before
BeginFinish ==
  /\ Live /\ finish = "none" /\ ~turn.over /\ NothingMissing
  /\ finish' = "checked"
  /\ events' = Append(events, "running")
  /\ UNCHANGED <<status, signs, action, turn, losses, unheard, outputVars>>

\* completeAgentExecutionFromCallback; an end that came first is told as a failure.
Complete ==
  /\ finish = "checked"
  /\ IF Live THEN /\ status' = "succeeded" /\ action' = "archive" /\ finish' = "completed"
                  /\ UNCHANGED events
     ELSE finish' = "done" /\ events' = Append(events, "failed") /\ UNCHANGED <<status, action>>
  /\ UNCHANGED <<signs, turn, losses, unheard, outputVars>>

\* The acknowledgement is recorded before the agent is answered.
Acknowledge ==
  /\ finish = "completed"
  /\ finish' = "done"
  /\ signs' = [signs EXCEPT !.finish = "completed"]
  /\ events' = Append(events, "completed")
  /\ UNCHANGED <<status, action, turn, losses, unheard, outputVars>>

\* A crash or a failed query in between: the agent is told of a failure, and calling
\* again it finds the execution no longer live.
LoseFinish ==
  /\ finish = "completed" /\ losses < MaxLosses
  /\ finish' = "done" /\ losses' = losses + 1 /\ unheard' = TRUE
  /\ events' = Append(events, "failed")
  /\ UNCHANGED <<status, signs, action, turn, outputVars>>

\* The agent calls once more, and is told that the execution is not live.
FinishAgain ==
  /\ finish = "done" /\ ~Live /\ ~turn.over
  /\ finish' = "again"
  /\ events' = Append(events, "failed")
  /\ UNCHANGED <<status, signs, action, turn, losses, unheard, outputVars>>

\* A deadline, or the agent's death: it is archived as it is.
Expire ==
  /\ Live
  /\ status' = "failed" /\ action' = "ready"
  /\ UNCHANGED <<finish, signs, turn, events, losses, unheard, outputVars>>

-----------------------------------------------------------------------------
(* The agent, and what is heard of it *)

EndTurn ==
  /\ ~turn.over /\ finish \notin {"checked", "completed"}
  /\ \A c \in Calls : call[c] \in {"idle", "done"}
  /\ turn' = [turn EXCEPT !.over = TRUE]
  /\ events' = events \o <<"turn", "idle">>
  /\ UNCHANGED <<status, finish, signs, action, losses, unheard, outputVars>>

NextTurn ==
  /\ turn.over /\ turn.n < MaxTurns
  /\ turn' = [n |-> turn.n + 1, over |-> FALSE]
  /\ UNCHANGED <<status, finish, signs, action, events, losses, unheard, outputVars>>

\* Mutant: the last word about the finishing call counts.
LastWord(e) == e
\* Once completed, a finishing call stays so.
FinishAfter(e) == IF signs.finish = "completed" THEN "completed" ELSE e

\* recordAgentExecutionHubAcknowledgement
Signs(e) ==
  IF e = "turn" THEN [signs EXCEPT !.terminal = TRUE]
  ELSE IF e = "idle" THEN [signs EXCEPT !.idle = TRUE]
  ELSE [signs EXCEPT !.finish = FinishAfter(e)]

\* Mutant: the archive does not wait for the agent.
FinishedOnly(s) == s.finish = "completed"
\* The condition of markAgentExecutionHubActionReady.
AllSigns(s) == s.terminal /\ s.idle /\ s.finish = "completed"

\* handleDaemonEvent and acknowledgeAgentExecutionHubAction
Hear ==
  /\ events # <<>>
  /\ signs' = Signs(Head(events))
  /\ events' = Tail(events)
  /\ action' = IF action = "archive" /\ AllSigns(signs') THEN "ready" ELSE action
  /\ UNCHANGED <<status, finish, turn, losses, unheard, outputVars>>

\* The connection is down while the agent goes on.
LoseEvent ==
  /\ events # <<>> /\ losses < MaxLosses
  /\ events' = Tail(events) /\ losses' = losses + 1 /\ unheard' = TRUE
  /\ UNCHANGED <<status, finish, signs, action, turn, outputVars>>

\* sendPendingHubAction, at once or after a reconnection (AgentSessions has how).
Archive ==
  /\ action = "ready"
  /\ action' = "archived"
  /\ UNCHANGED <<status, finish, signs, turn, events, losses, unheard, outputVars>>

Progressing ==
  \/ \E c \in Calls : Record(c) \/ \E taken, failed \in BOOLEAN : Deliver(c, taken, failed)
  \/ Complete \/ Acknowledge \/ EndTurn \/ Hear \/ Archive

Next ==
  \/ Progressing \/ BeginFinish \/ LoseFinish \/ FinishAgain \/ Expire \/ NextTurn \/ LoseEvent
  \/ \E c \in Calls : Begin(c) \/ LeasePasses(c)

\* Calls to providers and queries end, a turn ends by itself or by its deadline, and
\* what is heard is handled in turn.
Fairness == WF_vars(Progressing)

Spec == Init /\ [][Next]_vars /\ Fairness

-----------------------------------------------------------------------------
(* Properties *)

\* Overlapping calls never record more outputs than the declaration permits, and what
\* reaches the provider beyond it are outputs that were given up: late or failed.
OutputsAreLimited ==
  /\ emissions <= MaxOutputs
  /\ Cardinality(sent \ {c \in Calls : overdue[c] \/ attempt[c] = "failed" \/ call[c] = "failing"}) <= MaxOutputs

\* An execution that its agent finished has sent what it was required to send.
FinishedHasSent == status = "succeeded" => \E c \in sent : attempt[c] = "succeeded"

\* An agent that finished its execution is archived after its turn and never in the
\* middle of it, unless signals of a turn before stand for this one's.
ArchivedAfterTurn ==
  status = "succeeded" /\ action \in {"ready", "archived"} => turn.over \/ turn.n > 1

\* A finished agent is archived in the end, in whatever order its call is answered
\* and its events are heard, unless one of them is lost for good.
FinishedIsArchived == status = "succeeded" ~> (action = "archived" \/ unheard)
=============================================================================
