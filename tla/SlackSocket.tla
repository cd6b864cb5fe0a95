---------------------------- MODULE SlackSocket ----------------------------
(***************************************************************************)
(* The Socket Mode source of the Slack trigger (createSlackSocketSource of *)
(* src/src/triggers/slack/source/internal/socket.ts): one loop opens a     *)
(* connection, waits until it has closed and opens the next; the frames of *)
(* all connections wait in one queue and are handled one after the other;  *)
(* an event is acknowledged once it is accepted (intake.ts), and Slack     *)
(* sends an event again, on whatever connection, until it is acknowledged. *)
(* Status reports and delays are left out. A source is started and stopped *)
(* once.                                                                   *)
(***************************************************************************)
EXTENDS Integers, Sequences, FiniteSets

CONSTANTS Events, None,
          MaxConnections, MaxFrames, \* bounds on connections and on frames sent
          MaxFailures,               \* bound on accepts that fail
          MaxChanges                 \* bound on Socket Mode turned on or off

VARIABLES
  mode,      \* whether Socket Mode is on at Slack
  stopped, handlers,
  status,    \* "stopped", "running" (connecting, reconnecting, connected), "actionNeeded"
  loop,      \* run: "none", "opening", "open", "waiting"
  stopping,  \* stop: "no", "under way", "done"
  current,   \* the last connection opened
  open,      \* those that have not closed
  frames,    \* the queue, what the head is at, and the flag a frame leaves for the loop
  head, terminalDisconnect,
  recorded,  \* how each event was recorded: None, "accepted", "dropped"
  acked,     \* the events Slack has an acknowledgement of
  sent, failures, changes

SocketAssumption == MaxConnections \in Nat /\ None \notin {"accepted", "dropped"}

vars == <<mode, stopped, handlers, status, loop, stopping, current, open, frames, head,
          terminalDisconnect, recorded, acked, sent, failures, changes>>

TypeOK ==
  /\ status \in {"stopped", "running", "actionNeeded"}
  /\ loop \in {"none", "opening", "open", "waiting"}
  /\ stopping \in {"no", "under way", "done"}
  /\ current \in 0..MaxConnections /\ open \subseteq 1..MaxConnections
  /\ \A i \in DOMAIN frames : /\ frames[i].on \in 1..current
                              /\ frames[i].what \in Events \cup {"refresh", "link_disabled"}
  /\ head \in {"waiting", "intake", "ack"}
  /\ recorded \in [Events -> {None, "accepted", "dropped"}] /\ acked \subseteq Events

Init ==
  /\ mode = TRUE /\ stopped = TRUE /\ handlers = FALSE
  /\ status = "stopped" /\ loop = "none" /\ stopping = "no"
  /\ current = 0 /\ open = {}
  /\ frames = <<>> /\ head = "waiting" /\ terminalDisconnect = FALSE
  /\ recorded = [e \in Events |-> None] /\ acked = {}
  /\ sent = 0 /\ failures = 0 /\ changes = 0

slack == <<mode, acked, sent, changes>>
queue == <<frames, head, recorded, failures>>

-----------------------------------------------------------------------------
(* The loop.                                                                *)
Start ==
  /\ stopped /\ stopping = "no"
  /\ stopped' = FALSE /\ handlers' = TRUE
  /\ status' = "running" /\ loop' = "opening"
  /\ UNCHANGED <<slack, queue, stopping, current, open, terminalDisconnect>>

Opened ==
  /\ loop = "opening" /\ ~stopped /\ mode /\ current < MaxConnections
  /\ current' = current + 1 /\ open' = open \cup {current + 1}
  /\ terminalDisconnect' = FALSE
  /\ loop' = "open"
  /\ UNCHANGED <<slack, queue, stopped, handlers, status, stopping>>

\* The attempt fails: the loop waits, or gives up when Socket Mode is off, the token is
\* rejected or the application another one.
NotOpened ==
  /\ loop = "opening" /\ ~stopped
  /\ \/ loop' = "waiting" /\ UNCHANGED status
     \/ loop' = "none" /\ status' = "actionNeeded"
  /\ UNCHANGED <<slack, queue, stopped, handlers, stopping, current, open, terminalDisconnect>>

Waited ==
  /\ loop = "waiting" /\ ~stopped
  /\ loop' = "opening"
  /\ UNCHANGED <<slack, queue, stopped, handlers, status, stopping, current, open,
                 terminalDisconnect>>

\* Mutants: the loop goes on at once; stop forgets the queue.
AtOnce == TRUE
Forgotten == TRUE
CurrentClosed == current \notin open

Closed ==
  /\ loop = "open" /\ CurrentClosed /\ ~stopped
  /\ IF terminalDisconnect
     THEN loop' = "none" /\ status' = "actionNeeded"
     ELSE loop' = "waiting" /\ UNCHANGED status
  /\ UNCHANGED <<slack, queue, stopped, handlers, stopping, current, open, terminalDisconnect>>

\* stop aborts an attempt, ends a wait, and closes the connection.
Ended ==
  /\ stopped
  /\ loop \in {"opening", "waiting"} \/ (loop = "open" /\ CurrentClosed)
  /\ loop' = "none"
  /\ UNCHANGED <<slack, queue, stopped, handlers, status, stopping, current, open,
                 terminalDisconnect>>

Retry ==
  /\ ~stopped /\ status = "actionNeeded"
  /\ status' = "running" /\ loop' = "opening"
  /\ UNCHANGED <<slack, queue, stopped, handlers, stopping, current, open, terminalDisconnect>>

Stop ==
  /\ ~stopped
  /\ stopped' = TRUE /\ stopping' = "under way"
  /\ UNCHANGED <<slack, queue, handlers, status, loop, current, open, terminalDisconnect>>

Drained == frames = <<>>

\* stop has waited for the connection, the loop and the queue.
Stopped ==
  /\ stopping = "under way" /\ loop = "none" /\ Drained
  /\ handlers' = FALSE /\ status' = "stopped" /\ stopping' = "done"
  /\ UNCHANGED <<slack, queue, stopped, loop, current, open, terminalDisconnect>>

-----------------------------------------------------------------------------
(* The queue.                                                               *)
first == Head(frames)
Popped == frames' = Tail(frames) /\ head' = "waiting"
loops == <<mode, stopped, handlers, status, loop, stopping, current, open, sent, changes>>

\* A disconnect closes its own connection; link_disabled tells the loop, whichever
\* connection that now waits for.
HandleDisconnect ==
  /\ frames # <<>> /\ first.what \notin Events
  /\ terminalDisconnect' = (terminalDisconnect \/ first.what = "link_disabled")
  /\ Popped
  /\ UNCHANGED <<loops, recorded, acked, failures>>

\* Mutant: the acknowledgement does not wait.
AckFirst ==
  /\ frames # <<>> /\ first.what \in Events /\ head = "waiting"
  /\ head' = "ack"
  /\ UNCHANGED <<loops, frames, terminalDisconnect, recorded, acked, failures>>
BeginIntake ==
  /\ frames # <<>> /\ first.what \in Events /\ head = "waiting"
  /\ head' = "intake"
  /\ UNCHANGED <<loops, frames, terminalDisconnect, recorded, acked, failures>>

\* intakeSlackEvent: the event is recorded, for the handlers there are or as dropped.
Accept ==
  /\ head = "intake"
  /\ recorded' = [recorded EXCEPT ![first.what] =
       IF @ # None THEN @ ELSE IF handlers THEN "accepted" ELSE "dropped"]
  /\ head' = "ack"
  /\ UNCHANGED <<loops, frames, terminalDisconnect, acked, failures>>

\* The accept, a handler or the acknowledgement fails: the connection is closed.
HandleFails ==
  /\ head \in {"intake", "ack"} /\ failures < MaxFailures
  /\ failures' = failures + 1
  /\ open' = open \ {first.on}
  /\ Popped
  /\ UNCHANGED <<mode, stopped, handlers, status, loop, stopping, current, sent, changes,
                 terminalDisconnect, recorded, acked>>

Ack ==
  /\ head = "ack"
  /\ acked' = IF ~stopped /\ first.on \in open THEN acked \cup {first.what} ELSE acked
  /\ Popped
  /\ UNCHANGED <<loops, terminalDisconnect, recorded, failures>>

-----------------------------------------------------------------------------
(* Slack and the network.                                                   *)
Send ==
  /\ sent < MaxFrames
  /\ \E c \in open, e \in (Events \ acked) \cup {"refresh"} :
       frames' = Append(frames, [on |-> c, what |-> e])
  /\ sent' = sent + 1
  /\ UNCHANGED <<mode, stopped, handlers, status, loop, stopping, current, open, head,
                 terminalDisconnect, recorded, acked, failures, changes>>

CloseConnection ==
  /\ \E c \in open : open' = open \ {c}
  /\ UNCHANGED <<mode, stopped, handlers, status, loop, stopping, current, queue,
                 terminalDisconnect, acked, sent, changes>>

\* Socket Mode is turned off, and the connection told so, or on.
Turn ==
  /\ changes < MaxChanges
  /\ mode' = ~mode /\ changes' = changes + 1
  /\ frames' = IF mode /\ open # {}
               THEN Append(frames, [on |-> current, what |-> "link_disabled"]) ELSE frames
  /\ UNCHANGED <<stopped, handlers, status, loop, stopping, current, open, head,
                 terminalDisconnect, recorded, acked, sent, failures>>

Next ==
  \/ Start \/ Opened \/ NotOpened \/ Waited \/ Closed \/ Ended \/ Retry \/ Stop \/ Stopped
  \/ HandleDisconnect \/ BeginIntake \/ Accept \/ HandleFails \/ Ack
  \/ Send \/ CloseConnection \/ Turn

Spec == Init /\ [][Next]_vars

-----------------------------------------------------------------------------
\* Slack is told of an event only once it is accepted, and with the handlers still there:
\* a stopping source finishes its queue before it lets them go, and no event that it took
\* is recorded as dropped (handleFrame, stop).
AckedIsAccepted ==
  \A e \in Events : /\ e \in acked => recorded[e] = "accepted"
                    /\ recorded[e] # "dropped"

\* The source holds one connection at a time, through retries and failures, and none once
\* it has stopped (run, retry, stop).
OneConnection ==
  /\ Cardinality(open) <= 1
  /\ stopping = "done" => open = {} /\ frames = <<>> /\ loop = "none"
=============================================================================
