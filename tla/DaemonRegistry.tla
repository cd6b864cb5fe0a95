---------------------------- MODULE DaemonRegistry ----------------------------
(***************************************************************************)
(* The connections of one daemon to one process                            *)
(* (src/src/daemons/registry.ts, registration.ts): an upgrade is checked   *)
(* against the daemon's row, then the socket replaces the one before it.   *)
(* Whether the daemon is connected is written to its row by queries of     *)
(* their own, which nothing but the code's awaits orders.                  *)
(***************************************************************************)
EXTENDS Integers, FiniteSets

CONSTANTS Sockets, Asks, None,
          MaxUpdates,      \* bound on changes of the permission
          MaxWriteFailures \* bound on presence writes that fail

VARIABLES
  row,        \* the daemon's row: status, presence, hub.execute in scopes
  link,       \* the sockets, of which each is one generation
  registered, \* active.get(daemon.id)
  up,         \* the write of "connected" of each socket
  down,       \* the write of "offline" of each socket
  ask,        \* pendingByDaemon
  revoking,   \* the revocation under way
  updating,   \* the change of permission under way
  updates, writeFailures,
  crossed     \* history: a write landed after one of a later socket

vars == <<row, link, registered, up, down, ask, revoking, updating, updates, writeFailures, crossed>>

NoLink == [st |-> "new", ready |-> FALSE, execute |-> FALSE, missed |-> FALSE]
NoUpdate == [pc |-> "none", execute |-> FALSE]

\* None is no socket.
RegistryAssumption == None \notin Sockets /\ MaxUpdates \in Nat /\ MaxWriteFailures \in Nat

TypeOK ==
  /\ row \in [status : {"active", "revoked"}, presence : {"offline", "connected"}, execute : BOOLEAN]
  /\ link \in [Sockets -> [st : {"new", "checked", "open", "closing", "closed"}, ready : BOOLEAN,
                           execute : BOOLEAN, missed : BOOLEAN]]
  /\ registered \in Sockets \cup {None}
  /\ up \in [Sockets -> {"none", "sent", "done"}] /\ down \in [Sockets -> {"none", "waiting", "sent", "done"}]
  /\ ask \in [Asks -> [st : {"free", "pending", "answered", "rejected"}, of : Sockets \cup {None}]]
  /\ revoking \in {"none", "written", "done"}

Init ==
  /\ row = [status |-> "active", presence |-> "offline", execute |-> TRUE]
  /\ link = [s \in Sockets |-> NoLink] /\ registered = None
  /\ up = [s \in Sockets |-> "none"] /\ down = [s \in Sockets |-> "none"]
  /\ ask = [q \in Asks |-> [st |-> "free", of |-> None]]
  /\ revoking = "none" /\ updating = NoUpdate /\ updates = 0 /\ writeFailures = 0
  /\ crossed = FALSE

\* Only the socket of the current generation is heard.
Heard(s) == registered = s /\ link[s].st \in {"open", "closing"}
\* close asks for the end of a connection; the close event comes later.
Closing(s) == IF link[s].st = "open" THEN "closing" ELSE link[s].st

\* Mutant: what was asked of a replaced socket stays pending.
KeepGeneration(s) == ask
\* rejectGeneration
RejectGeneration(s) ==
  [q \in Asks |-> IF ask[q].st = "pending" /\ ask[q].of = s
                  THEN [ask[q] EXCEPT !.st = "rejected"] ELSE ask[q]]

-----------------------------------------------------------------------------

\* Mutant: the credential alone admits a daemon.
KnownOnly == TRUE
Admitted == row.status = "active"

\* createDaemonUpgradeHandler reads the row ...
Upgrade(s) ==
  /\ link[s].st = "new" /\ Admitted
  /\ link' = [link EXCEPT ![s].st = "checked", ![s].execute = row.execute]
  /\ UNCHANGED <<row, registered, up, down, ask, revoking, updating, updates, writeFailures, crossed>>

\* ... and accepts after the handshake, or at once ready under the old protocol.
Accept(s, legacy) ==
  /\ link[s].st = "checked"
  /\ ask' = RejectGeneration(registered)
  /\ registered' = s
  /\ link' = [x \in Sockets |->
       IF x = s THEN [link[s] EXCEPT !.st = "open", !.ready = legacy]
       ELSE IF x = registered THEN [link[x] EXCEPT !.st = Closing(x)] ELSE link[x]]
  /\ up' = IF legacy THEN [up EXCEPT ![s] = "sent"] ELSE up
  /\ UNCHANGED <<row, down, revoking, updating, updates, writeFailures, crossed>>

\* acceptServerInfo and markReady, or the end of a session with other permissions.
ServerInfo(s, execute) ==
  /\ Heard(s)
  /\ IF execute # link[s].execute
     THEN link' = [link EXCEPT ![s].st = Closing(s)] /\ UNCHANGED up
     ELSE /\ ~link[s].ready
          /\ link' = [link EXCEPT ![s].ready = TRUE]
          /\ up' = [up EXCEPT ![s] = "sent"]
  /\ UNCHANGED <<row, registered, down, ask, revoking, updating, updates, writeFailures, crossed>>

\* The connection ends, asked to or not; the close of a replaced one does nothing.
Closed(s) ==
  /\ link[s].st \in {"open", "closing"}
  /\ link' = [link EXCEPT ![s].st = "closed"]
  /\ IF registered = s
     THEN /\ registered' = None
          /\ ask' = RejectGeneration(s)
          /\ down' = [down EXCEPT ![s] = "waiting"]
     ELSE UNCHANGED <<registered, ask, down>>
  /\ UNCHANGED <<row, up, revoking, updating, updates, writeFailures, crossed>>

\* The row takes the write, or the failure is reported and the write is lost.
Write(presence, fails) ==
  /\ fails => writeFailures < MaxWriteFailures
  /\ writeFailures' = IF fails THEN writeFailures + 1 ELSE writeFailures
  /\ row' = IF fails THEN row ELSE [row EXCEPT !.presence = presence]

ConnectedWritten(s, fails) ==
  /\ up[s] = "sent"
  /\ up' = [up EXCEPT ![s] = "done"]
  /\ Write("connected", fails)
  /\ crossed' = (crossed \/ (registered # s /\ \E x \in Sockets \ {s} : {up[x], down[x]} # {"none"}))
  /\ UNCHANGED <<link, registered, down, ask, revoking, updating, updates>>

\* Mutant: a socket that closes early writes "offline" at once.
AtOnce(s) == TRUE
\* presenceReady: a socket's own "connected" is written first.
OwnFirst(s) == up[s] # "sent"

OfflineSent(s) ==
  /\ down[s] = "waiting" /\ OwnFirst(s)
  /\ down' = [down EXCEPT ![s] = "sent"]
  /\ UNCHANGED <<row, link, registered, up, ask, revoking, updating, updates, writeFailures, crossed>>

OfflineWritten(s, fails) ==
  /\ down[s] = "sent"
  /\ down' = [down EXCEPT ![s] = "done"]
  /\ Write("offline", fails)
  /\ crossed' = (crossed \/ \E x \in Sockets \ {s} : registered = x /\ up[x] = "done")
  /\ UNCHANGED <<link, registered, up, ask, revoking, updating, updates>>

-----------------------------------------------------------------------------

\* connection, validateAgentConfiguration, getProviderSnapshot: sent to a socket that
\* is ready, under a permission to execute.
Ask(q) ==
  /\ ask[q].st = "free" /\ registered # None
  /\ link[registered].ready /\ link[registered].execute
  /\ ask' = [ask EXCEPT ![q] = [st |-> "pending", of |-> registered]]
  /\ UNCHANGED <<row, link, registered, up, down, revoking, updating, updates, writeFailures, crossed>>

\* receiveAgentValidation and its kind, an rpc_error included.
Answer(q) ==
  LET s == ask[q].of IN
  /\ ask[q].st = "pending" /\ Heard(s)
  /\ ask' = [ask EXCEPT ![q].st = "answered"]
  /\ UNCHANGED <<row, link, registered, up, down, revoking, updating, updates, writeFailures, crossed>>

\* DaemonRegistration.revoke and revokeDaemon write the row ...
RevokeRow ==
  /\ row.status = "active"
  /\ row' = [row EXCEPT !.status = "revoked", !.presence = "offline"]
  /\ revoking' = "written"
  /\ UNCHANGED <<link, registered, up, down, ask, updating, updates, writeFailures, crossed>>

\* ... and close the registered socket when the executions' handlers are done, or failed.
Revoke ==
  /\ revoking = "written"
  /\ revoking' = "done"
  /\ link' = [s \in Sockets |->
       IF s = registered THEN [link[s] EXCEPT !.st = Closing(s)]
       ELSE [link[s] EXCEPT !.missed = link[s].st = "checked"]]
  /\ UNCHANGED <<row, registered, up, down, ask, updating, updates, writeFailures, crossed>>

\* updateDaemonPermissions writes the row ...
UpdateRow(execute) ==
  /\ row.status = "active" /\ updating = NoUpdate /\ updates < MaxUpdates
  /\ row' = [row EXCEPT !.execute = execute]
  /\ updating' = [pc |-> "written", execute |-> execute]
  /\ updates' = updates + 1
  /\ UNCHANGED <<link, registered, up, down, ask, revoking, writeFailures, crossed>>

\* Mutant: the sockets are left with the record they were accepted with.
KeepRecord(s) == link[s].execute
TakeRecord(s) == updating.execute

\* ... and replaces the record of the registered socket. One that is checked but not
\* yet accepted keeps what it read.
UpdateRegistry ==
  /\ updating.pc = "written"
  /\ updating' = NoUpdate
  /\ link' = [s \in Sockets |->
       IF s = registered THEN [link[s] EXCEPT !.execute = TakeRecord(s)]
       ELSE [link[s] EXCEPT !.missed = link[s].missed \/ link[s].st = "checked"]]
  /\ UNCHANGED <<row, registered, up, down, ask, revoking, updates, writeFailures, crossed>>

Next ==
  \/ \E s \in Sockets :
       \/ Upgrade(s) \/ Closed(s) \/ OfflineSent(s)
       \/ \E b \in BOOLEAN : Accept(s, b) \/ ServerInfo(s, b) \/ ConnectedWritten(s, b) \/ OfflineWritten(s, b)
  \/ \E q \in Asks : Ask(q) \/ Answer(q)
  \/ RevokeRow \/ Revoke \/ UpdateRegistry
  \/ \E execute \in BOOLEAN : UpdateRow(execute)

Spec == Init /\ [][Next]_vars

-----------------------------------------------------------------------------
(* Properties *)

\* Nobody waits on a connection that is gone: what is pending was asked of the
\* registered socket, whichever way the ones before it ended.
PendingIsOnTheLine == \A q \in Asks : ask[q].st = "pending" => ask[q].of = registered

\* When every write has settled and none failed or came after a later socket's (the
\* queries of two sockets are not ordered), the row says connected if a ready socket
\* is registered and offline if none is.
PresenceIsTrue ==
  (/\ ~crossed /\ writeFailures = 0 /\ revoking # "written"
   /\ \A s \in Sockets : up[s] # "sent" /\ down[s] \notin {"waiting", "sent"})
  => IF registered = None THEN row.presence = "offline"
     ELSE link[registered].ready /\ link[registered].st = "open" => row.presence = "connected"

\* A daemon is asked only what its row permits, and nothing once its revocation is
\* done, but by a socket that was between its check and its acceptance meanwhile.
AskedAsPermitted ==
  \A q \in Asks :
     ask[q].st = "free" /\ ask'[q].st = "pending" /\ ~link[registered].missed
       /\ updating = NoUpdate /\ link[registered].st = "open"
       => row.execute /\ revoking # "done"
=============================================================================
