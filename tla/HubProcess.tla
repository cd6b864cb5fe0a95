------------------------------ MODULE HubProcess ------------------------------
(***************************************************************************)
(* A Hub process from its start to its end (src/src/index.ts,              *)
(* server/runtime.ts, composition-resources.ts) and the lock file that     *)
(* lets one process use the embedded database's directory                  *)
(* (db/runtime/internal/data-directory-lock.ts).                           *)
(***************************************************************************)
EXTENDS Integers, FiniteSets

CONSTANTS Processes, \* places a Hub is started in: a container, a service
          Pids,      \* the process ids the system hands out
          MaxStarts, \* starts of each (bound)
          None

VARIABLES
  lock,     \* the lock file, with the start that made it, or None
  at,       \* per process where it is
  starts,   \* how often each was started
  pid,      \* the id of its last start
  seen,     \* the file as the process read it before it removes it
  line,     \* what is connected to it: one connection stands for all
  runtime,  \* globalThis.paseoHubApplicationRuntime
  overtaken \* history: a file was removed that is not the one judged stale, or
            \* before its living owner had written it

vars == <<lock, at, starts, pid, seen, line, runtime, overtaken>>

Files == [by : Processes, start : 1..MaxStarts, pid : Pids, written : BOOLEAN]

Acquiring == {"opening", "created", "reading", "removing"}
\* It has the database open.
Using == {"owner", "serving", "closing", "stopping"}
Ending == {"releasing", "unlinking"}
Alive(p) == at[p] \in Acquiring \cup Using \cup Ending

\* Nobody is no file.
ProcessAssumption == MaxStarts \in Nat /\ None \notin Files

TypeOK ==
  /\ lock \in Files \cup {None} /\ seen \in [Processes -> Files \cup {None}]
  /\ at \in [Processes -> Acquiring \cup Using \cup Ending \cup {"down", "refused", "exited"}]
  /\ starts \in [Processes -> 0..MaxStarts] /\ pid \in [Processes -> Pids \cup {0}]
  /\ line \in [Processes -> {"none", "open", "daemon"}]
  /\ runtime \in [Processes -> {"none", "first", "again"}]
  /\ overtaken \in BOOLEAN

Init ==
  /\ lock = None /\ overtaken = FALSE
  /\ at = [p \in Processes |-> "down"] /\ starts = [p \in Processes |-> 0]
  /\ pid = [p \in Processes |-> 0] /\ seen = [p \in Processes |-> None]
  /\ line = [p \in Processes |-> "none"] /\ runtime = [p \in Processes |-> "none"]

To(p, place) == at' = [at EXCEPT ![p] = place]
MadeBy(file, p) == file # None /\ file.by = p /\ file.start = starts[p]
LivingMaker(file) == file # None /\ \E p \in Processes : Alive(p) /\ MadeBy(file, p)

-----------------------------------------------------------------------------
(* acquireDataDirectoryLock *)

\* main: the system gives the process an id that no living process has.
Launch(p) ==
  /\ ~Alive(p) /\ starts[p] < MaxStarts
  /\ \E k \in Pids : (\A q \in Processes : Alive(q) => pid[q] # k) /\ pid' = [pid EXCEPT ![p] = k]
  /\ starts' = [starts EXCEPT ![p] = @ + 1]
  /\ runtime' = [runtime EXCEPT ![p] = "first"] /\ To(p, "opening")
  /\ UNCHANGED <<lock, seen, line, overtaken>>

\* The file is created unless it exists.
Open(p) ==
  /\ at[p] = "opening"
  /\ IF lock = None
     THEN /\ lock' = [by |-> p, start |-> starts[p], pid |-> pid[p], written |-> FALSE]
          /\ To(p, "created")
     ELSE To(p, "reading") /\ UNCHANGED lock
  /\ UNCHANGED <<starts, pid, seen, line, runtime, overtaken>>

\* The owner is written, into a file that may have been removed meanwhile.
Write(p) ==
  /\ at[p] = "created" /\ To(p, "owner")
  /\ lock' = IF MadeBy(lock, p) THEN [lock EXCEPT !.written = TRUE] ELSE lock
  /\ UNCHANGED <<starts, pid, seen, line, runtime, overtaken>>

\* Mutant: only a process of one's own is known to run.
OwnOnly(p, k) == pid[p] = k
\* processIsRunning: some process has the id, be it the one that asks.
ProcessIsRunning(p, k) == \E q \in Processes : Alive(q) /\ pid[q] = k

\* readLockOwner, which gives up on a file that stays unwritten for 100 ms
ReadOwner(p) ==
  /\ at[p] = "reading"
  /\ IF lock # None /\ lock.written /\ ProcessIsRunning(p, lock.pid)
     THEN /\ To(p, "refused") /\ runtime' = [runtime EXCEPT ![p] = "none"]
          /\ UNCHANGED seen
     ELSE To(p, "removing") /\ seen' = [seen EXCEPT ![p] = lock] /\ UNCHANGED runtime
  /\ UNCHANGED <<lock, starts, pid, line, overtaken>>

\* The file is removed, whichever it is by now, and the process tries again.
Remove(p) ==
  /\ at[p] = "removing" /\ To(p, "opening")
  /\ lock' = None /\ seen' = [seen EXCEPT ![p] = None]
  /\ overtaken' = (overtaken \/ (LivingMaker(lock) /\ (lock # seen[p] \/ ~lock.written)))
  /\ UNCHANGED <<starts, pid, line, runtime>>

-----------------------------------------------------------------------------
(* createProductionRuntime *)

\* Mutant: a failed start leaves what it has acquired.
Abandoned == "exited"
\* The resources acquired so far are closed.
AfterFailure == "releasing"
StartFails(p) ==
  /\ at[p] = "owner" /\ To(p, AfterFailure)
  /\ runtime' = [runtime EXCEPT ![p] = "none"]
  /\ UNCHANGED <<lock, starts, pid, seen, line, overtaken>>

\* The server listens.
Serve(p) ==
  /\ at[p] = "owner" /\ To(p, "serving")
  /\ UNCHANGED <<lock, starts, pid, seen, line, runtime, overtaken>>

Connect(p) ==
  /\ at[p] = "serving" /\ line[p] = "none" /\ line' = [line EXCEPT ![p] = "open"]
  /\ UNCHANGED <<lock, at, starts, pid, seen, runtime, overtaken>>

\* handleDaemonUpgrade: startApplication makes a runtime if there is none.
Upgrade(p) ==
  /\ Alive(p) /\ line[p] = "open" /\ line' = [line EXCEPT ![p] = "daemon"]
  /\ runtime' = [runtime EXCEPT ![p] = IF @ = "none" THEN "again" ELSE @]
  /\ UNCHANGED <<lock, at, starts, pid, seen, overtaken>>

Leave(p) ==
  /\ line[p] # "none" /\ line' = [line EXCEPT ![p] = "none"]
  /\ UNCHANGED <<lock, at, starts, pid, seen, runtime, overtaken>>

-----------------------------------------------------------------------------
(* The end *)

\* A first signal: the server accepts no more connections.
Signal(p) ==
  /\ at[p] = "serving" /\ To(p, "closing")
  /\ UNCHANGED <<lock, starts, pid, seen, line, runtime, overtaken>>

\* Mutant: the server does not wait for its connections.
AtOnce(p) == TRUE
\* server.close is done when every connection has ended, a daemon's among them.
ConnectionsEnded(p) == line[p] = "none"

\* stopApplication forgets the runtime before it stops it.
Closed(p) ==
  /\ at[p] = "closing" /\ ConnectionsEnded(p) /\ To(p, "stopping")
  /\ runtime' = [runtime EXCEPT ![p] = "none"]
  /\ UNCHANGED <<lock, starts, pid, seen, line, overtaken>>

\* CompositionResources.close: the hub, then what else there is, the database last; an
\* error does not keep the others open.
Stopped(p) ==
  /\ at[p] = "stopping" /\ To(p, "releasing")
  /\ UNCHANGED <<lock, starts, pid, seen, line, runtime, overtaken>>

\* release: the token is read before the file is removed.
OwnFile(p) == MadeBy(lock, p) /\ lock.written

Release(p) ==
  /\ at[p] = "releasing" /\ To(p, IF OwnFile(p) THEN "unlinking" ELSE "exited")
  /\ UNCHANGED <<lock, starts, pid, seen, line, runtime, overtaken>>

Unlink(p) ==
  /\ at[p] = "unlinking" /\ To(p, "exited") /\ lock' = None
  /\ UNCHANGED <<starts, pid, seen, line, runtime, overtaken>>

\* A crash, a second signal, or one before the handlers are installed
Crash(p) ==
  /\ Alive(p) /\ To(p, "down")
  /\ line' = [line EXCEPT ![p] = "none"] /\ runtime' = [runtime EXCEPT ![p] = "none"]
  /\ seen' = [seen EXCEPT ![p] = None]
  /\ UNCHANGED <<lock, starts, pid, overtaken>>

Next ==
  \E p \in Processes :
    \/ Launch(p) \/ Open(p) \/ Write(p) \/ ReadOwner(p) \/ Remove(p)
    \/ StartFails(p) \/ Serve(p) \/ Connect(p) \/ Upgrade(p) \/ Leave(p)
    \/ Signal(p) \/ Closed(p) \/ Stopped(p) \/ Release(p) \/ Unlink(p) \/ Crash(p)

Spec == Init /\ [][Next]_vars

-----------------------------------------------------------------------------
(* Properties *)

\* One process uses the directory (README.md: "one Hub process per data directory") as
\* long as nobody removes the file that has replaced the one it judged stale.
OwnedAlone == overtaken \/ \A p, q \in Processes : at[p] \in Using /\ at[q] \in Using => p = q

\* A process that ends by itself, however its start went, leaves no file behind, which
\* the next start might take for a living owner's.
LeavesNoFile == \A p \in Processes : at[p] \in {"exited", "refused"} => ~MadeBy(lock, p)

\* Once stopped, a process makes no second runtime for a daemon that comes late.
StoppedForGood == \A p \in Processes : runtime[p] # "again"
=============================================================================
