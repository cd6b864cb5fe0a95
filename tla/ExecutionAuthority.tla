--------------------------- MODULE ExecutionAuthority ---------------------------
(***************************************************************************)
(* The temporary credentials of one execution                              *)
(* (src/src/execution-authority/index.ts and its internal/store.ts). Each  *)
(* launch materializes the environment once; of launches that overlap, in  *)
(* one process or two, the first to commit wins. A token has a durable     *)
(* lease before it can enter an environment, and is revoked at the lease's *)
(* deadline or when the execution ends.                                    *)
(***************************************************************************)
EXTENDS Integers, FiniteSets

CONSTANTS Launches,     \* each mints one token
          Procs,
          Hosts,        \* the processes that may see the execution end
          Home,         \* the process of a launch
          MaxFaults,    \* bound: calls and writes that fail, stops, crashes, deadlines
          None

VARIABLES
  active,   \* the execution is spawning or running
  proc,
  flag,     \* pending's "terminal" of each process
  ending,   \* onExecutionTerminal of each process
  launch,   \* where materialize is
  found,    \* the record that a launch resumes or was answered
  returned, \* the environment that materialize returned
  record,   \* execution_authorities: whose environment was committed
  lease,    \* execution_credential_leases
  token,    \* at the provider
  due,      \* leases past their deadline
  timers,   \* per process the leases it will look at
  release,  \* per process and lease: the release under way
  faults,
  astray    \* history: tokens whose lease was never written

vars == <<active, proc, flag, ending, launch, found, returned, record, lease, token, due,
          timers, release, faults, astray>>

Where == {"idle", "asserted", "resuming", "minted", "registered", "ready", "committed",
          "failing", "done"}

\* Every launch is in a process.
AuthorityAssumption ==
  None \notin Launches /\ Home \in [Launches -> Procs] /\ Hosts \subseteq Procs /\ MaxFaults \in Nat

TypeOK ==
  /\ active \in BOOLEAN /\ proc \in [Procs -> {"up", "stopped", "down"}]
  /\ flag \in [Procs -> BOOLEAN] /\ ending \in [Procs -> {"none", "owed", "removed"}]
  /\ launch \in [Launches -> Where]
  /\ found \in [Launches -> Launches \cup {None}]
  /\ returned \in [Launches -> Launches \cup {None}] /\ record \in Launches \cup {None}
  /\ lease \in [Launches -> {"none", "live", "revoking"}]
  /\ token \in [Launches -> {"none", "valid", "revoked"}]
  /\ due \subseteq Launches /\ astray \subseteq Launches
  /\ timers \in [Procs -> SUBSET Launches]
  /\ release \in [Procs -> [Launches -> {"none", "asked", "calling"}]]
  /\ faults \in 0 .. MaxFaults

Init ==
  /\ active = TRUE /\ proc = [p \in Procs |-> "up"] /\ flag = [p \in Procs |-> FALSE]
  /\ ending = [p \in Procs |-> "none"] /\ launch = [m \in Launches |-> "idle"]
  /\ found = [m \in Launches |-> None] /\ returned = [m \in Launches |-> None]
  /\ record = None /\ lease = [m \in Launches |-> "none"]
  /\ token = [m \in Launches |-> "none"] /\ due = {} /\ astray = {}
  /\ timers = [p \in Procs |-> {}]
  /\ release = [p \in Procs |-> [m \in Launches |-> "none"]] /\ faults = 0

Fault == faults < MaxFaults /\ faults' = faults + 1
Running(m) == proc[Home[m]] # "down" /\ launch[m] \notin {"idle", "done"}
Pending(p) == {m \in Launches : Home[m] = p /\ Running(m)}

\* The release of these leases is asked for in process p, whatever their deadline.
Requested(p, ms) ==
  release' = [release EXCEPT ![p] = [m \in Launches |->
      IF m \in ms /\ @[m] # "calling" THEN "asked" ELSE @[m]]]

-----------------------------------------------------------------------------
(* materialize *)

\* Mutant: only the flag of the process is looked at.
Unflagged(m) == ~flag[Home[m]]
\* assertActive
Live(m) == active /\ ~flag[Home[m]] /\ proc[Home[m]] = "up"

Goes(m, at) == launch' = [launch EXCEPT ![m] = at]

\* A launch begins; the object it shares with the others of its process is new when it is
\* the first.
Begin(m) ==
  /\ launch[m] = "idle" /\ proc[Home[m]] = "up"
  /\ flag' = IF Pending(Home[m]) = {} THEN [flag EXCEPT ![Home[m]] = FALSE] ELSE flag
  /\ Goes(m, "asserted")
  /\ UNCHANGED <<active, proc, ending, found, returned, record, lease, token, due, timers,
                 release, faults, astray>>

\* The record is read: resumed when its lease is good (canResume), else minted.
ReadRecord(m) ==
  /\ Running(m) /\ launch[m] = "asserted"
  /\ LET p == Home[m]
         good == lease[record] = "live" /\ record \notin due IN
     \/ ~Live(m) /\ Goes(m, "failing") /\ UNCHANGED <<found, token, timers>>
     \/ /\ Live(m) /\ record = None /\ Goes(m, "minted")
        /\ token' = [token EXCEPT ![m] = "valid"] /\ UNCHANGED <<found, timers>>
     \/ /\ Live(m) /\ record # None /\ good /\ Goes(m, "resuming")
        /\ found' = [found EXCEPT ![m] = record]
        /\ timers' = [timers EXCEPT ![p] = @ \cup {l \in Launches : lease[l] # "none"}]
        /\ UNCHANGED token
     \/ Live(m) /\ record # None /\ ~good /\ Goes(m, "failing") /\ UNCHANGED <<found, token, timers>>
  /\ UNCHANGED <<active, proc, flag, ending, returned, record, lease, due, release, faults, astray>>

\* register: the lease is saved, its timer set. In a process that learnt of the end or
\* stopped meanwhile the token is released at once.
Register(m) ==
  LET p == Home[m] IN
  /\ Running(m) /\ launch[m] = "minted"
  /\ lease' = [lease EXCEPT ![m] = "live"]
  /\ timers' = IF proc[p] = "up" THEN [timers EXCEPT ![p] = @ \cup {m}] ELSE timers
  /\ IF flag[p] \/ proc[p] # "up" THEN Requested(p, {m}) /\ Goes(m, "failing")
     ELSE Goes(m, "registered") /\ UNCHANGED release
  /\ UNCHANGED <<active, proc, flag, ending, found, returned, record, token, due, faults, astray>>

\* The lease is not saved: its token is revoked, if the provider answers.
RegisterFails(m) ==
  /\ Running(m) /\ launch[m] = "minted" /\ Fault
  /\ \/ token' = [token EXCEPT ![m] = "revoked"] /\ UNCHANGED astray
     \/ astray' = astray \cup {m} /\ UNCHANGED token
  /\ Goes(m, "failing")
  /\ UNCHANGED <<active, proc, flag, ending, found, returned, record, lease, due, timers, release>>

Recheck(m) ==
  /\ Running(m) /\ launch[m] = "registered"
  /\ Goes(m, IF Live(m) THEN "ready" ELSE "failing")
  /\ UNCHANGED <<active, proc, flag, ending, found, returned, record, lease, token, due, timers,
                 release, faults, astray>>

\* Mutant: the environment just built is the answer.
Own(m) == m
\* store.commit answers with what is stored
Stored(m) == IF record = None THEN m ELSE record

\* commit, and the release of a token that lost
Commit(m) ==
  /\ Running(m) /\ launch[m] = "ready"
  /\ record' = IF record = None THEN m ELSE record
  /\ found' = [found EXCEPT ![m] = Stored(m)]
  /\ IF record' = m THEN UNCHANGED release ELSE Requested(Home[m], {m})
  /\ Goes(m, "committed")
  /\ UNCHANGED <<active, proc, flag, ending, returned, lease, token, due, timers, faults, astray>>

\* The answer of commit is lost, or the read after it finds nothing.
CommitFails(m) ==
  /\ Running(m) /\ launch[m] = "ready" /\ Fault
  /\ record' \in {record, IF record = None THEN m ELSE record}
  /\ Goes(m, "failing")
  /\ UNCHANGED <<active, proc, flag, ending, found, returned, lease, token, due, timers, release,
                 astray>>

\* assertActive once more, and the answer
Return(m) ==
  /\ Running(m) /\ launch[m] \in {"resuming", "committed"}
  /\ IF Live(m) THEN Goes(m, "done") /\ returned' = [returned EXCEPT ![m] = found[m]]
     ELSE Goes(m, "failing") /\ UNCHANGED returned
  /\ UNCHANGED <<active, proc, flag, ending, found, record, lease, token, due, timers, release,
                 faults, astray>>

\* Mutant: whatever the launch minted is given back.
Everything(m) == {m}
\* what was committed is kept for delivery
Uncommitted(m) == {m} \ {record}

\* The catch block: of an execution that ended everything goes, else what is unused.
CatchError(m) ==
  LET p == Home[m] IN
  /\ Running(m) /\ launch[m] = "failing" /\ Goes(m, "done")
  /\ IF flag[p] \/ ~active
     THEN ending' = [ending EXCEPT ![p] = "owed"] /\ UNCHANGED release
     ELSE UNCHANGED ending /\ Requested(p, {l \in Uncommitted(m) : lease[l] # "none"})
  /\ UNCHANGED <<active, proc, flag, found, returned, record, lease, token, due, timers, faults,
                 astray>>

-----------------------------------------------------------------------------
(* onExecutionTerminal *)

\* The execution ends; the process that ended it tells its authority.
End(p) ==
  /\ active /\ proc[p] = "up"
  /\ active' = FALSE /\ ending' = [ending EXCEPT ![p] = "owed"]
  /\ UNCHANGED <<proc, flag, launch, found, returned, record, lease, token, due, timers, release,
                 faults, astray>>

RemoveRecord(p) ==
  /\ ending[p] = "owed" /\ proc[p] # "down"
  /\ flag' = IF Pending(p) # {} THEN [flag EXCEPT ![p] = TRUE] ELSE flag
  /\ record' = None /\ ending' = [ending EXCEPT ![p] = "removed"]
  /\ UNCHANGED <<active, proc, launch, found, returned, lease, token, due, timers, release,
                 faults, astray>>

ReleaseLeases(p) ==
  /\ ending[p] = "removed" /\ proc[p] # "down"
  /\ Requested(p, {m \in Launches : lease[m] # "none"})
  /\ ending' = [ending EXCEPT ![p] = "none"]
  /\ UNCHANGED <<active, proc, flag, launch, found, returned, record, lease, token, due, timers,
                 faults, astray>>

-----------------------------------------------------------------------------
(* release, under the lease's advisory lock *)

\* A lease's timer fires: at its deadline, or when a revocation is to be tried again.
Fire(p, m) ==
  /\ m \in timers[p] /\ proc[p] = "up" /\ release[p][m] = "none"
  /\ m \in due \/ lease[m] = "revoking"
  /\ timers' = [timers EXCEPT ![p] = @ \ {m}]
  /\ release' = [release EXCEPT ![p][m] = "asked"]
  /\ UNCHANGED <<active, proc, flag, ending, launch, found, returned, record, lease, token, due,
                 faults, astray>>

\* The lease is read again under the lock, and that it is being revoked is saved.
TakeLock(p, m) ==
  /\ proc[p] # "down" /\ release[p][m] = "asked"
  /\ \A q \in Procs : release[q][m] # "calling"
  /\ IF lease[m] = "none"
     THEN release' = [release EXCEPT ![p][m] = "none"] /\ UNCHANGED lease
     ELSE /\ release' = [release EXCEPT ![p][m] = "calling"]
          /\ lease' = [lease EXCEPT ![m] = "revoking"]
  /\ UNCHANGED <<timers, active, proc, flag, ending, launch, found, returned, record, token, due, faults,
                 astray>>

\* (Timers that other processes have for the lease find nothing when they fire.)
Revoked(p, m) ==
  /\ proc[p] # "down" /\ release[p][m] = "calling"
  /\ token' = [token EXCEPT ![m] = "revoked"] /\ lease' = [lease EXCEPT ![m] = "none"]
  /\ release' = [release EXCEPT ![p][m] = "none"]
  /\ timers' = [q \in Procs |-> timers[q] \ {m}]
  /\ UNCHANGED <<active, proc, flag, ending, launch, found, returned, record, due, faults, astray>>

\* Mutant: a failed revocation drops the lease.
Dropped(m) == "none"
Kept(m) == lease[m]

\* The provider fails or does not answer: the lease stays for another try.
RevocationFails(p, m) ==
  /\ proc[p] # "down" /\ release[p][m] = "calling" /\ Fault
  /\ release' = [release EXCEPT ![p][m] = "none"]
  /\ lease' = [lease EXCEPT ![m] = Kept(m)]
  /\ timers' = IF proc[p] = "up" THEN [timers EXCEPT ![p] = @ \cup {m}] ELSE timers
  /\ UNCHANGED <<active, proc, flag, ending, launch, found, returned, record, token, due, astray>>

\* The deadline of a lease passes.
Expire(m) ==
  /\ lease[m] # "none" /\ m \notin due /\ Fault
  /\ due' = due \cup {m}
  /\ UNCHANGED <<active, proc, flag, ending, launch, found, returned, record, lease, token, timers,
                 release, astray>>

-----------------------------------------------------------------------------
(* Processes *)

Stop(p) ==
  /\ proc[p] = "up" /\ Fault /\ proc' = [proc EXCEPT ![p] = "stopped"]
  /\ timers' = [timers EXCEPT ![p] = {}]
  /\ UNCHANGED <<active, flag, ending, launch, found, returned, record, lease, token, due, release,
                 astray>>

\* The process goes, with everything it was doing and the locks it had.
Gone(p) ==
  /\ proc' = [proc EXCEPT ![p] = "down"]
  /\ timers' = [timers EXCEPT ![p] = {}] /\ flag' = [flag EXCEPT ![p] = FALSE]
  /\ ending' = [ending EXCEPT ![p] = "none"]
  /\ release' = [release EXCEPT ![p] = [m \in Launches |-> "none"]]
  /\ launch' = [m \in Launches |-> IF m \in Pending(p) THEN "done" ELSE launch[m]]
  /\ astray' = astray \cup {m \in Pending(p) : launch[m] = "minted"}
  /\ UNCHANGED <<active, found, returned, record, lease, token, due>>

Exit(p) == proc[p] = "stopped" /\ Gone(p) /\ UNCHANGED faults
Crash(p) == proc[p] = "up" /\ Fault /\ Gone(p)

\* Mutant: what is not yet due is left alone.
RecoversDue(p) ==
  /\ UNCHANGED ending
  /\ release' = [release EXCEPT ![p] = [m \in Launches |->
        IF lease[m] # "none" /\ m \in due THEN "asked" ELSE "none"]]

\* recover, of an execution that is over and of one that is not
Recovers(p) ==
  IF active
  THEN /\ UNCHANGED ending
       /\ release' = [release EXCEPT ![p] = [m \in Launches |->
             IF lease[m] = "revoking" \/ (lease[m] = "live" /\ m \in due) THEN "asked" ELSE "none"]]
  ELSE ending' = [ending EXCEPT ![p] = "owed"] /\ UNCHANGED release

Start(p) ==
  /\ proc[p] = "down" /\ proc' = [proc EXCEPT ![p] = "up"]
  /\ Recovers(p)
  /\ timers' = [timers EXCEPT ![p] =
        IF active THEN {m \in Launches : lease[m] = "live" /\ m \notin due} ELSE {}]
  /\ UNCHANGED <<active, flag, launch, found, returned, record, lease, token, due, faults, astray>>

-----------------------------------------------------------------------------
Materialize(m) ==
  \/ ReadRecord(m) \/ Register(m) \/ Recheck(m) \/ Commit(m) \/ Return(m) \/ CatchError(m)

Work(p) == RemoveRecord(p) \/ ReleaseLeases(p) \/ Exit(p) \/ Start(p)
Revoke(p, m) == Fire(p, m) \/ TakeLock(p, m) \/ Revoked(p, m)

Next ==
  \/ \E m \in Launches :
       Begin(m) \/ Materialize(m) \/ RegisterFails(m) \/ CommitFails(m) \/ Expire(m)
  \/ \E p \in Hosts : End(p)
  \/ \E p \in Procs : Work(p) \/ Stop(p) \/ Crash(p)
  \/ \E p \in Procs, m \in Launches : Revoke(p, m) \/ RevocationFails(p, m)

\* Calls return, processes that stopped or crashed start again. None of this can go on
\* for ever beside something that waits.
Proceeding ==
  \/ \E m \in Launches : Materialize(m)
  \/ \E p \in Procs : Work(p)
  \/ \E p \in Procs, m \in Launches : Revoke(p, m)
Fairness == WF_vars(Proceeding)

Spec == Init /\ [][Next]_vars /\ Fairness

-----------------------------------------------------------------------------
\* The credentials that were committed stay good while the execution lives and their
\* deadline has not passed, whatever becomes of the other launches and processes
\* (materialize: "keep its environment and revoke only our unused tokens").
CommittedIsGood ==
  \A m \in Launches :
    record = m /\ active /\ m \notin due => lease[m] = "live" /\ token[m] = "valid"

\* Launches that overlap are given the same environment.
OneEnvironment ==
  \A m, l \in Launches :
    returned[m] # None /\ returned[l] # None => returned[m] = returned[l]

\* A token the provider still honours has its lease, save between the provider's answer
\* and the row, and where a crash or a double failure came between (register, release).
TokensAreLeased ==
  \A m \in Launches :
    token[m] = "valid" => lease[m] # "none" \/ launch[m] = "minted" \/ m \in astray

\* When the execution has ended, no environment is kept and every leased token is
\* revoked in the end, without waiting for its deadline.
NothingIsKept == <>[](active \/ (record = None /\ \A m \in Launches : lease[m] = "none"))
=============================================================================
