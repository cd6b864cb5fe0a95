----------------------------- MODULE LockOrder -----------------------------
(***************************************************************************)
(* The locks that the database's transactions wait for, and the order in   *)
(* which each transaction asks for them (db/pg.ts, auth/api-keys.ts,       *)
(* auth/organization-access.ts, billing/index.ts,                          *)
(* provider-applications/internal/store.ts).                               *)
(*                                                                         *)
(* A section is one transaction, or one critical section of the process.   *)
(* It is modelled by the sequence of its locks alone: rows of one run with *)
(* its step, execution and wake-up, one API key with its tokens, one       *)
(* organization, advisory locks, the key queue of one process, and the     *)
(* connections of the pool, of which there are poolSize.  Every lock is    *)
(* held until the section ends.  A section may end early, after any lock   *)
(* (an early return, a denial, an error).                                  *)
(*                                                                         *)
(* The deadlines of three seconds on statements and on the pool are left   *)
(* out: the properties are about waits that only these deadlines end.      *)
(***************************************************************************)
EXTENDS Naturals, Sequences, FiniteSets, LockPlans

CONSTANTS Sections,   \* the transactions under way at one time
          PoolSizes   \* the sizes of the connection pool

VARIABLES poolSize,   \* connections of the pool
          at          \* per section: its kind and the number of locks it has

vars == <<poolSize, at>>

Kinds == DOMAIN Plan

Idle == [kind |-> "none", got |-> 0]

\* A pool has a connection.
OrderAssumption == PoolSizes \subseteq Nat \ {0}

TypeOK ==
    /\ poolSize \in PoolSizes
    /\ \A s \in Sections :
           \/ at[s] = Idle
           \/ at[s].kind \in Kinds /\ at[s].got \in 1 .. Len(Plan[at[s].kind])

-----------------------------------------------------------------------------
(* What a section holds and what it asks for next.                         *)

Held(s) == IF at[s] = Idle THEN {} ELSE { Plan[at[s].kind][i] : i \in 1 .. at[s].got }

(* The connections in the hands of s, by the place in its plan.            *)
Connections(s) ==
    IF at[s] = Idle THEN {}
    ELSE { <<s, i>> : i \in { j \in 1 .. at[s].got : Plan[at[s].kind][j] = Connection } }

Used(S) == Cardinality(UNION { Connections(s) : s \in S })

Asks(s) == at[s] # Idle /\ at[s].got < Len(Plan[at[s].kind])
Wanted(s) == Plan[at[s].kind][at[s].got + 1]

Compatible(m, n) == {m, n} \in { {"key"}, {"key", "write"} }

(* The sections other than s that hold the row or the advisory lock.       *)
Holders(s, lock) ==
    { t \in Sections \ {s} :
        \E held \in Held(t) : held[1] = lock[1] /\ ~Compatible(held[2], lock[2]) }

Free(s, lock) ==
    IF lock = Connection THEN Used(Sections) < poolSize ELSE Holders(s, lock) = {}

Init ==
    /\ poolSize \in PoolSizes
    /\ at = [s \in Sections |-> Idle]

(* A section that waits for its first lock holds none: it has not begun.   *)
Begin(s) ==
    /\ at[s] = Idle
    /\ \E k \in Kinds :
           /\ Free(s, Plan[k][1])
           /\ at' = [at EXCEPT ![s] = [kind |-> k, got |-> 1]]
    /\ UNCHANGED poolSize

Acquire(s) ==
    /\ Asks(s)
    /\ Free(s, Wanted(s))
    /\ at' = [at EXCEPT ![s].got = @ + 1]
    /\ UNCHANGED poolSize

(* A commit, an early return or an error, and the end of a section that    *)
(* skips a locked row: every lock is released.                             *)
Finish(s) ==
    /\ at[s] # Idle
    /\ Asks(s) => Free(s, Wanted(s)) \/ Wanted(s)[2] = "skip"
    /\ at' = [at EXCEPT ![s] = Idle]
    /\ UNCHANGED poolSize

Next == \E s \in Sections : Begin(s) \/ Acquire(s) \/ Finish(s)

Spec == Init /\ [][Next]_vars

-----------------------------------------------------------------------------
(* A section of S waits for one of S: for a holder of a row, or for a      *)
(* connection when all of them are in the hands of S.                      *)
WaitsWithin(s, S) ==
    /\ Asks(s) /\ ~Free(s, Wanted(s)) /\ Wanted(s)[2] # "skip"
    /\ IF Wanted(s) = Connection THEN Used(S) = poolSize ELSE Holders(s, Wanted(s)) \cap S # {}

Stuck(S) == S # {} /\ \A s \in S : WaitsWithin(s, S)

TakesTwoConnections(k) ==
    Cardinality({ i \in 1 .. Len(Plan[k]) : Plan[k][i] = Connection }) > 1

(* The sections known to leave the order of the others.                    *)
OutOfOrder == { "skipStep", "recoverWakeups", "enrollDaemon", "revokeKey" }

(* Sections wait for one another only when one of them is one of the four  *)
(* that take their locks against the order of the others, or one of those  *)
(* that ask for a second connection: all the other transactions of the     *)
(* engine, of the daemon lifecycle and of the organizations agree on one   *)
(* order ("lock the run, then step, then execution", pg.ts).               *)
WaitsAreOrdered ==
    \A S \in SUBSET Sections :
        Stuck(S) => \E s \in S : at[s].kind \in OutOfOrder \/ TakesTwoConnections(at[s].kind)

=============================================================================
