----------------------------- MODULE InstanceSetup -----------------------------
(***************************************************************************)
(* Who becomes the first operator of an instance                           *)
(* (src/src/instance-setup/index.ts): a person claims a pristine instance, *)
(* or a process bootstraps the owner its environment names, while people   *)
(* sign up and make organizations. Both take the row instance_bootstrap    *)
(* first; a claim then locks the tables of accounts and organizations.     *)
(***************************************************************************)
EXTENDS Integers, FiniteSets

CONSTANTS Claims,     \* interactive claims
          Starts,     \* processes that start with a bootstrap configured
          People,     \* people who sign up and make an organization
          Preserved,  \* organizations an earlier installation left, without members
          None

VARIABLES
  complete,   \* instance_bootstrap names an owner and is completed
  users,      \* accounts
  operators,  \* accounts that are instance operators
  owner,      \* per organization its owner, "nobody", or None where there is none
  caller,     \* per claim and start: how far its transaction is, and what it read
  inserting   \* people whose transaction holds the table of organizations

vars == <<complete, users, operators, owner, caller, inserting>>

Callers == Claims \cup Starts
Organizations == Callers \cup People \cup Preserved
Existing == {o \in Organizations : owner[o] # None}

\* The names are distinct: a claim is no start, and neither is a person or an older
\* organization.
SetupAssumption ==
  /\ Claims \cap Starts = {} /\ Callers \cap People = {} /\ Preserved \cap (Callers \cup People) = {}
  /\ None \notin Organizations /\ "nobody" \notin Callers \cup People /\ None # "nobody"

TypeOK ==
  /\ complete \in BOOLEAN
  /\ users \subseteq Callers \cup People /\ operators \subseteq users
  /\ owner \in [Organizations -> Callers \cup People \cup {"nobody", None}]
  /\ caller \in [Callers -> [at : {"idle", "row", "tables", "counted", "done"},
                             pristine : BOOLEAN, adopts : Organizations \cup {None}]]
  /\ inserting \subseteq People

Init ==
  /\ complete = FALSE /\ users = {} /\ operators = {} /\ inserting = {}
  /\ \E kept \in SUBSET Preserved :
       owner = [o \in Organizations |-> IF o \in kept THEN "nobody" ELSE None]
  /\ caller = [c \in Callers |-> [at |-> "idle", pristine |-> FALSE, adopts |-> None]]

To(c, at) == caller' = [caller EXCEPT ![c].at = at]

-----------------------------------------------------------------------------
(* The locks *)

\* Mutant: the row is read without its lock.
Unlocked(c) == TRUE
\* lockBootstrapRow: one transaction at a time
RowFree(c) == \A d \in Callers : caller[d].at \in {"idle", "done"}

\* Mutant: the tables are not locked.
NoTables == FALSE
\* PRISTINE_TABLES_LOCK conflicts with every insertion.
TablesLocked == \E c \in Claims : caller[c].at \in {"tables", "counted"}

LockRow(c) ==
  /\ caller[c].at = "idle" /\ RowFree(c) /\ To(c, "row")
  /\ UNCHANGED <<complete, users, operators, owner, inserting>>

\* A deadline, a crash or an error ends a transaction without effect.
RollBack(c) ==
  /\ caller[c].at \in {"row", "tables", "counted"} /\ To(c, "done")
  /\ UNCHANGED <<complete, users, operators, owner, inserting>>

-----------------------------------------------------------------------------
(* claim *)

LockTables(c) ==
  /\ c \in Claims /\ caller[c].at = "row" /\ inserting = {}
  /\ To(c, "tables")
  /\ UNCHANGED <<complete, users, operators, owner, inserting>>

\* setupStatus and tenantCounts
Count(c) ==
  /\ c \in Claims /\ caller[c].at = "tables"
  /\ caller' = [caller EXCEPT ![c].at = "counted",
        ![c].pristine = ~complete /\ users = {} /\ Existing = {}]
  /\ UNCHANGED <<complete, users, operators, owner, inserting>>

\* createOperatorAccount, provisionOrganization and completeBootstrap
CommitClaim(c) ==
  /\ c \in Claims /\ caller[c].at = "counted" /\ caller[c].pristine
  /\ users' = users \cup {c} /\ operators' = operators \cup {c}
  /\ owner' = [owner EXCEPT ![c] = c] /\ complete' = TRUE
  /\ To(c, "done") /\ UNCHANGED inserting

-----------------------------------------------------------------------------
(* initializeFromPolicy *)

\* Mutant: an organization that has members is taken over, too.
AnyOrganization == Existing
\* resolveBootstrapOrganization: the one that the configured name identifies. (That its
\* row is locked shows nowhere: nobody joins it before it has a member.)
Adoptable == {o \in Existing : owner[o] = "nobody"}

\* Without one there must be no organization at all.
Resolve(c) ==
  /\ c \in Starts /\ caller[c].at = "row" /\ ~complete
  /\ \/ \E o \in Adoptable :
          caller' = [caller EXCEPT ![c].at = "counted", ![c].adopts = o]
     \/ Existing = {} /\ To(c, "counted")
  /\ UNCHANGED <<complete, users, operators, owner, inserting>>

\* The rest of createBootstrapData, after the password was hashed, and completeBootstrap.
\* It inserts, so it waits for the tables like everyone.
CommitStart(c) ==
  /\ c \in Starts /\ caller[c].at = "counted" /\ ~TablesLocked
  /\ users' = users \cup {c} /\ operators' = operators \cup {c}
  /\ owner' = [owner EXCEPT ![IF caller[c].adopts = None THEN c ELSE caller[c].adopts] = c]
  /\ complete' = TRUE
  /\ To(c, "done") /\ UNCHANGED inserting

-----------------------------------------------------------------------------
(* Others *)

\* The authentication library makes an account.
SignUp(p) ==
  /\ p \notin users /\ ~TablesLocked
  /\ users' = users \cup {p}
  /\ UNCHANGED <<complete, operators, owner, caller, inserting>>

\* createOrganization
BeginOrganization(p) ==
  /\ p \in users \ inserting /\ owner[p] = None /\ ~TablesLocked
  /\ inserting' = inserting \cup {p}
  /\ UNCHANGED <<complete, users, operators, owner, caller>>

CommitOrganization(p) ==
  /\ p \in inserting /\ inserting' = inserting \ {p}
  /\ owner' = [owner EXCEPT ![p] = p]
  /\ UNCHANGED <<complete, users, operators, caller>>

Next ==
  \/ \E c \in Callers : LockRow(c) \/ RollBack(c) \/ LockTables(c) \/ Count(c) \/ CommitClaim(c)
                        \/ Resolve(c) \/ CommitStart(c)
  \/ \E p \in People : SignUp(p) \/ BeginOrganization(p) \/ CommitOrganization(p)

Spec == Init /\ [][Next]_vars

-----------------------------------------------------------------------------
\* However claims and starts of several processes overlap, the instance has one first
\* operator (InstanceSetup: "a claim can never race a startup bootstrap into two first
\* operators").
OneOperator == Cardinality(operators) <= 1

\* Completion, the operator and the operator's organization come together.
CompleteIsWhole ==
  complete <=> \E c \in operators : \E o \in Organizations : owner[o] = c

\* An instance is claimed only before anybody else is on it: no account and no
\* organization lands between the check and the commit.
ClaimedPristine ==
  \A c \in operators' \ operators : c \in Claims => users = {} /\ Existing = {}

\* Nobody loses an organization to a bootstrap.
OwnersStay ==
  \A o \in Organizations : owner[o] \notin {"nobody", None} => owner'[o] = owner[o]
=============================================================================
