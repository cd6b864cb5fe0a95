------------------------------ MODULE Credentials ------------------------------
(***************************************************************************)
(* How a machine comes to act for an organization: a command line is       *)
(* authorized by a person and polls for its credential                     *)
(* (src/src/cli-authorizations/index.ts), a credential or an API key       *)
(* issues enrollment tokens, and a token enrolls one daemon                *)
(* (src/src/db/pg.ts). Each operation is one transaction; requests are     *)
(* repeated, answers are lost, and rights end between two of them.         *)
(***************************************************************************)
EXTENDS Integers, FiniteSets

CONSTANTS Clis,     \* command lines that ask to be authorized
          Key,      \* an API key
          Tokens,   \* enrollment tokens
          Daemons,  \* daemons that enroll, each with its idempotency key
          None, Nobody

VARIABLES
  authorization, \* cli_authorizations
  admin,         \* whether the person still is an owner or administrator
  credential,    \* organization_cli_credentials and the API key
  authorized,    \* requests to issue a token that were authenticated
  token,         \* daemon_enrollment_tokens
  overdue,       \* authorizations and tokens past expires_at
  machine,       \* the sprite's machine that was made with the key
  daemon,        \* the token a daemon enrolled with
  denied         \* history: authorizations that were denied

vars == <<authorization, admin, credential, authorized, token, overdue, machine, daemon, denied>>

Issuers == Clis \cup {Key}

\* The names are distinct: a key is no command line, a token neither, and nobody is one.
CredentialsAssumption ==
  /\ Key \notin Clis /\ Nobody \notin Issuers
  /\ Clis \cap Tokens = {} /\ None \notin Tokens

TypeOK ==
  /\ authorization \in [Clis -> {"none", "pending", "approved", "denied", "expired", "disclosed"}]
  /\ credential \in [Issuers -> {"none", "live", "revoked"}] /\ authorized \subseteq Issuers
  /\ token \in [Tokens -> [st : {"none", "issued", "consumed"}, by : Issuers \cup {Nobody}]]
  /\ overdue \subseteq Clis \cup Tokens /\ machine \in {"spawning", "alive", "none"}
  /\ daemon \in [Daemons -> Tokens \cup {None}]
  /\ denied \subseteq Clis /\ admin \in BOOLEAN

Init ==
  /\ authorization = [c \in Clis |-> "none"] /\ admin = TRUE
  /\ credential = [i \in Issuers |-> IF i = Key THEN "live" ELSE "none"] /\ authorized = {}
  /\ token = [t \in Tokens |-> [st |-> "none", by |-> Nobody]]
  /\ overdue = {} /\ machine \in {"spawning", "none"}
  /\ daemon = [d \in Daemons |-> None] /\ denied = {}

-----------------------------------------------------------------------------
(* Authorization of a command line *)

\* startCliAuthorization
Start(c) ==
  /\ authorization[c] = "none"
  /\ authorization' = [authorization EXCEPT ![c] = "pending"]
  /\ UNCHANGED <<admin, credential, authorized, token, overdue, machine, daemon, denied>>

\* Mutant: whatever was not disclosed can be decided again.
Undisclosed(c) == authorization[c] \in {"pending", "approved", "denied"}
Decidable(c) == authorization[c] = "pending" /\ c \notin overdue

\* decideCliAuthorization
Decide(c, decision) ==
  /\ Decidable(c) /\ admin
  /\ authorization' = [authorization EXCEPT ![c] = decision]
  /\ denied' = IF decision = "denied" THEN denied \cup {c} ELSE denied
  /\ UNCHANGED <<admin, credential, authorized, token, overdue, machine, daemon>>

\* inspectCliAuthorization, by a page that comes too late
Inspect(c) ==
  /\ c \in overdue /\ authorization[c] \in {"pending", "approved"}
  /\ authorization' = [authorization EXCEPT ![c] = "expired"]
  /\ UNCHANGED <<admin, credential, authorized, token, overdue, machine, daemon, denied>>

\* pollCliAuthorization: in time and not too early, an approval becomes a credential,
\* and the answer with it may be lost. (The time past which a request expires
\* overrides how it ended.)
Poll(c) ==
  /\ authorization[c] # "none"
  /\ IF c \in overdue
     THEN authorization' = [authorization EXCEPT ![c] = "expired"] /\ UNCHANGED credential
     ELSE /\ authorization[c] = "approved"
          /\ authorization' = [authorization EXCEPT ![c] = "disclosed"]
          /\ credential' = [credential EXCEPT ![c] = "live"]
  /\ UNCHANGED <<admin, authorized, token, overdue, machine, daemon, denied>>

Demote ==
  /\ admin
  /\ admin' = FALSE
  /\ UNCHANGED <<authorization, credential, authorized, token, overdue, machine, daemon, denied>>

Expire(x) ==
  /\ x \notin overdue
  /\ IF x \in Clis THEN authorization[x] # "none" ELSE token[x].st # "none"
  /\ overdue' = overdue \cup {x}
  /\ UNCHANGED <<authorization, admin, credential, authorized, token, machine, daemon, denied>>

-----------------------------------------------------------------------------
(* Enrollment *)

\* authorize: the credential is not revoked when its last use is written.
Authorize(i) ==
  /\ credential[i] = "live" /\ i \notin authorized
  /\ authorized' = authorized \cup {i}
  /\ UNCHANGED <<authorization, admin, credential, token, overdue, machine, daemon, denied>>

\* Mutant: the issuer was looked at when the request came in.
AuthorizedBefore(i) == TRUE
\* The credential's row is locked and looked at again.
StillLive(i) == credential[i] = "live"

\* issueEnrollmentToken, or its refusal
Issue(i, t) ==
  /\ i \in authorized /\ token[t].st = "none"
  /\ authorized' = authorized \ {i}
  /\ token' = IF StillLive(i) THEN [token EXCEPT ![t] = [st |-> "issued", by |-> i]] ELSE token
  /\ UNCHANGED <<authorization, admin, credential, overdue, machine, daemon, denied>>

OpenOf(i) == {t \in Tokens : token[t] = [st |-> "issued", by |-> i]}

\* Mutant: the tokens that a key has issued stay valid.
OutlivingKey(i) == overdue
\* Only a key takes its tokens along.
EndedWith(i) == IF i = Key THEN overdue \cup OpenOf(i) ELSE overdue

\* OrganizationApiKeys.revoke and OrganizationCliCredentials.revoke
Revoke(i) ==
  /\ credential[i] = "live" /\ admin
  /\ credential' = [credential EXCEPT ![i] = "revoked"]
  /\ overdue' = EndedWith(i)
  /\ UNCHANGED <<authorization, admin, authorized, token, machine, daemon, denied>>

\* Mutant: a token is looked up, not used up.
Unexpired(t) == token[t].st # "none" /\ t \notin overdue
Consumable(t) == token[t].st = "issued" /\ t \notin overdue

\* enrollDaemon: a daemon that repeats its request finds itself (no step); the first
\* daemon of a sprite's key takes the machine over, and ends the key and its tokens.
Enroll(d, t) ==
  LET takesOver == token[t].by = Key /\ machine = "spawning" IN
  /\ daemon[d] = None /\ Consumable(t)
  /\ daemon' = [daemon EXCEPT ![d] = t]
  /\ token' = [token EXCEPT ![t].st = "consumed"]
  /\ IF takesOver
     THEN /\ machine' = "alive"
          /\ credential' = [credential EXCEPT ![Key] = "revoked"]
          /\ overdue' = overdue \cup (OpenOf(Key) \ {t})
     ELSE UNCHANGED <<machine, credential, overdue>>
  /\ UNCHANGED <<authorization, admin, authorized, denied>>

Next ==
  \/ \E c \in Clis : Start(c) \/ Poll(c) \/ Inspect(c) \/ \E decision \in {"approved", "denied"} : Decide(c, decision)
  \/ \E x \in Clis \cup Tokens : Expire(x)
  \/ \E i \in Issuers : Authorize(i) \/ Revoke(i) \/ \E t \in Tokens : Issue(i, t)
  \/ \E d \in Daemons, t \in Tokens : Enroll(d, t)
  \/ Demote

Spec == Init /\ [][Next]_vars

-----------------------------------------------------------------------------
(* Properties *)

\* A denial is final: no order of decisions, polls and deadlines makes a credential
\* of an authorization that was denied.
DenialIsFinal == \A c \in denied : credential[c] = "none"

\* A daemon enrolls through a key only while the key is valid, in whatever order the
\* authentication, the issue, the revocation and the enrollment come.
EnrolledByLiveKey ==
  \A d \in Daemons :
     daemon'[d] \in Tokens \ {daemon[d]} /\ token[daemon'[d]].by = Key => credential[Key] = "live"

\* A token enrolls one daemon, and a sprite's key one machine: with it the key ends.
OneDaemonPerToken ==
  /\ \A d, e \in Daemons : daemon[d] # None /\ daemon[d] = daemon[e] => d = e
  /\ machine = "alive" => credential[Key] = "revoked"
=============================================================================
