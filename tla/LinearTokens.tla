---------------------------- MODULE LinearTokens ----------------------------
(***************************************************************************)
(* The tokens of one Linear connection: an expired access token is renewed *)
(* with the refresh token, which Linear takes once and answers with the    *)
(* next one (createLinearApiClient of src/src/providers/linear/client.ts), *)
(* in a transaction that holds the connection (withLinearRefresh of        *)
(* src/src/db/connections.ts), while the workspace may be connected again. *)
(* A pair of tokens is <<g, n>>, the n-th of the g-th connection; what it  *)
(* opens is left out.                                                      *)
(***************************************************************************)
EXTENDS Integers, FiniteSets

CONSTANTS Hubs, Requests, None,
          HubOf,      \* the hub a request runs in
          MaxGrants,  \* bound on how often the workspace is connected
          MaxTokens,  \* bound on the pairs issued for each connection
          MaxFaults   \* bound on crashes and lost answers

VARIABLES
  row,      \* linear_connections: the pair the connection holds, or None
  grants,   \* how often the workspace was connected
  live,     \* the pairs whose refresh token Linear has not taken
  expired,  \* the access tokens that have expired
  requests, \* [at, token]: "idle", "waiting", "holding", "answered"
  sharing,  \* by hub, the request whose refresh the others join (refreshes), or None
  faults
vars == <<row, grants, live, expired, requests, sharing, faults>>

Idle == [at |-> "idle", token |-> None]
Tokens == (1..MaxGrants) \X (1..MaxTokens)

\* A request is in one hub, and a connection comes with a pair of tokens.
TokensAssumption ==
  /\ HubOf \in [Requests -> Hubs] /\ None \notin Tokens
  /\ MaxGrants \in Nat /\ MaxTokens \in Nat \ {0}

TypeOK ==
  /\ row \in Tokens \cup {None} /\ grants \in 0..MaxGrants
  /\ live \subseteq Tokens /\ expired \subseteq Tokens
  /\ \A r \in Requests : /\ requests[r].at \in {"idle", "waiting", "joined", "holding", "answered"}
                         /\ requests[r].token \in Tokens \cup {None}
  /\ sharing \in [Hubs -> Requests \cup {None}]

Init ==
  /\ row = None /\ grants = 0 /\ live = {} /\ expired = {}
  /\ requests = [r \in Requests |-> Idle]
  /\ sharing = [h \in Hubs |-> None]
  /\ faults = 0

\* Mutant: the connection is not held.
NeverLocked == TRUE
Unlocked == \A r \in Requests : requests[r].at \notin {"holding", "answered"}

-----------------------------------------------------------------------------
\* The workspace is connected, or again, which comes with a pair of tokens.  The
\* exchange of the code and the binding are one step: pairs are numbered as they
\* are bound, and two callbacks that bind in the reverse order of their exchanges
\* are not told apart.
Connect ==
  /\ Unlocked /\ grants < MaxGrants
  /\ grants' = grants + 1
  /\ row' = <<grants + 1, 1>> /\ live' = live \cup {<<grants + 1, 1>>}
  /\ UNCHANGED <<expired, requests, sharing, faults>>

Disconnect ==
  /\ row # None /\ Unlocked
  /\ row' = None
  /\ UNCHANGED <<grants, live, expired, requests, sharing, faults>>

\* An access token expires, if it is not used first.
Expire ==
  /\ row # None /\ row \notin expired
  /\ expired' = expired \cup {row}
  /\ UNCHANGED <<row, grants, live, requests, sharing, faults>>

-----------------------------------------------------------------------------
\* accessTokenFor: a request that finds the access token expired joins the refresh its
\* hub has under way, or starts one.
Ask(r) ==
  LET h == HubOf[r] IN
  /\ requests[r].at = "idle" /\ row # None /\ row \in expired
  /\ IF sharing[h] # None
     THEN /\ requests' = [requests EXCEPT ![r].at = "joined"] /\ UNCHANGED sharing
     ELSE /\ requests' = [requests EXCEPT ![r] = [at |-> "waiting", token |-> row]]
          /\ sharing' = [sharing EXCEPT ![h] = r]
  /\ UNCHANGED <<row, grants, live, expired, faults>>

\* The refresh of r is over, for the requests that joined it too.
Over(r) ==
  /\ requests' = [q \in Requests |->
       IF q = r \/ (requests[q].at = "joined" /\ HubOf[q] = HubOf[r]) THEN Idle ELSE requests[q]]
  /\ sharing' = [sharing EXCEPT ![HubOf[r]] = None]

\* Mutant: the connection as it was read before the lock.
AsReadBefore(r) == requests[r].token
\* Read again under the lock: somebody else may have refreshed, or disconnected.
Current(r) == row

Lock(r) ==
  /\ requests[r].at = "waiting" /\ Unlocked
  /\ LET token == Current(r) IN
     IF token = None \/ token \notin expired
     THEN Over(r)
     ELSE /\ requests' = [requests EXCEPT ![r] = [at |-> "holding", token |-> token]]
          /\ UNCHANGED sharing
  /\ UNCHANGED <<row, grants, live, expired, faults>>

\* Linear takes a refresh token once.
Exchange(r) ==
  /\ requests[r].at = "holding"
  /\ LET taken == requests[r].token
         next == <<taken[1], taken[2] + 1>>
     IN IF taken \in live
        THEN /\ next \in Tokens
             /\ live' = (live \ {taken}) \cup {next}
             /\ requests' = [requests EXCEPT ![r] = [at |-> "answered", token |-> next]]
             /\ UNCHANGED sharing
        ELSE Over(r) /\ UNCHANGED live
  /\ UNCHANGED <<row, grants, expired, faults>>

\* updateTokens, and the transaction commits.
Save(r) ==
  /\ requests[r].at = "answered"
  /\ row' = IF row = None THEN None ELSE requests[r].token
  /\ Over(r)
  /\ UNCHANGED <<grants, live, expired, faults>>

\* The answer is lost, or cannot be saved: the transaction is rolled back.
Fail(r) ==
  /\ requests[r].at \in {"holding", "answered"} /\ faults < MaxFaults
  /\ Over(r)
  /\ faults' = faults + 1
  /\ UNCHANGED <<row, grants, live, expired>>

Crash(h) ==
  /\ faults < MaxFaults
  /\ \E r \in Requests : HubOf[r] = h /\ requests[r].at # "idle"
  /\ requests' = [r \in Requests |-> IF HubOf[r] = h THEN Idle ELSE requests[r]]
  /\ sharing' = [sharing EXCEPT ![h] = None]
  /\ faults' = faults + 1
  /\ UNCHANGED <<row, grants, live, expired>>

Next ==
  \/ Connect \/ Disconnect \/ Expire
  \/ \E r \in Requests : Ask(r) \/ Lock(r) \/ Exchange(r) \/ Save(r) \/ Fail(r)
  \/ \E h \in Hubs : Crash(h)

Spec == Init /\ [][Next]_vars

-----------------------------------------------------------------------------
\* However requests of several hubs overlap with each other and with a new connection, the
\* row holds the newest pair of tokens, of the connection bound last, and Linear still takes
\* its refresh token, unless an answer was lost or a hub died (withLinearRefresh,
\* refreshAccessToken).
HoldsNewestTokens ==
  row # None /\ Unlocked /\ faults = 0 => row \in live /\ row[1] = grants
=============================================================================
