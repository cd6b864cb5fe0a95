------------------------------ MODULE Memberships ------------------------------
(***************************************************************************)
(* The members of one organization, their roles, the seats they take and   *)
(* the invitations that reserve one                                        *)
(* (src/src/auth/organization-access.ts), and the accounts made on an      *)
(* invitation where registration is closed                                 *)
(* (src/src/auth/registration-admission.ts). A request reads who asks,     *)
(* begins its transaction, waits for the organization's lock and does its  *)
(* work under it; now() is the time at which the transaction began.        *)
(***************************************************************************)
EXTENDS Integers, FiniteSets

CONSTANTS People, Requests, Invitations,
          Founder,     \* who provisioned the organization
          Invitee,     \* whom each invitation is for
          Seats,       \* the effective cap
          MaxReads,    \* bound: requests that are made
          None

VARIABLES
  account,   \* people who have one
  member,    \* per person: role and identity of the membership row, or None
  invitation,
  past,      \* invitations past expires_at
  request,   \* the requests under way
  signup,    \* the invitation a person signs up on, under its lock
  made,      \* membership rows ever inserted: the next identity
  reads,     \* requests made
  late       \* history: invitations accepted after they had expired

vars == <<account, member, invitation, past, request, signup, made, reads, late>>

Roles == {"owner", "admin", "member"}
Manages(role) == role \in {"owner", "admin"}
NoRequest == [kind |-> "none"]

\* Every invitation is for somebody; there are finitely many people and invitations.
MembershipAssumption ==
  /\ None \notin [role : Roles, id : Nat] /\ None \notin Invitations
  /\ Founder \in People /\ Invitee \in [Invitations -> People]
  /\ IsFiniteSet(People) /\ IsFiniteSet(Invitations)
  /\ Seats \in Nat /\ MaxReads \in Nat

TypeOK ==
  /\ account \subseteq People
  /\ \A p \in People : member[p] = None \/ (member[p].role \in Roles /\ member[p].id \in 0 .. made)
  /\ invitation \in [Invitations -> [st : {"none", "pending", "canceled", "accepted"},
                                     role : {"admin", "member"}]]
  /\ past \subseteq Invitations /\ late \subseteq Invitations
  /\ \A r \in Requests :
       request[r].kind \in {"none", "invite", "cancel", "accept", "role", "remove"}
  /\ signup \in [People -> Invitations \cup {None}]
  /\ made \in Nat /\ reads \in 0 .. MaxReads

Init ==
  /\ \E others \in SUBSET (People \ {Founder}), role \in {"owner", "admin"} :
       /\ account = others \cup {Founder} /\ Cardinality(account) <= Seats
       /\ member = [p \in People |->
             IF p \notin account THEN None
             ELSE [role |-> IF p = Founder THEN "owner" ELSE role, id |-> 0]]
  /\ invitation = [i \in Invitations |-> [st |-> "none", role |-> "member"]]
  /\ past = {} /\ late = {} /\ made = 0 /\ reads = 0
  /\ request = [r \in Requests |-> NoRequest]
  /\ signup = [p \in People |-> None]

-----------------------------------------------------------------------------
(* Accounts *)

\* Mutant: a sign-up takes no lock.
Unlocked(i) == FALSE
\* An invitation is locked by the sign-up on it and by the requests that end it.
SigningUp(i) == \E p \in People : signup[p] = i

\* isAdmitted, under the invitation's lock
Admitted(p, i) == invitation[i].st = "pending" /\ i \notin past /\ Invitee[i] = p

\* withAdmission, up to the call of the authentication library
BeginSignUp(p, i) ==
  /\ p \notin account /\ signup[p] = None /\ ~SigningUp(i)
  /\ Admitted(p, i)
  /\ signup' = [signup EXCEPT ![p] = i]
  /\ UNCHANGED <<account, member, invitation, past, request, made, reads, late>>

\* the library made the account, or refused
EndSignUp(p) ==
  /\ signup[p] # None
  /\ account' \in {account, account \cup {p}}
  /\ signup' = [signup EXCEPT ![p] = None]
  /\ UNCHANGED <<member, invitation, past, request, made, reads, late>>

\* An invitation's 48 hours pass.
Expire(i) ==
  /\ invitation[i].st = "pending" /\ i \notin past
  /\ past' = past \cup {i}
  /\ UNCHANGED <<account, member, invitation, request, signup, made, reads, late>>

-----------------------------------------------------------------------------
(* A request *)

Idle == {r \in Requests : request[r].kind = "none" /\ reads < MaxReads}

\* requireSession and requireActiveAccess read the membership that asks; the transaction
\* begins, which settles what now() makes of the invitations. (A change between the two
\* is one that the body sees.) Accepting needs an account only.
Read(r, p, kind, i, target, role) ==
  /\ kind # "accept" => member[p] # None
  /\ kind \in {"role", "invite"} \/ role = "member"
  /\ kind = "invite" => Invitee[i] = target /\ role # "owner"
  /\ request' = [request EXCEPT ![r] =
        [kind |-> kind, by |-> p, access |-> member[p], i |-> i, target |-> target,
         role |-> role, past |-> past]]
  /\ reads' = reads + 1
  /\ UNCHANGED <<account, member, invitation, past, signup, made, late>>

Closed(r) == request' = [request EXCEPT ![r] = NoRequest]

\* Refused, or the wait for a lock outlasted its deadline: nothing is written.
Refuse(r) ==
  /\ request[r].kind # "none" /\ Closed(r)
  /\ UNCHANGED <<account, member, invitation, past, signup, made, reads, late>>

\* Mutant: the role that the request was read with.
RoleAsRead(r) == request[r].access.role

\* currentActorRole: the same membership row, as it is under the lock
ActorRole(r) ==
  LET m == member[request[r].by] IN
  IF m # None /\ m.id = request[r].access.id THEN m.role ELSE "none"

\* countOrganizationSeatUsage, on a connection of its own and with its own now()
Used ==
  Cardinality({p \in People : member[p] # None})
    + Cardinality({i \in Invitations : invitation[i].st = "pending" /\ i \notin past})

\* Mutant: the cap is compared with the members alone.
CountsMembers == Cardinality({p \in People : member[p] # None}) < Seats
Headroom == Used < Seats

\* createInvitation. An address that has a member, or an invitation pending, takes no
\* new seat; invitations that expired before this transaction are canceled first.
Invite(r) ==
  LET q == request[r]
      swept == [i \in Invitations |->
          IF invitation[i].st = "pending" /\ i \in q.past
          THEN [invitation[i] EXCEPT !.st = "canceled"] ELSE invitation[i]]
      open == \E i \in Invitations : Invitee[i] = q.target /\ swept[i].st = "pending"
  IN
  /\ q.kind = "invite"
  /\ Manages(ActorRole(r)) /\ member[q.target] = None
  /\ IF open THEN invitation' = swept
     ELSE /\ Headroom /\ invitation[q.i].st = "none"
          /\ invitation' = [swept EXCEPT ![q.i] = [st |-> "pending", role |-> q.role]]
  /\ Closed(r) /\ UNCHANGED <<account, member, past, signup, made, reads, late>>

\* cancelInvitation
Cancel(r) ==
  LET q == request[r] IN
  /\ q.kind = "cancel" /\ ~SigningUp(q.i)
  /\ Manages(ActorRole(r)) /\ invitation[q.i].st = "pending"
  /\ invitation' = [invitation EXCEPT ![q.i].st = "canceled"]
  /\ Closed(r) /\ UNCHANGED <<account, member, past, signup, made, reads, late>>

\* Mutant: the invitation is looked up before the locks, and not again.
OnceInvited(r) == Invitee[request[r].i] = request[r].by /\ invitation[request[r].i].st # "none"
Acceptable(r) ==
  LET q == request[r] IN
  invitation[q.i].st = "pending" /\ q.i \notin q.past /\ Invitee[q.i] = q.by

\* acceptInvitation: whoever is a member keeps the membership there is
Accept(r) ==
  LET q == request[r] IN
  /\ q.kind = "accept" /\ ~SigningUp(q.i)
  /\ Acceptable(r)
  /\ IF member[q.by] # None THEN UNCHANGED <<member, made>>
     ELSE /\ made' = made + 1
          /\ member' = [member EXCEPT ![q.by] = [role |-> invitation[q.i].role, id |-> made']]
  /\ invitation' = [invitation EXCEPT ![q.i].st = "accepted"]
  /\ late' = IF q.i \in past THEN late \cup {q.i} ELSE late
  /\ Closed(r) /\ UNCHANGED <<account, past, signup, reads>>

\* protectLastOwner
\* Mutant: counts whoever may manage members.
ManagerStays(p, next) ==
  member[p].role = "owner" /\ next # "owner" =>
    \E q \in People \ {p} : member[q] # None /\ Manages(member[q].role)
OwnerStays(p, next) ==
  member[p].role = "owner" /\ next # "owner" =>
    \E q \in People \ {p} : member[q] # None /\ member[q].role = "owner"

\* canChangeMemberRole, canRemoveMember: owners are the owners' business
MayTouch(actor, current, next) ==
  Manages(actor) /\ ("owner" \in {current, next} => actor = "owner")

\* changeMemberRole
ChangeRole(r) ==
  LET q == request[r] IN
  /\ q.kind = "role" /\ member[q.target] # None
  /\ MayTouch(ActorRole(r), member[q.target].role, q.role) /\ OwnerStays(q.target, q.role)
  /\ member' = [member EXCEPT ![q.target].role = q.role]
  /\ Closed(r) /\ UNCHANGED <<account, invitation, past, signup, made, reads, late>>

\* removeMember. (The sessions that had the organization selected lose it.)
Remove(r) ==
  LET q == request[r] IN
  /\ q.kind = "remove" /\ member[q.target] # None
  /\ MayTouch(ActorRole(r), member[q.target].role, "none") /\ OwnerStays(q.target, "none")
  /\ member' = [member EXCEPT ![q.target] = None]
  /\ Closed(r) /\ UNCHANGED <<account, invitation, past, signup, made, reads, late>>

Next ==
  \/ \E p \in People, i \in Invitations : BeginSignUp(p, i)
  \/ \E p \in People : EndSignUp(p)
  \/ \E i \in Invitations : Expire(i)
  \/ \E r \in Idle, p \in account, target \in People, role \in Roles :
       \/ \E kind \in {"role", "remove"} : Read(r, p, kind, None, target, role)
       \/ \E i \in Invitations : Read(r, p, "invite", i, target, role)
  \/ \E r \in Idle, p \in account, kind \in {"cancel", "accept"}, i \in Invitations :
       Read(r, p, kind, i, p, "member")
  \/ \E r \in Requests :
       Refuse(r) \/ Invite(r) \/ Cancel(r) \/ Accept(r) \/ ChangeRole(r) \/ Remove(r)

Spec == Init /\ [][Next]_vars

-----------------------------------------------------------------------------
\* Somebody owns the organization, whatever changes of role and removals overlap
\* (protectLastOwner).
HasOwner == \E p \in People : member[p] # None /\ member[p].role = "owner"

\* Members and pending invitations keep to the cap: a burst of invitations cannot
\* overshoot it once they are accepted. An acceptance that began before its invitation
\* expired, and was overtaken by an invitation that no longer counted it, is the
\* exception (countOrganizationSeatUsage).
SeatsAreReserved == Used <= Seats + Cardinality(late)

\* Roles change, and members go, by the hand of somebody who has the right to it at
\* that moment, whatever became of it since the request was read (currentActorRole).
ChangedByRight ==
  \A p \in People :
     member[p] # None /\ member'[p] # member[p] =>
       \E r \in Requests :
         /\ request[r].kind \in {"role", "remove"} /\ request'[r].kind = "none"
         /\ member[request[r].by] # None
         /\ MayTouch(member[request[r].by].role, member[p].role,
                     IF member'[p] = None THEN "none" ELSE member'[p].role)

\* Nobody becomes a member but by an invitation to that person which is pending then;
\* and an invitation ends once (acceptInvitation, cancelInvitation).
JoinsInvited ==
  /\ \A p \in People : member[p] = None /\ member'[p] # None =>
       \E i \in Invitations : /\ Invitee[i] = p /\ invitation[i].st = "pending"
                              /\ invitation'[i].st = "accepted"
  /\ \A i \in Invitations : invitation[i].st \in {"canceled", "accepted"} =>
       invitation'[i] = invitation[i]

\* An account made on an invitation is made while it is pending: canceling waits for
\* the sign-up, and the sign-up is admitted after the wait (withAdmission).
SignsUpInvited ==
  \A p \in account' \ account :
     \E i \in Invitations : signup[p] = i /\ (invitation[i].st = "pending" \/ i \in past)
=============================================================================
