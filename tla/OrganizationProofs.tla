------------------------- MODULE OrganizationProofs --------------------------
(***************************************************************************)
(* Who belongs to an organization and who acts for it, and the locks and   *)
(* the process that all of them share: what is promised for any number of  *)
(* people, requests, command lines, writers and processes, proved.         *)
(*                                                                         *)
(* Memberships: the organization keeps an owner and to its seats, roles    *)
(* change by right, and nobody joins or signs up uninvited. What a request *)
(* saw of the clock is past (PastInv), so an invitation it sweeps reserves *)
(* no seat any more; what was accepted late was accepted (LateInv), so a   *)
(* seat is overshot once for each such acceptance.                         *)
(*                                                                         *)
(* Credentials (prefix cr): a credential exists once its authorization was *)
(* disclosed only (CrDisclosedInv), so a denial is final.                  *)
(*                                                                         *)
(* InstanceSetup (se): who holds the row alone decides (SeRowInv), under a *)
(* lock that keeps what it has counted (SeLockedInv).                      *)
(*                                                                         *)
(* Entitlements (en): the row is as the one writer of it has read it       *)
(* (EnTxInv), and a limit that was read is one of the trail (EnLimitInv).  *)
(*                                                                         *)
(* LockOrder (lo): a section that waits has taken the locks before the one *)
(* it waits for. HubProcess (hp): from its making on the file is its       *)
(* maker's (HpHeldInv), for what another is about to remove is of a dead   *)
(* process (HpStaleInv).                                                   *)
(*                                                                         *)
(* Billing (bi): a stamp or a quantity that is not Stripe's live state is  *)
(* still to be written again: an event of the subscription is due, or the  *)
(* job that will is on its way (BiStampInv, BiBillInv), for only the one   *)
(* that holds the lock acts on what it has read (BiReadInv).               *)
(***************************************************************************)
EXTENDS Memberships, Sequences, FiniteSetTheorems, TLAPS

CONSTANTS Nobody

Membership == [role : Roles, id : Nat]

-----------------------------------------------------------------------------
(* The invariant *)

Asked ==
  [kind : {"invite", "cancel", "accept", "role", "remove"}, by : People,
   access : Membership \cup {None}, i : Invitations \cup {None}, target : People,
   role : Roles, past : SUBSET Invitations]

\* What a request asks for: of an invitation, where it is about one.
WellAsked(q) ==
  /\ q.kind \in {"invite", "cancel", "accept"} => q.i \in Invitations
  /\ q.kind = "invite" => q.role \in {"admin", "member"}

\* The functions behind the types.
ShapeInv ==
  /\ member \in [People -> Membership \cup {None}]
  /\ request \in [Requests -> Asked \cup {NoRequest}]
  /\ \A r \in Requests : request[r] # NoRequest => WellAsked(request[r])

\* The time at which a request's transaction began is past.
PastInv == \A r \in Requests : request[r] # NoRequest => request[r].past \subseteq past

\* An invitation that was accepted late was accepted.
LateInv == \A i \in late : invitation[i].st = "accepted"

\* A sign-up holds its invitation until it is through: it stays pending, or expires.
SignUpInv ==
  \A p \in People : signup[p] # None =>
    invitation[signup[p]].st = "pending" \/ signup[p] \in past

IInv ==
  /\ TypeOK /\ ShapeInv /\ PastInv /\ LateInv /\ SignUpInv
  /\ HasOwner /\ SeatsAreReserved

-----------------------------------------------------------------------------
(* Seats *)

Members == {p \in People : member[p] # None}
Open == {i \in Invitations : invitation[i].st = "pending" /\ i \notin past}

\* What is counted is finite, and numbers.
LEMMA Counts ==
  ASSUME MembershipAssumption, TypeOK
  PROVE  /\ Used = Cardinality(Members) + Cardinality(Open)
         /\ IsFiniteSet(Members) /\ IsFiniteSet(Open) /\ IsFiniteSet(late)
         /\ Cardinality(Members) \in Nat /\ Cardinality(Open) \in Nat
         /\ Cardinality(late) \in Nat
<1>1. IsFiniteSet(Members) /\ IsFiniteSet(Open) /\ IsFiniteSet(late)
  BY FS_Subset DEF MembershipAssumption, Members, Open, TypeOK
<1>. QED BY <1>1, FS_CardinalityType DEF Used, Members, Open

\* The same of the next state.
LEMMA CountsNext ==
  ASSUME MembershipAssumption, TypeOK'
  PROVE  /\ Used' = Cardinality(Members') + Cardinality(Open')
         /\ IsFiniteSet(Members') /\ IsFiniteSet(Open') /\ IsFiniteSet(late')
         /\ Cardinality(Members') \in Nat /\ Cardinality(Open') \in Nat
         /\ Cardinality(late') \in Nat
<1>1. IsFiniteSet(Members') /\ IsFiniteSet(Open') /\ IsFiniteSet(late')
  BY FS_Subset DEF MembershipAssumption, Members, Open, TypeOK
<1>. QED BY <1>1, FS_CardinalityType DEF Used, Members, Open

\* One element more is one seat more at most.
LEMMA OneMore ==
  ASSUME NEW S, IsFiniteSet(S), NEW x, NEW T, T \subseteq S \cup {x}
  PROVE  Cardinality(T) <= Cardinality(S) + 1
<1>1. IsFiniteSet(S \cup {x}) /\ Cardinality(S) \in Nat /\ Cardinality(S \cup {x}) \in Nat
  BY FS_AddElement, FS_CardinalityType
<1>2. Cardinality(S \cup {x}) = IF x \in S THEN Cardinality(S) ELSE Cardinality(S) + 1
  BY FS_AddElement
<1>3. Cardinality(T) <= Cardinality(S \cup {x}) /\ Cardinality(T) \in Nat
  BY <1>1, FS_Subset, FS_CardinalityType
<1>. QED BY <1>1, <1>2, <1>3

\* Who frees seats, or lets them be, keeps to the cap.
LEMMA SeatsKept ==
  ASSUME MembershipAssumption, TypeOK, TypeOK', SeatsAreReserved,
         Members' \subseteq Members, Open' \subseteq Open, late' = late
  PROVE  SeatsAreReserved'
<1>1. Cardinality(Members') <= Cardinality(Members) /\ Cardinality(Open') <= Cardinality(Open)
  BY Counts, FS_Subset
<1>. QED BY <1>1, Counts, CountsNext DEF SeatsAreReserved, MembershipAssumption

-----------------------------------------------------------------------------
(* Steps *)

\* The initial state satisfies the invariant.
LEMMA InitHolds ==
  ASSUME MembershipAssumption, Init PROVE IInv
<1>1. PICK others \in SUBSET (People \ {Founder}), role \in {"owner", "admin"} :
        /\ account = others \cup {Founder} /\ Cardinality(account) <= Seats
        /\ member = [p \in People |->
             IF p \notin account THEN None
             ELSE [role |-> IF p = Founder THEN "owner" ELSE role, id |-> 0]]
  BY DEF Init
<1>2. account \subseteq People /\ Founder \in account
  BY <1>1 DEF MembershipAssumption
<1>3. member \in [People -> Membership \cup {None}]
  BY <1>1 DEF Membership, Roles
<1>4. \A p \in account : member[p] \in Membership
  BY <1>1, <1>2 DEF Membership, Roles
<1>5. \A p \in account : member[p] # None /\ member[p].role \in Roles /\ member[p].id = 0
  BY <1>1, <1>2, <1>4 DEF MembershipAssumption, Roles
<1>6. TypeOK
  <2>1. \A p \in People : member[p] = None \/ (member[p].role \in Roles /\ member[p].id \in 0 .. made)
    BY <1>1, <1>5 DEF Init
  <2>2. request \in [Requests -> {NoRequest}]
    BY DEF Init
  <2>. QED BY <1>2, <2>1, <2>2 DEF Init, TypeOK, NoRequest, MembershipAssumption
<1>7. ShapeInv /\ PastInv /\ LateInv /\ SignUpInv
  BY <1>3 DEF Init, ShapeInv, PastInv, LateInv, SignUpInv
<1>8. HasOwner
  BY <1>1, <1>2, <1>5 DEF HasOwner
<1>9. SeatsAreReserved
  <2>1. Members = account /\ Open = {} /\ late = {}
    BY <1>1, <1>2, <1>5 DEF Init, Members, Open
  <2>2. Cardinality(Open) = 0 /\ Cardinality(late) = 0
    BY <2>1, FS_EmptySet
  <2>. QED BY <1>1, <1>6, <2>1, <2>2, Counts DEF SeatsAreReserved, MembershipAssumption
<1>. QED BY <1>6, <1>7, <1>8, <1>9 DEF IInv

\* A step that changes neither members nor invitations, nor what it may rest on.
LEMMA QuietKeeps ==
  ASSUME MembershipAssumption, IInv, TypeOK', ShapeInv', PastInv', SignUpInv',
         UNCHANGED <<member, invitation, past, late>>
  PROVE  IInv'
<1>1. LateInv' /\ HasOwner'
  BY DEF IInv, LateInv, HasOwner
<1>2. SeatsAreReserved'
  BY SeatsKept DEF IInv, Members, Open
<1>. QED BY <1>1, <1>2 DEF IInv

\* A sign-up begins on a pending invitation.
LEMMA BeginSignUpKeeps ==
  ASSUME MembershipAssumption, IInv, NEW p \in People, NEW i \in Invitations, BeginSignUp(p, i)
  PROVE  IInv'
<1>1. signup' = [signup EXCEPT ![p] = i] /\ invitation[i].st = "pending"
  BY DEF BeginSignUp, Admitted
<1>2. TypeOK'
  BY <1>1 DEF BeginSignUp, IInv, TypeOK
<1>3. ShapeInv' /\ PastInv'
  BY DEF BeginSignUp, IInv, ShapeInv, PastInv
<1>4. SignUpInv'
  BY <1>1 DEF BeginSignUp, IInv, SignUpInv, TypeOK
<1>. QED BY <1>2, <1>3, <1>4, QuietKeeps DEF BeginSignUp

\* A sign-up ends.
LEMMA EndSignUpKeeps ==
  ASSUME MembershipAssumption, IInv, NEW p \in People, EndSignUp(p)
  PROVE  IInv'
<1>1. signup' = [signup EXCEPT ![p] = None] /\ account' \subseteq account \cup {p}
  BY DEF EndSignUp
<1>2. TypeOK'
  BY <1>1 DEF EndSignUp, IInv, TypeOK
<1>3. ShapeInv' /\ PastInv'
  BY DEF EndSignUp, IInv, ShapeInv, PastInv
<1>4. SignUpInv'
  BY <1>1 DEF EndSignUp, IInv, SignUpInv, TypeOK
<1>. QED BY <1>2, <1>3, <1>4, QuietKeeps DEF EndSignUp

\* An invitation expires: its seat is free.
LEMMA ExpireKeeps ==
  ASSUME MembershipAssumption, IInv, NEW i \in Invitations, Expire(i)
  PROVE  IInv'
<1>1. TypeOK'
  BY DEF Expire, IInv, TypeOK
<1>2. ShapeInv'
  BY DEF Expire, IInv, ShapeInv
<1>3. PastInv' /\ SignUpInv' /\ LateInv' /\ HasOwner'
  BY DEF Expire, IInv, PastInv, SignUpInv, LateInv, HasOwner
<1>4. Members' \subseteq Members /\ Open' \subseteq Open
  BY DEF Expire, Members, Open
<1>5. SeatsAreReserved'
  BY <1>1, <1>4, SeatsKept DEF IInv, Expire
<1>. QED BY <1>1, <1>2, <1>3, <1>5 DEF IInv

\* A request is read.
LEMMA ReadKeeps ==
  ASSUME MembershipAssumption, IInv, NEW r \in Requests, reads < MaxReads, NEW p \in People,
         NEW kind \in {"invite", "cancel", "accept", "role", "remove"},
         NEW i \in Invitations \cup {None}, kind \notin {"role", "remove"} => i \in Invitations,
         NEW target \in People, NEW role \in Roles, Read(r, p, kind, i, target, role)
  PROVE  IInv'
<1>1. PICK q : q = [kind |-> kind, by |-> p, access |-> member[p], i |-> i, target |-> target,
                    role |-> role, past |-> past]
  OBVIOUS
<1>2. request' = [request EXCEPT ![r] = q]
  BY <1>1 DEF Read
<1>3. q \in Asked /\ q.past = past /\ q # NoRequest
  <2>1. member[p] \in Membership \cup {None}
    BY DEF IInv, ShapeInv
  <2>2. q \in Asked
    BY <1>1, <2>1 DEF IInv, TypeOK, Asked
  <2>3. q.kind # "none"
    BY <1>1
  <2>. QED BY <1>1, <2>2, <2>3 DEF NoRequest
<1>4. WellAsked(q)
  BY <1>1 DEF WellAsked, Read, Roles
<1>5. TypeOK'
  <2>1. reads' \in 0 .. MaxReads
    BY DEF Read, IInv, TypeOK, MembershipAssumption
  <2>2. \A s \in Requests :
          request'[s].kind \in {"none", "invite", "cancel", "accept", "role", "remove"}
    BY <1>1, <1>2 DEF IInv, TypeOK, ShapeInv
  <2>. QED BY <2>1, <2>2 DEF Read, IInv, TypeOK
<1>6. ShapeInv'
  BY <1>2, <1>3, <1>4 DEF Read, IInv, ShapeInv
<1>7. PastInv' /\ SignUpInv'
  BY <1>2, <1>3 DEF Read, IInv, PastInv, SignUpInv, ShapeInv
<1>. QED BY <1>5, <1>6, <1>7, QuietKeeps DEF Read

\* A request that ends leaves the others as they are.
LEMMA ClosedKeeps ==
  ASSUME IInv, NEW r \in Requests, Closed(r), past' = past
  PROVE  /\ request' \in [Requests -> Asked \cup {NoRequest}]
         /\ \A s \in Requests : request'[s] # NoRequest => WellAsked(request'[s])
         /\ \A s \in Requests :
              request'[s].kind \in {"none", "invite", "cancel", "accept", "role", "remove"}
         /\ PastInv'
         /\ request'[r].kind = "none"
<1>1. request' = [request EXCEPT ![r] = NoRequest]
  BY DEF Closed
<1>2. NoRequest.kind = "none"
  BY DEF NoRequest
<1>. QED BY <1>1, <1>2 DEF IInv, TypeOK, ShapeInv, PastInv

\* A request under way has its fields.
LEMMA Fields ==
  ASSUME IInv, NEW r \in Requests, request[r].kind # "none"
  PROVE  /\ request[r] \in Asked /\ request[r] # NoRequest /\ WellAsked(request[r])
         /\ request[r].by \in People /\ request[r].target \in People
         /\ request[r].role \in Roles /\ request[r].past \subseteq past
         /\ request[r].kind \in {"invite", "cancel", "accept"} => request[r].i \in Invitations
<1>1. NoRequest.kind = "none"
  BY DEF NoRequest
<1>2. request[r] \in Asked /\ request[r] # NoRequest
  BY <1>1 DEF IInv, ShapeInv
<1>3. WellAsked(request[r]) /\ request[r].past \subseteq past
  BY <1>2 DEF IInv, ShapeInv, PastInv
<1>. QED BY <1>2, <1>3 DEF Asked, WellAsked

\* A request is refused.
LEMMA RefuseKeeps ==
  ASSUME MembershipAssumption, IInv, NEW r \in Requests, Refuse(r)
  PROVE  IInv'
<1>1. TypeOK'
  BY ClosedKeeps DEF Refuse, IInv, TypeOK
<1>2. ShapeInv' /\ PastInv' /\ SignUpInv'
  BY ClosedKeeps DEF Refuse, IInv, ShapeInv, SignUpInv
<1>. QED BY <1>1, <1>2, QuietKeeps DEF Refuse

\* What an invitation does to those there are: it sweeps the expired ones, and adds one
\* at most.
LEMMA Invited ==
  ASSUME MembershipAssumption, IInv, NEW r \in Requests, Invite(r)
  PROVE  /\ invitation' \in [Invitations -> [st : {"none", "pending", "canceled", "accepted"},
                                            role : {"admin", "member"}]]
         /\ \A i \in Invitations : invitation'[i] # invitation[i] =>
              \/ invitation[i].st = "pending" /\ i \in past /\ invitation'[i].st = "canceled"
              \/ invitation[i].st = "none" /\ i = request[r].i /\ Used < Seats
         /\ request[r].kind # "none" /\ request[r].i \in Invitations
<1>1. PICK q : q = request[r]
  OBVIOUS
<1>2. /\ q.kind = "invite" /\ q.i \in Invitations /\ q.past \subseteq past
      /\ q.role \in {"admin", "member"}
  <2>1. request[r].kind = "invite"
    BY DEF Invite
  <2>. QED BY <1>1, <2>1, Fields DEF WellAsked
<1>3. PICK swept : swept = [i \in Invitations |->
          IF invitation[i].st = "pending" /\ i \in q.past
          THEN [invitation[i] EXCEPT !.st = "canceled"] ELSE invitation[i]]
  OBVIOUS
<1>4. \/ invitation' = swept
      \/ /\ Used < Seats /\ invitation[q.i].st = "none"
         /\ invitation' = [swept EXCEPT ![q.i] = [st |-> "pending", role |-> q.role]]
  BY <1>1, <1>3 DEF Invite, Headroom
<1>5. /\ swept \in [Invitations -> [st : {"none", "pending", "canceled", "accepted"},
                                    role : {"admin", "member"}]]
      /\ \A i \in Invitations : swept[i] # invitation[i] =>
           invitation[i].st = "pending" /\ i \in past /\ swept[i].st = "canceled"
  <2>1. \A i \in Invitations :
          invitation[i] \in [st : {"none", "pending", "canceled", "accepted"},
                             role : {"admin", "member"}]
    BY DEF IInv, TypeOK
  <2>. QED BY <1>2, <1>3, <2>1
<1>6. [st |-> "pending", role |-> q.role] \in [st : {"none", "pending", "canceled", "accepted"},
                                               role : {"admin", "member"}]
  BY <1>2
<1>. QED BY <1>1, <1>2, <1>4, <1>5, <1>6

\* An invitation is made: with a seat left.
LEMMA InviteKeeps ==
  ASSUME MembershipAssumption, IInv, NEW r \in Requests, Invite(r)
  PROVE  IInv'
<1>1. Closed(r) /\ UNCHANGED <<account, member, past, signup, made, reads, late>>
  BY DEF Invite
<1>2. TypeOK'
  BY <1>1, Invited, ClosedKeeps DEF IInv, TypeOK
<1>3. ShapeInv' /\ PastInv' /\ HasOwner'
  BY <1>1, ClosedKeeps DEF IInv, ShapeInv, HasOwner
<1>4. LateInv' /\ SignUpInv'
  BY <1>1, Invited DEF IInv, LateInv, SignUpInv, TypeOK
<1>5. SeatsAreReserved'
  <2>1. Members' = Members /\ late' = late
    BY <1>1 DEF Members
  <2>2. CASE Used < Seats
    <3>1. Open' \subseteq Open \cup {request[r].i}
      BY <1>1, Invited DEF Open
    <3>2. Cardinality(Open') <= Cardinality(Open) + 1
      BY <3>1, Counts, OneMore DEF IInv
    <3>. QED
      BY <1>2, <2>1, <2>2, <3>2, Counts, CountsNext
      DEF IInv, SeatsAreReserved, MembershipAssumption
  <2>3. CASE ~(Used < Seats)
    <3>1. Open' \subseteq Open
      BY <1>1, <2>3, Invited DEF Open
    <3>. QED BY <1>2, <2>1, <3>1, SeatsKept DEF IInv
  <2>. QED BY <2>2, <2>3
<1>. QED BY <1>2, <1>3, <1>4, <1>5 DEF IInv

\* An invitation is canceled, unless somebody signs up on it.
LEMMA CancelKeeps ==
  ASSUME MembershipAssumption, IInv, NEW r \in Requests, Cancel(r)
  PROVE  IInv'
<1>1. PICK i : i = request[r].i
  OBVIOUS
<1>2. request[r].kind = "cancel" /\ i \in Invitations
  BY <1>1, Fields DEF Cancel
<1>3. /\ invitation' = [invitation EXCEPT ![i].st = "canceled"] /\ invitation[i].st = "pending"
      /\ \A p \in People : signup[p] # i
      /\ Closed(r) /\ UNCHANGED <<account, member, past, signup, made, reads, late>>
  BY <1>1 DEF Cancel, SigningUp
<1>4. /\ invitation' \in [Invitations -> [st : {"none", "pending", "canceled", "accepted"},
                                          role : {"admin", "member"}]]
      /\ invitation'[i].st = "canceled"
      /\ \A j \in Invitations \ {i} : invitation'[j] = invitation[j]
  BY <1>2, <1>3 DEF IInv, TypeOK
<1>5. TypeOK'
  BY <1>3, <1>4, ClosedKeeps DEF IInv, TypeOK
<1>6. ShapeInv' /\ PastInv' /\ HasOwner'
  BY <1>3, ClosedKeeps DEF IInv, ShapeInv, HasOwner
<1>7. LateInv' /\ SignUpInv'
  BY <1>3, <1>4 DEF IInv, LateInv, SignUpInv, TypeOK
<1>8. SeatsAreReserved'
  <2>1. Members' \subseteq Members /\ Open' \subseteq Open
    BY <1>3, <1>4 DEF Members, Open
  <2>. QED BY <1>3, <1>5, <2>1, SeatsKept DEF IInv
<1>. QED BY <1>5, <1>6, <1>7, <1>8 DEF IInv

\* What an acceptance does: the invitation ends, and its person is a member.
LEMMA Accepted ==
  ASSUME MembershipAssumption, IInv, NEW r \in Requests, Accept(r)
  PROVE  \E p \in People, i \in Invitations :
           /\ Invitee[i] = p /\ invitation[i].st = "pending" /\ \A q \in People : signup[q] # i
           /\ \/ member[p] # None /\ UNCHANGED <<member, made>>
              \/ /\ member[p] = None /\ made' = made + 1
                 /\ \E role \in Roles : member' = [member EXCEPT ![p] = [role |-> role, id |-> made']]
           /\ invitation' \in [Invitations -> [st : {"none", "pending", "canceled", "accepted"},
                                              role : {"admin", "member"}]]
           /\ invitation'[i].st = "accepted"
           /\ \A j \in Invitations \ {i} : invitation'[j] = invitation[j]
           /\ late' = IF i \in past THEN late \cup {i} ELSE late
           /\ Closed(r) /\ UNCHANGED <<account, past, signup, reads>>
<1>1. PICK p, i : p = request[r].by /\ i = request[r].i
  OBVIOUS
<1>2. p \in People /\ i \in Invitations
  BY <1>1, Fields DEF Accept
<1>3. /\ Invitee[i] = p /\ invitation[i].st = "pending" /\ \A q \in People : signup[q] # i
      /\ IF member[p] # None THEN UNCHANGED <<member, made>>
         ELSE /\ made' = made + 1
              /\ member' = [member EXCEPT ![p] = [role |-> invitation[i].role, id |-> made']]
      /\ invitation' = [invitation EXCEPT ![i].st = "accepted"]
      /\ late' = IF i \in past THEN late \cup {i} ELSE late
      /\ Closed(r) /\ UNCHANGED <<account, past, signup, reads>>
  BY <1>1 DEF Accept, Acceptable, SigningUp
<1>4. invitation[i].role \in Roles
  BY <1>2 DEF IInv, TypeOK, Roles
<1>5. /\ invitation' \in [Invitations -> [st : {"none", "pending", "canceled", "accepted"},
                                          role : {"admin", "member"}]]
      /\ invitation'[i].st = "accepted"
      /\ \A j \in Invitations \ {i} : invitation'[j] = invitation[j]
  BY <1>2, <1>3 DEF IInv, TypeOK
<1>6. \/ member[p] # None /\ UNCHANGED <<member, made>>
      \/ /\ member[p] = None /\ made' = made + 1
         /\ \E role \in Roles : member' = [member EXCEPT ![p] = [role |-> role, id |-> made']]
  BY <1>3, <1>4
<1>. USE <1>2
<1>. WITNESS p \in People, i \in Invitations
<1>. QED BY <1>3, <1>5, <1>6

\* An invitation is accepted: its seat is the member's; a late one overshoots by one.
LEMMA AcceptKeeps ==
  ASSUME MembershipAssumption, IInv, NEW r \in Requests, Accept(r)
  PROVE  IInv'
<1>1. PICK p \in People, i \in Invitations :
           /\ Invitee[i] = p /\ invitation[i].st = "pending" /\ \A q \in People : signup[q] # i
           /\ \/ member[p] # None /\ UNCHANGED <<member, made>>
              \/ /\ member[p] = None /\ made' = made + 1
                 /\ \E role \in Roles : member' = [member EXCEPT ![p] = [role |-> role, id |-> made']]
           /\ invitation' \in [Invitations -> [st : {"none", "pending", "canceled", "accepted"},
                                              role : {"admin", "member"}]]
           /\ invitation'[i].st = "accepted"
           /\ \A j \in Invitations \ {i} : invitation'[j] = invitation[j]
           /\ late' = IF i \in past THEN late \cup {i} ELSE late
           /\ Closed(r) /\ UNCHANGED <<account, past, signup, reads>>
  BY Accepted
<1>2. /\ member' \in [People -> Membership \cup {None}] /\ made' \in Nat
      /\ \A q \in People :
           member'[q] = None \/ (member'[q].role \in Roles /\ member'[q].id \in 0 .. made')
      /\ Members' \subseteq Members \cup {p}
      /\ \A q \in People : member[q] # None => member'[q] = member[q]
  <2>1. CASE UNCHANGED <<member, made>>
    BY <2>1 DEF IInv, ShapeInv, TypeOK, Members
  <2>2. CASE member[p] = None /\ made' = made + 1
             /\ \E role \in Roles : member' = [member EXCEPT ![p] = [role |-> role, id |-> made']]
    <3>1. PICK role \in Roles : member' = [member EXCEPT ![p] = [role |-> role, id |-> made']]
      BY <2>2
    <3>2. [role |-> role, id |-> made'] \in Membership /\ made' \in Nat /\ made \in Nat
      BY <2>2 DEF Membership, IInv, TypeOK
    <3>3. \A q \in People : member'[q] = IF q = p THEN [role |-> role, id |-> made'] ELSE member[q]
      BY <3>1 DEF IInv, ShapeInv
    <3>4. member' \in [People -> Membership \cup {None}]
      BY <3>1, <3>2 DEF IInv, ShapeInv
    <3>5. \A q \in People :
            member'[q] = None \/ (member'[q].role \in Roles /\ member'[q].id \in 0 .. made')
      BY <2>2, <3>2, <3>3 DEF IInv, TypeOK
    <3>. QED BY <2>2, <3>2, <3>3, <3>4, <3>5 DEF Members
  <2>. QED BY <1>1, <2>1, <2>2
<1>3. TypeOK'
  BY <1>1, <1>2, ClosedKeeps DEF IInv, TypeOK
<1>4. ShapeInv' /\ PastInv' /\ HasOwner'
  BY <1>1, <1>2, ClosedKeeps DEF IInv, ShapeInv, HasOwner
<1>5. LateInv' /\ SignUpInv'
  BY <1>1 DEF IInv, LateInv, SignUpInv, TypeOK
<1>6. SeatsAreReserved'
  <2>1. Cardinality(Members') <= Cardinality(Members) + 1
    BY <1>2, Counts, OneMore DEF IInv
  <2>2. CASE i \notin past
    <3>1. i \in Open /\ Open' \subseteq Open \ {i} /\ late' = late
      BY <1>1, <2>2 DEF Open
    <3>2. IsFiniteSet(Open \ {i}) /\ Cardinality(Open \ {i}) = Cardinality(Open) - 1
      BY <3>1, Counts, FS_RemoveElement DEF IInv
    <3>3. Cardinality(Open') <= Cardinality(Open \ {i})
      BY <3>1, <3>2, FS_Subset
    <3>. QED
      BY <1>3, <2>1, <3>1, <3>2, <3>3, Counts, CountsNext
      DEF IInv, SeatsAreReserved, MembershipAssumption
  <2>3. CASE i \in past
    <3>1. i \notin late /\ late' = late \cup {i} /\ Open' \subseteq Open
      BY <1>1, <2>3 DEF IInv, LateInv, Open
    <3>2. Cardinality(late') = Cardinality(late) + 1
      BY <3>1, Counts, FS_AddElement DEF IInv
    <3>3. Cardinality(Open') <= Cardinality(Open)
      BY <3>1, Counts, FS_Subset DEF IInv
    <3>. QED
      BY <1>3, <2>1, <3>1, <3>2, <3>3, Counts, CountsNext
      DEF IInv, SeatsAreReserved, MembershipAssumption
  <2>. QED BY <2>2, <2>3
<1>. QED BY <1>3, <1>4, <1>5, <1>6 DEF IInv

\* What a change of a role or a removal does: to one member, and not to the last owner.
LEMMA Touched ==
  ASSUME MembershipAssumption, IInv, NEW r \in Requests, ChangeRole(r) \/ Remove(r)
  PROVE  \E p \in People :
           /\ member[p] # None
           /\ \/ member' = [member EXCEPT ![p] = None]
              \/ \E role \in Roles : member' = [member EXCEPT ![p].role = role]
           /\ member' \in [People -> Membership \cup {None}]
           /\ \A q \in People \ {p} : member'[q] = member[q]
           /\ member'[p] # None => member'[p].role \in Roles /\ member'[p].id = member[p].id
           /\ MayTouch(ActorRole(r), member[p].role,
                       IF member'[p] = None THEN "none" ELSE member'[p].role)
           /\ OwnerStays(p, IF member'[p] = None THEN "none" ELSE member'[p].role)
           /\ request[r].kind \in {"role", "remove"}
           /\ Closed(r) /\ UNCHANGED <<account, invitation, past, signup, made, reads, late>>
<1>1. PICK p : p = request[r].target
  OBVIOUS
<1>2. PICK role : role = request[r].role
  OBVIOUS
<1>3. p \in People /\ role \in Roles
  BY <1>1, <1>2, Fields DEF ChangeRole, Remove
<1>4. CASE ChangeRole(r)
  <2>1. /\ request[r].kind = "role" /\ member[p] # None
        /\ MayTouch(ActorRole(r), member[p].role, role) /\ OwnerStays(p, role)
        /\ member' = [member EXCEPT ![p].role = role]
        /\ Closed(r) /\ UNCHANGED <<account, invitation, past, signup, made, reads, late>>
    BY <1>1, <1>2, <1>4 DEF ChangeRole
  <2>2. member[p] \in Membership
    BY <1>3, <2>1 DEF IInv, ShapeInv
  <2>3. PICK m : m = [member[p] EXCEPT !.role = role]
    OBVIOUS
  <2>4. m \in Membership /\ m.role = role /\ m.id = member[p].id
    BY <1>3, <2>2, <2>3 DEF Membership
  <2>5. member' = [member EXCEPT ![p] = m]
    BY <2>1, <2>3
  <2>6. member' \in [People -> Membership \cup {None}] /\ member'[p] = m /\ m # None
        /\ \A q \in People \ {p} : member'[q] = member[q]
    BY <1>3, <2>4, <2>5 DEF IInv, ShapeInv, MembershipAssumption, Membership
  <2>. QED BY <1>3, <2>1, <2>4, <2>6
<1>5. CASE Remove(r)
  <2>1. /\ request[r].kind = "remove" /\ member[p] # None
        /\ MayTouch(ActorRole(r), member[p].role, "none") /\ OwnerStays(p, "none")
        /\ member' = [member EXCEPT ![p] = None]
        /\ Closed(r) /\ UNCHANGED <<account, invitation, past, signup, made, reads, late>>
    BY <1>1, <1>5 DEF Remove
  <2>2. member' \in [People -> Membership \cup {None}] /\ member'[p] = None
        /\ \A q \in People \ {p} : member'[q] = member[q]
    BY <1>3, <2>1 DEF IInv, ShapeInv
  <2>. QED BY <1>3, <2>1, <2>2
<1>. QED BY <1>4, <1>5

\* A member's role changes, or the member goes; an owner stays.
LEMMA TouchKeeps ==
  ASSUME MembershipAssumption, IInv, NEW r \in Requests, ChangeRole(r) \/ Remove(r)
  PROVE  IInv'
<1>1. PICK p \in People :
           /\ member[p] # None
           /\ member' \in [People -> Membership \cup {None}]
           /\ \A q \in People \ {p} : member'[q] = member[q]
           /\ member'[p] # None => member'[p].role \in Roles /\ member'[p].id = member[p].id
           /\ OwnerStays(p, IF member'[p] = None THEN "none" ELSE member'[p].role)
           /\ Closed(r) /\ UNCHANGED <<account, invitation, past, signup, made, reads, late>>
  BY Touched
<1>2. TypeOK'
  <2>1. \A q \in People :
          member'[q] = None \/ (member'[q].role \in Roles /\ member'[q].id \in 0 .. made)
    BY <1>1 DEF IInv, TypeOK
  <2>. QED BY <1>1, <2>1, ClosedKeeps DEF IInv, TypeOK
<1>3. ShapeInv' /\ PastInv' /\ LateInv' /\ SignUpInv'
  BY <1>1, ClosedKeeps DEF IInv, ShapeInv, LateInv, SignUpInv
<1>4. HasOwner'
  <2>1. PICK o \in People : member[o] # None /\ member[o].role = "owner"
    BY DEF IInv, HasOwner
  <2>2. CASE o # p
    BY <1>1, <2>1, <2>2 DEF HasOwner
  <2>3. CASE o = p /\ member'[p] # None /\ member'[p].role = "owner"
    BY <2>3 DEF HasOwner
  <2>4. CASE o = p /\ (member'[p] = None \/ member'[p].role # "owner")
    <3>1. \E q \in People \ {p} : member[q] # None /\ member[q].role = "owner"
      BY <1>1, <2>1, <2>4 DEF OwnerStays
    <3>. QED BY <1>1, <3>1 DEF HasOwner
  <2>. QED BY <2>2, <2>3, <2>4
<1>5. SeatsAreReserved'
  <2>1. Members' \subseteq Members /\ Open' = Open
    BY <1>1 DEF Members, Open
  <2>. QED BY <1>1, <1>2, <2>1, SeatsKept DEF IInv
<1>. QED BY <1>2, <1>3, <1>4, <1>5 DEF IInv

\* Every step keeps the invariant.
LEMMA StepKeeps ==
  ASSUME MembershipAssumption, IInv, [Next]_vars
  PROVE  IInv'
<1>1. CASE UNCHANGED vars
  BY <1>1 DEF vars, IInv, TypeOK, ShapeInv, PastInv, LateInv, SignUpInv, HasOwner,
     SeatsAreReserved, Used
<1>2. ASSUME NEW r \in Idle, NEW p \in account, NEW target \in People, NEW role \in Roles,
             \/ \E kind \in {"role", "remove"} : Read(r, p, kind, None, target, role)
             \/ \E i \in Invitations : Read(r, p, "invite", i, target, role)
      PROVE  IInv'
  <2>1. r \in Requests /\ reads < MaxReads /\ p \in People
    BY DEF Idle, IInv, TypeOK
  <2>. QED BY <1>2, <2>1, ReadKeeps
<1>3. ASSUME NEW r \in Idle, NEW p \in account, NEW kind \in {"cancel", "accept"},
             NEW i \in Invitations, Read(r, p, kind, i, p, "member")
      PROVE  IInv'
  <2>1. r \in Requests /\ reads < MaxReads /\ p \in People
    BY DEF Idle, IInv, TypeOK
  <2>2. "member" \in Roles
    BY DEF Roles
  <2>. QED BY <1>3, <2>1, <2>2, ReadKeeps
<1>. QED
  BY <1>1, <1>2, <1>3, BeginSignUpKeeps, EndSignUpKeeps, ExpireKeeps, RefuseKeeps, InviteKeeps,
     CancelKeeps, AcceptKeeps, TouchKeeps DEF Next

\* The invariant holds of every behaviour.
LEMMA Invariance ==
  ASSUME MembershipAssumption
  PROVE  Spec => []IInv
BY InitHolds, StepKeeps, PTL DEF Spec

-----------------------------------------------------------------------------
(* Theorems *)

\* Every variable of the organization keeps its type.
THEOREM TypeCorrect ==
  ASSUME MembershipAssumption
  PROVE  Spec => []TypeOK
<1>1. IInv => TypeOK
  BY DEF IInv
<1>. QED BY <1>1, Invariance, PTL

\* Somebody owns the organization, whatever changes of role and removals overlap:
\* protectLastOwner counts the owners under the organization's lock.
THEOREM AlwaysOwned ==
  ASSUME MembershipAssumption
  PROVE  Spec => []HasOwner
<1>1. IInv => HasOwner
  BY DEF IInv
<1>. QED BY <1>1, Invariance, PTL

\* Members and pending invitations keep to the cap, but for one seat for each
\* invitation that was accepted after it had expired.
THEOREM SeatsHold ==
  ASSUME MembershipAssumption
  PROVE  Spec => []SeatsAreReserved
<1>1. IInv => SeatsAreReserved
  BY DEF IInv
<1>. QED BY <1>1, Invariance, PTL

\* The steps, one beside the other.
LEMMA AStep ==
  ASSUME [Next]_vars
  PROVE  \/ \E p \in People, i \in Invitations : BeginSignUp(p, i)
         \/ \E p \in People : EndSignUp(p)
         \/ \E i \in Invitations : Expire(i)
         \/ \E r, p, kind, i, target, role : Read(r, p, kind, i, target, role)
         \/ \E r \in Requests : Refuse(r) \/ Invite(r) \/ Cancel(r)
         \/ \E r \in Requests : Accept(r) \/ ChangeRole(r) \/ Remove(r)
         \/ UNCHANGED vars
<1>1. CASE \E r \in Idle, p \in account, target \in People, role \in Roles :
            \/ \E kind \in {"role", "remove"} : Read(r, p, kind, None, target, role)
            \/ \E i \in Invitations : Read(r, p, "invite", i, target, role)
  BY <1>1
<1>2. CASE \E r \in Idle, p \in account, kind \in {"cancel", "accept"}, i \in Invitations :
             Read(r, p, kind, i, p, "member")
  BY <1>2
<1>. QED BY <1>1, <1>2 DEF Next

\* A membership changes only by an acceptance, by a change of a role or by a removal;
\* no other step, and no failed request, touches one.
LEMMA MemberChanges ==
  ASSUME MembershipAssumption, IInv, [Next]_vars, member' # member
  PROVE  \E r \in Requests : Accept(r) \/ ChangeRole(r) \/ Remove(r)
<1>1. /\ \A p \in People, i \in Invitations : ~BeginSignUp(p, i)
      /\ \A p \in People : ~EndSignUp(p)
      /\ \A i \in Invitations : ~Expire(i)
  BY DEF BeginSignUp, EndSignUp, Expire
<1>2. \A r, p, kind, i, target, role : ~Read(r, p, kind, i, target, role)
  BY DEF Read
<1>3. \A r \in Requests : ~Refuse(r) /\ ~Invite(r) /\ ~Cancel(r)
  BY DEF Refuse, Invite, Cancel
<1>4. ~UNCHANGED vars
  BY DEF vars
<1>. QED BY <1>1, <1>2, <1>3, <1>4, AStep

\* What a step does to a membership it does by a right that is held then.
LEMMA ChangesByRight ==
  ASSUME MembershipAssumption, IInv, [Next]_vars
  PROVE  ChangedByRight
<1>1. ASSUME IInv, [Next]_vars, NEW p \in People, member[p] # None, member'[p] # member[p]
      PROVE  \E r \in Requests :
               /\ request[r].kind \in {"role", "remove"} /\ request'[r].kind = "none"
               /\ member[request[r].by] # None
               /\ MayTouch(member[request[r].by].role, member[p].role,
                           IF member'[p] = None THEN "none" ELSE member'[p].role)
  <2>1. PICK r \in Requests : Accept(r) \/ ChangeRole(r) \/ Remove(r)
    BY <1>1, MemberChanges
  <2>2. CASE Accept(r)
    BY <1>1, <2>2, Accepted DEF IInv, ShapeInv
  <2>3. CASE ChangeRole(r) \/ Remove(r)
    <3>1. /\ MayTouch(ActorRole(r), member[p].role,
                      IF member'[p] = None THEN "none" ELSE member'[p].role)
          /\ request[r].kind \in {"role", "remove"} /\ Closed(r) /\ past' = past
      BY <1>1, <2>3, Touched
    <3>2. request'[r].kind = "none"
      BY <1>1, <3>1, ClosedKeeps
    <3>3. ActorRole(r) # "none"
      BY <3>1 DEF MayTouch, Manages
    <3>4. member[request[r].by] # None /\ ActorRole(r) = member[request[r].by].role
      BY <3>3 DEF ActorRole
    <3>. QED BY <3>1, <3>2, <3>4
  <2>. QED BY <2>1, <2>2, <2>3
<1>. QED BY <1>1 DEF ChangedByRight

\* Roles change, and members go, by the hand of somebody who has the right to it at
\* that moment, whatever became of it since the request was read.
THEOREM ByRight ==
  ASSUME MembershipAssumption
  PROVE  Spec => [][ChangedByRight]_vars
<1>1. IInv /\ [Next]_vars => [ChangedByRight]_vars
  BY ChangesByRight
<1>. QED BY <1>1, Invariance, PTL DEF Spec

\* A step makes a member by an invitation, and ends an invitation once.
LEMMA JoinsByInvitation ==
  ASSUME MembershipAssumption, IInv, [Next]_vars
  PROVE  JoinsInvited
<1>1. ASSUME IInv, [Next]_vars, NEW p \in People, member[p] = None, member'[p] # None
      PROVE  \E i \in Invitations : /\ Invitee[i] = p /\ invitation[i].st = "pending"
                                    /\ invitation'[i].st = "accepted"
  <2>1. PICK r \in Requests : Accept(r) \/ ChangeRole(r) \/ Remove(r)
    BY <1>1, MemberChanges
  <2>2. CASE Accept(r)
    BY <1>1, <2>2, Accepted DEF IInv, ShapeInv
  <2>3. CASE ChangeRole(r) \/ Remove(r)
    BY <1>1, <2>3, Touched
  <2>. QED BY <2>1, <2>2, <2>3
<1>2. ASSUME IInv, [Next]_vars, NEW i \in Invitations,
             invitation[i].st \in {"canceled", "accepted"}
      PROVE  invitation'[i] = invitation[i]
  <2>1. ASSUME NEW r \in Requests, Invite(r) PROVE invitation'[i] = invitation[i]
    BY <1>2, <2>1, Invited
  <2>2. ASSUME NEW r \in Requests, Cancel(r) PROVE invitation'[i] = invitation[i]
    <3>1. PICK j : j = request[r].i
      OBVIOUS
    <3>2. invitation' = [invitation EXCEPT ![j].st = "canceled"] /\ invitation[j].st = "pending"
      BY <2>2, <3>1 DEF Cancel
    <3>. QED BY <1>2, <3>2 DEF IInv, TypeOK
  <2>3. ASSUME NEW r \in Requests, Accept(r) PROVE invitation'[i] = invitation[i]
    BY <1>2, <2>3, Accepted
  <2>4. SUFFICES ASSUME invitation' # invitation PROVE invitation'[i] = invitation[i]
    OBVIOUS
  <2>5. /\ \A p \in People, j \in Invitations : ~BeginSignUp(p, j)
        /\ \A p \in People : ~EndSignUp(p)
        /\ \A j \in Invitations : ~Expire(j)
    BY <2>4 DEF BeginSignUp, EndSignUp, Expire
  <2>6. \A r, p, kind, j, target, role : ~Read(r, p, kind, j, target, role)
    BY <2>4 DEF Read
  <2>7. \A r \in Requests : ~Refuse(r) /\ ~ChangeRole(r) /\ ~Remove(r)
    BY <2>4 DEF Refuse, ChangeRole, Remove
  <2>8. ~UNCHANGED vars
    BY <2>4 DEF vars
  <2>. QED BY <1>2, <2>1, <2>2, <2>3, <2>5, <2>6, <2>7, <2>8, AStep
<1>. QED BY <1>1, <1>2 DEF JoinsInvited

\* Nobody becomes a member but by an invitation to that person which is pending then,
\* and an invitation ends once.
THEOREM ByInvitation ==
  ASSUME MembershipAssumption
  PROVE  Spec => [][JoinsInvited]_vars
<1>1. IInv /\ [Next]_vars => [JoinsInvited]_vars
  BY JoinsByInvitation
<1>. QED BY <1>1, Invariance, PTL DEF Spec

\* A step makes an account on the invitation that its sign-up holds.
LEMMA SignsUpByInvitation ==
  ASSUME MembershipAssumption, IInv, [Next]_vars
  PROVE  SignsUpInvited
<1>1. ASSUME IInv, [Next]_vars, NEW p \in account' \ account
      PROVE  \E i \in Invitations : signup[p] = i /\ (invitation[i].st = "pending" \/ i \in past)
  <2>1. PICK q \in People : EndSignUp(q)
    <3>1. /\ \A q \in People, i \in Invitations : ~BeginSignUp(q, i)
          /\ \A i \in Invitations : ~Expire(i)
      BY <1>1 DEF BeginSignUp, Expire
    <3>2. \A r, q, kind, i, target, role : ~Read(r, q, kind, i, target, role)
      BY <1>1 DEF Read
    <3>3. \A r \in Requests : ~Refuse(r) /\ ~Invite(r) /\ ~Cancel(r)
      BY <1>1 DEF Refuse, Invite, Cancel
    <3>4. \A r \in Requests : ~Accept(r) /\ ~ChangeRole(r) /\ ~Remove(r)
      BY <1>1 DEF Accept, ChangeRole, Remove
    <3>5. ~UNCHANGED vars
      BY <1>1 DEF vars
    <3>. QED BY <1>1, <3>1, <3>2, <3>3, <3>4, <3>5, AStep
  <2>2. p = q /\ signup[p] # None
    BY <1>1, <2>1 DEF EndSignUp
  <2>. QED BY <1>1, <2>2 DEF IInv, SignUpInv, TypeOK
<1>. QED BY <1>1 DEF SignsUpInvited

\* An account made on an invitation is made while it is pending, or has just expired:
\* canceling and accepting wait for the sign-up.
THEOREM SignUpsInvited ==
  ASSUME MembershipAssumption
  PROVE  Spec => [][SignsUpInvited]_vars
<1>1. IInv /\ [Next]_vars => [SignsUpInvited]_vars
  BY SignsUpByInvitation
<1>. QED BY <1>1, Invariance, PTL DEF Spec

-----------------------------------------------------------------------------
(* Credentials *)

CONSTANTS crClis, crKey, crTokens, crDaemons
VARIABLES crAuthorization, crAdmin, crCredential, crAuthorized, crToken,
          crOverdue, crMachine, crDaemon, crDenied

Cr == INSTANCE Credentials WITH
    Clis <- crClis, Key <- crKey, Tokens <- crTokens, Daemons <- crDaemons,
    authorization <- crAuthorization, admin <- crAdmin,
    credential <- crCredential, authorized <- crAuthorized, token <- crToken,
    overdue <- crOverdue, machine <- crMachine, daemon <- crDaemon,
    denied <- crDenied

\* A command line has a credential only once it was disclosed, a denied one never.
CrDisclosedInv ==
  /\ \A c \in crClis : crCredential[c] # "none" => crAuthorization[c] \in {"disclosed", "expired"}
  /\ \A c \in crDenied : crCredential[c] = "none" /\ crAuthorization[c] \in {"denied", "expired"}

\* A token of the key that can still be used comes from a key that is still valid.
CrKeyInv ==
  \A t \in crTokens : crToken[t] = [st |-> "issued", by |-> crKey] /\ t \notin crOverdue => crCredential[crKey] = "live"

\* The token of a daemon is used up.
CrConsumedInv == \A d \in crDaemons : crDaemon[d] # None => crToken[crDaemon[d]].st = "consumed"

CrIInv == Cr!TypeOK /\ CrDisclosedInv /\ CrKeyInv /\ CrConsumedInv /\ Cr!OneDaemonPerToken

-----------------------------------------------------------------------------
LEMMA CrInitially ==
  ASSUME Cr!CredentialsAssumption, Cr!Init
  PROVE  CrIInv
<1>1. Cr!TypeOK
  BY DEF Cr!Init, Cr!TypeOK, Cr!Issuers
<1>2. CrDisclosedInv /\ CrKeyInv /\ CrConsumedInv
  BY DEF Cr!CredentialsAssumption, Cr!Init, CrDisclosedInv, CrKeyInv, CrConsumedInv, Cr!Issuers
<1>3. Cr!OneDaemonPerToken
  BY DEF Cr!Init, Cr!OneDaemonPerToken
<1>. QED BY <1>1, <1>2, <1>3 DEF CrIInv

\* A command line is authorized: the tokens and the daemons are as they were.
LEMMA CrAuthorizationKeeps ==
  ASSUME Cr!CredentialsAssumption, CrIInv, NEW c \in crClis,
         \/ Cr!Start(c) \/ Cr!Poll(c) \/ Cr!Inspect(c)
         \/ \E decision \in {"approved", "denied"} : Cr!Decide(c, decision)
  PROVE  CrIInv'
<1>0. c # crKey /\ c \in Cr!Issuers /\ crKey \in Cr!Issuers
  BY DEF Cr!CredentialsAssumption, Cr!Issuers
<1>1. /\ UNCHANGED <<crAdmin, crAuthorized, crToken, crOverdue, crMachine, crDaemon>>
      /\ \E st : crAuthorization' = [crAuthorization EXCEPT ![c] = st] /\ st \in {"pending", "approved", "denied", "expired", "disclosed"}
      /\ crCredential' = crCredential \/ crCredential' = [crCredential EXCEPT ![c] = "live"]
      /\ crDenied' \subseteq crClis
  BY DEF Cr!Start, Cr!Poll, Cr!Inspect, Cr!Decide, CrIInv, Cr!TypeOK
<1>2. Cr!TypeOK' /\ crCredential'[crKey] = crCredential[crKey]
  BY <1>0, <1>1 DEF CrIInv, Cr!TypeOK
<1>3. CrDisclosedInv'
  <2>1. CASE Cr!Start(c)
    BY <1>0, <2>1 DEF Cr!Start, CrIInv, CrDisclosedInv, Cr!TypeOK
  <2>2. CASE Cr!Poll(c)
    <3>1. CASE /\ crAuthorization' = [crAuthorization EXCEPT ![c] = "expired"]
                /\ UNCHANGED <<crCredential, crDenied>>
      BY <3>1 DEF CrIInv, CrDisclosedInv, Cr!TypeOK
    <3>2. CASE /\ crAuthorization[c] = "approved" /\ UNCHANGED crDenied
               /\ crAuthorization' = [crAuthorization EXCEPT ![c] = "disclosed"]
               /\ crCredential' = [crCredential EXCEPT ![c] = "live"]
      <4>1. c \notin crDenied
        BY <3>2 DEF CrIInv, CrDisclosedInv
      <4>2. \A b \in crClis : /\ crAuthorization'[b] = IF b = c THEN "disclosed" ELSE crAuthorization[b]
                            /\ crCredential'[b] = IF b = c THEN "live" ELSE crCredential[b]
        BY <3>2 DEF CrIInv, Cr!TypeOK, Cr!Issuers
      <4>3. \A b \in crClis : crCredential'[b] # "none" => crAuthorization'[b] \in {"disclosed", "expired"}
        BY <4>2 DEF CrIInv, CrDisclosedInv
      <4>4. \A b \in crDenied' : crCredential'[b] = "none" /\ crAuthorization'[b] \in {"denied", "expired"}
        BY <3>2, <4>1, <4>2 DEF CrIInv, CrDisclosedInv, Cr!TypeOK
      <4>. QED BY <4>3, <4>4 DEF CrDisclosedInv
    <3>. QED BY <2>2, <3>1, <3>2 DEF Cr!Poll
  <2>3. CASE Cr!Inspect(c)
    BY <1>0, <2>3 DEF Cr!Inspect, CrIInv, CrDisclosedInv, Cr!TypeOK
  <2>4. ASSUME NEW decision \in {"approved", "denied"}, Cr!Decide(c, decision) PROVE CrDisclosedInv'
    <3>1. /\ crAuthorization[c] = "pending"
          /\ crAuthorization' = [crAuthorization EXCEPT ![c] = decision]
          /\ crDenied' = IF decision = "denied" THEN crDenied \cup {c} ELSE crDenied
          /\ UNCHANGED crCredential
      BY <2>4 DEF Cr!Decide, Cr!Decidable
    <3>2. crCredential[c] = "none" /\ c \notin crDenied
      BY <3>1 DEF CrIInv, CrDisclosedInv
    <3>3. \A b \in crClis : crAuthorization'[b] = IF b = c THEN decision ELSE crAuthorization[b]
      BY <3>1 DEF CrIInv, Cr!TypeOK
    <3>. QED BY <3>1, <3>2, <3>3 DEF CrIInv, CrDisclosedInv, Cr!TypeOK
  <2>. QED BY <2>1, <2>2, <2>3, <2>4
<1>4. CrKeyInv' /\ CrConsumedInv' /\ Cr!OneDaemonPerToken'
  BY <1>1, <1>2 DEF CrIInv, CrKeyInv, CrConsumedInv, Cr!OneDaemonPerToken
<1>. QED BY <1>2, <1>3, <1>4 DEF CrIInv

\* A token is issued by a credential that is valid then.
LEMMA CrIssueKeeps ==
  ASSUME Cr!CredentialsAssumption, CrIInv, NEW i \in Cr!Issuers, NEW t \in crTokens, Cr!Issue(i, t)
  PROVE  CrIInv'
<1>1. /\ UNCHANGED <<crAuthorization, crAdmin, crCredential, crOverdue, crMachine, crDaemon,
                     crDenied>>
      /\ crToken[t].st = "none" /\ crAuthorized' \subseteq Cr!Issuers
      /\ \/ crToken' = crToken
         \/ crCredential[i] = "live" /\ crToken' = [crToken EXCEPT ![t] = [st |-> "issued", by |-> i]]
  BY DEF Cr!Issue, Cr!StillLive, CrIInv, Cr!TypeOK
<1>2. Cr!TypeOK'
  BY <1>1 DEF CrIInv, Cr!TypeOK
<1>3. CrKeyInv'
  BY <1>1 DEF CrIInv, CrKeyInv, Cr!TypeOK
<1>4. CrDisclosedInv' /\ Cr!OneDaemonPerToken'
  BY <1>1 DEF CrIInv, CrDisclosedInv, Cr!OneDaemonPerToken
<1>5. CrConsumedInv'
  BY <1>1 DEF CrIInv, CrConsumedInv, Cr!TypeOK
<1>. QED BY <1>2, <1>3, <1>4, <1>5 DEF CrIInv

\* A revoked key takes its open tokens along.
LEMMA CrRevokeKeeps ==
  ASSUME Cr!CredentialsAssumption, CrIInv, NEW i \in Cr!Issuers, Cr!Revoke(i)
  PROVE  CrIInv'
<1>0. crKey \in Cr!Issuers /\ crClis \subseteq Cr!Issuers
  BY DEF Cr!Issuers
<1>1. /\ UNCHANGED <<crAuthorization, crAdmin, crAuthorized, crToken, crMachine, crDaemon,
                     crDenied>>
      /\ crCredential[i] = "live" /\ crCredential' = [crCredential EXCEPT ![i] = "revoked"]
      /\ crOverdue' = IF i = crKey THEN crOverdue \cup Cr!OpenOf(crKey) ELSE crOverdue
  BY DEF Cr!Revoke, Cr!EndedWith
<1>2. Cr!TypeOK'
  BY <1>1 DEF CrIInv, Cr!TypeOK, Cr!OpenOf
<1>3. CrDisclosedInv'
  BY <1>0, <1>1 DEF CrIInv, CrDisclosedInv, Cr!TypeOK
<1>4. CrKeyInv'
  <2>1. CASE i = crKey
    BY <1>1, <2>1 DEF CrKeyInv, Cr!OpenOf
  <2>2. CASE i # crKey
    BY <1>0, <1>1, <2>2 DEF CrIInv, CrKeyInv, Cr!TypeOK
  <2>. QED BY <2>1, <2>2
<1>5. CrConsumedInv' /\ Cr!OneDaemonPerToken'
  BY <1>0, <1>1 DEF CrIInv, CrConsumedInv, Cr!OneDaemonPerToken, Cr!TypeOK
<1>. QED BY <1>2, <1>3, <1>4, <1>5 DEF CrIInv

\* A daemon enrolls with a token that nobody has used; the key of a sprite ends with it.
LEMMA CrEnrollKeeps ==
  ASSUME Cr!CredentialsAssumption, CrIInv, NEW d \in crDaemons, NEW t \in crTokens, Cr!Enroll(d, t)
  PROVE  CrIInv'
<1>0. crKey \in Cr!Issuers /\ crClis \subseteq Cr!Issuers /\ crKey \notin crClis
  BY DEF Cr!Issuers, Cr!CredentialsAssumption
<1>1. /\ UNCHANGED <<crAuthorization, crAdmin, crAuthorized, crDenied>>
      /\ crDaemon[d] = None /\ crToken[t].st = "issued" /\ t \notin crOverdue
      /\ crDaemon' = [crDaemon EXCEPT ![d] = t] /\ crToken' = [crToken EXCEPT ![t].st = "consumed"]
  BY DEF Cr!Enroll, Cr!Consumable
<1>2. \/ UNCHANGED <<crMachine, crCredential, crOverdue>>
      \/ /\ crMachine' = "alive" /\ crCredential' = [crCredential EXCEPT ![crKey] = "revoked"]
         /\ crOverdue' = crOverdue \cup (Cr!OpenOf(crKey) \ {t})
  BY DEF Cr!Enroll
<1>3. Cr!TypeOK'
  BY <1>0, <1>1, <1>2 DEF CrIInv, Cr!TypeOK, Cr!OpenOf
<1>4. CrDisclosedInv'
  BY <1>0, <1>1, <1>2 DEF CrIInv, CrDisclosedInv, Cr!TypeOK
<1>5. \A s \in crTokens : /\ crToken'[s] = IF s = t THEN [crToken[t] EXCEPT !.st = "consumed"] ELSE crToken[s]
                        /\ crToken'[t].st = "consumed"
  BY <1>1 DEF CrIInv, Cr!TypeOK
<1>6. CrKeyInv'
  <2>1. SUFFICES ASSUME NEW s \in crTokens, crToken'[s] = [st |-> "issued", by |-> crKey], s \notin crOverdue'
                 PROVE  crCredential'[crKey] = "live"
    BY DEF CrKeyInv
  <2>2. s # t /\ crToken[s] = [st |-> "issued", by |-> crKey]
    BY <1>5, <2>1
  <2>3. s \in Cr!OpenOf(crKey)
    BY <2>2 DEF Cr!OpenOf
  <2>4. UNCHANGED <<crCredential, crOverdue>>
    BY <1>2, <2>1, <2>2, <2>3
  <2>. QED BY <2>1, <2>2, <2>4 DEF CrIInv, CrKeyInv
<1>7. \A e \in crDaemons : crDaemon[e] # t /\ crDaemon'[e] = IF e = d THEN t ELSE crDaemon[e]
  BY <1>1 DEF CrIInv, CrConsumedInv, Cr!TypeOK, Cr!CredentialsAssumption
<1>8. CrConsumedInv'
  BY <1>5, <1>7 DEF CrIInv, CrConsumedInv, Cr!TypeOK
<1>9. Cr!OneDaemonPerToken'
  <2>1. \A e, f \in crDaemons : crDaemon'[e] # None /\ crDaemon'[e] = crDaemon'[f] => e = f
    BY <1>7 DEF CrIInv, Cr!OneDaemonPerToken
  <2>2. crMachine' = "alive" => crCredential'[crKey] = "revoked"
    BY <1>0, <1>2 DEF CrIInv, Cr!OneDaemonPerToken, Cr!TypeOK
  <2>. QED BY <2>1, <2>2 DEF Cr!OneDaemonPerToken
<1>. QED BY <1>3, <1>4, <1>6, <1>8, <1>9 DEF CrIInv

\* Every step keeps IInv.
LEMMA CrInductive ==
  ASSUME Cr!CredentialsAssumption, CrIInv, [Cr!Next]_(Cr!vars)
  PROVE  CrIInv'
<1>1. ASSUME NEW x \in crClis \cup crTokens, Cr!Expire(x) PROVE CrIInv'
  BY <1>1 DEF Cr!Expire, CrIInv, Cr!TypeOK, CrDisclosedInv, CrKeyInv, CrConsumedInv,
     Cr!OneDaemonPerToken
<1>2. ASSUME NEW i \in Cr!Issuers, Cr!Authorize(i) PROVE CrIInv'
  BY <1>2 DEF Cr!Authorize, CrIInv, Cr!TypeOK, CrDisclosedInv, CrKeyInv, CrConsumedInv,
     Cr!OneDaemonPerToken
<1>3. CASE Cr!Demote
  BY <1>3 DEF Cr!Demote, CrIInv, Cr!TypeOK, CrDisclosedInv, CrKeyInv, CrConsumedInv,
     Cr!OneDaemonPerToken
<1>4. CASE UNCHANGED Cr!vars
  BY <1>4
     DEF Cr!vars, CrIInv, Cr!TypeOK, CrDisclosedInv, CrKeyInv, CrConsumedInv, Cr!OneDaemonPerToken
<1>. QED
  BY <1>1, <1>2, <1>3, <1>4, CrAuthorizationKeeps, CrIssueKeeps, CrRevokeKeeps, CrEnrollKeeps
     DEF Cr!Next

\* The invariant of the credentials.
THEOREM CrInvariance ==
  ASSUME Cr!CredentialsAssumption
  PROVE  Cr!Spec => []CrIInv
<1>. QED BY CrInitially, CrInductive, PTL DEF Cr!Spec

\* The invariant says that a denial is final and a token used once.
LEMMA CrSafe ==
  ASSUME CrIInv
  PROVE  Cr!TypeOK /\ Cr!DenialIsFinal /\ Cr!OneDaemonPerToken
BY DEF CrIInv, CrDisclosedInv, Cr!DenialIsFinal

\* A denied command line never gets a credential, and a token enrols one daemon
\* (decideCliAuthorization, pollCliAuthorization, enrollDaemon of src/src/db/pg.ts).
THEOREM CrDenialsLast ==
  ASSUME Cr!CredentialsAssumption
  PROVE  Cr!Spec => [](Cr!DenialIsFinal /\ Cr!OneDaemonPerToken)
<1>. QED BY CrSafe, CrInvariance, PTL

LEMMA CrEnrollsByLiveKey ==
  ASSUME Cr!CredentialsAssumption, CrIInv, [Cr!Next]_(Cr!vars)
  PROVE  Cr!EnrolledByLiveKey
<1>1. SUFFICES ASSUME NEW d \in crDaemons, crDaemon'[d] \in crTokens \ {crDaemon[d]},
                      crToken[crDaemon'[d]].by = crKey
               PROVE  crCredential[crKey] = "live"
  BY DEF Cr!EnrolledByLiveKey
<1>2. PICK e \in crDaemons, t \in crTokens : Cr!Enroll(e, t)
  BY <1>1 DEF Cr!Next, Cr!vars, Cr!Start, Cr!Poll, Cr!Inspect, Cr!Decide, Cr!Expire,
     Cr!Authorize, Cr!Revoke, Cr!Issue, Cr!Demote
<1>3. crDaemon' = [crDaemon EXCEPT ![e] = t] /\ crToken[t].st = "issued" /\ t \notin crOverdue
  BY <1>2 DEF Cr!Enroll, Cr!Consumable
<1>4. crDaemon'[d] = t
  BY <1>1, <1>3 DEF CrIInv, Cr!TypeOK
<1>5. crToken[t] = [st |-> "issued", by |-> crKey]
  BY <1>1, <1>3, <1>4 DEF CrIInv, Cr!TypeOK
<1>. QED BY <1>3, <1>5 DEF CrIInv, CrKeyInv

\* A key that enrols a daemon is valid then (enrollDaemon).
THEOREM CrEnrollmentIsCurrent ==
  ASSUME Cr!CredentialsAssumption
  PROVE  Cr!Spec => [][Cr!EnrolledByLiveKey]_(Cr!vars)
<1>1. CrIInv /\ [Cr!Next]_(Cr!vars) => [Cr!EnrolledByLiveKey]_(Cr!vars)
  BY CrEnrollsByLiveKey
<1>. QED BY <1>1, CrInvariance, PTL DEF Cr!Spec

-----------------------------------------------------------------------------
(* Instance setup *)

CONSTANTS seClaims, seStarts, sePeople, sePreserved
VARIABLES seComplete, seUsers, seOperators, seOwner, seCaller, seInserting

Se == INSTANCE InstanceSetup WITH
    Claims <- seClaims, Starts <- seStarts, People <- sePeople,
    Preserved <- sePreserved, complete <- seComplete, users <- seUsers,
    operators <- seOperators, owner <- seOwner, caller <- seCaller,
    inserting <- seInserting

SeBusy(c) == seCaller[c].at \in {"row", "tables", "counted"}
\* The tables are locked by this claim.
SeLocking(c) == c \in seClaims /\ seCaller[c].at \in {"tables", "counted"}

\* One transaction at a time holds the row.
SeRowInv == \A c, d \in Se!Callers : SeBusy(c) /\ SeBusy(d) => c = d

\* Under the tables' lock nothing is inserted, and what a claim has counted stays so.
SeLockedInv ==
  \A c \in Se!Callers : SeLocking(c) =>
    /\ seInserting = {}
    /\ seCaller[c].at = "counted" /\ seCaller[c].pristine => ~seComplete /\ seUsers = {} /\ Se!Existing = {}

\* What a start has resolved stays so.
SeResolvedInv ==
  \A c \in seStarts :
    /\ seCaller[c].at # "tables"
    /\ seCaller[c].at \in {"idle", "row"} => seCaller[c].adopts = None
    /\ seCaller[c].at = "counted" =>
         ~seComplete /\ (seCaller[c].adopts # None => seOwner[seCaller[c].adopts] = "nobody")

\* Who has not made an organization has none.
SeNewInv ==
  /\ \A c \in Se!Callers : seCaller[c].at # "done" => seOwner[c] = None
  /\ \A p \in seInserting : seOwner[p] = None

\* There is an operator, with an organization, once the bootstrap is completed.
SeOperatorInv ==
  \/ ~seComplete /\ seOperators = {}
  \/ seComplete /\ \E c \in Se!Callers : seOperators = {c} /\ \E o \in Se!Organizations : seOwner[o] = c

SeIInv == Se!TypeOK /\ SeRowInv /\ SeLockedInv /\ SeResolvedInv /\ SeNewInv /\ SeOperatorInv

-----------------------------------------------------------------------------
LEMMA SeInitially ==
  ASSUME Se!SetupAssumption, Se!Init
  PROVE  SeIInv
<1>1. /\ seComplete = FALSE /\ seUsers = {} /\ seOperators = {} /\ seInserting = {}
      /\ \A c \in Se!Callers : seCaller[c] = [at |-> "idle", pristine |-> FALSE, adopts |-> None]
      /\ seCaller \in [Se!Callers -> [at : {"idle", "row", "tables", "counted", "done"},
                                 pristine : BOOLEAN, adopts : Se!Organizations \cup {None}]]
  BY DEF Se!Init
<1>2. PICK kept \in SUBSET sePreserved :
        seOwner = [o \in Se!Organizations |-> IF o \in kept THEN "nobody" ELSE None]
  BY DEF Se!Init
<1>3. Se!TypeOK
  BY <1>1, <1>2 DEF Se!TypeOK
<1>4. SeRowInv /\ SeLockedInv /\ SeResolvedInv /\ SeOperatorInv
  BY <1>1 DEF SeRowInv, SeLockedInv, SeResolvedInv, SeOperatorInv, SeBusy, SeLocking, Se!Callers
<1>5. SeNewInv
  BY <1>1, <1>2 DEF SeNewInv, Se!SetupAssumption, Se!Organizations
<1>. QED BY <1>3, <1>4, <1>5 DEF SeIInv

\* A transaction goes on, or ends without effect.
LEMMA SeMovesKeep ==
  ASSUME Se!SetupAssumption, SeIInv, NEW c \in Se!Callers,
         Se!LockRow(c) \/ Se!RollBack(c) \/ Se!LockTables(c) \/ Se!Count(c) \/ Se!Resolve(c)
  PROVE  SeIInv'
<1>1. /\ UNCHANGED <<seComplete, seUsers, seOperators, seOwner, seInserting>>
      /\ Se!Existing' = Se!Existing
  BY DEF Se!LockRow, Se!RollBack, Se!LockTables, Se!Count, Se!Resolve, Se!Existing
<1>2. /\ seCaller' \in [Se!Callers -> [at : {"idle", "row", "tables", "counted", "done"},
                                  pristine : BOOLEAN, adopts : Se!Organizations \cup {None}]]
      /\ \A d \in Se!Callers \ {c} : seCaller'[d] = seCaller[d]
  <2>1. CASE Se!LockRow(c) \/ Se!RollBack(c) \/ Se!LockTables(c)
    BY <2>1 DEF Se!LockRow, Se!RollBack, Se!LockTables, Se!To, SeIInv, Se!TypeOK
  <2>2. CASE Se!Count(c)
    <3>1. PICK b \in BOOLEAN : seCaller' = [seCaller EXCEPT ![c].at = "counted", ![c].pristine = b]
      BY <2>2 DEF Se!Count
    <3>. QED BY <3>1 DEF SeIInv, Se!TypeOK
  <2>3. CASE Se!Resolve(c)
    <3>1. ASSUME NEW o \in Se!Adoptable, seCaller' = [seCaller EXCEPT ![c].at = "counted", ![c].adopts = o]
          PROVE  o \in Se!Organizations
      BY DEF Se!Adoptable, Se!Existing
    <3>. QED BY <2>3, <3>1 DEF Se!Resolve, Se!To, SeIInv, Se!TypeOK
  <2>. QED BY <2>1, <2>2, <2>3
<1>3. Se!TypeOK'
  BY <1>1, <1>2 DEF SeIInv, Se!TypeOK
<1>4. SeRowInv'
  <2>1. \A d \in Se!Callers \ {c} : SeBusy(d)' <=> SeBusy(d)
    BY <1>2 DEF SeBusy
  <2>2. CASE Se!LockRow(c)
    BY <2>1, <2>2 DEF Se!LockRow, Se!RowFree, SeRowInv, SeBusy
  <2>3. CASE Se!RollBack(c) \/ Se!LockTables(c) \/ Se!Count(c) \/ Se!Resolve(c)
    BY <2>1, <2>3 DEF Se!RollBack, Se!LockTables, Se!Count, Se!Resolve, SeRowInv, SeBusy, SeIInv
  <2>. QED BY <2>2, <2>3
<1>5. SeLockedInv'
  <2>1. \A d \in Se!Callers \ {c} : SeLocking(d)' <=> SeLocking(d)
    BY <1>2 DEF SeLocking
  <2>2. SeLocking(c)' =>
          /\ seInserting = {}
          /\ seCaller'[c].at = "counted" /\ seCaller'[c].pristine => ~seComplete /\ seUsers = {} /\ Se!Existing = {}
    <3>1. CASE Se!LockRow(c) \/ Se!RollBack(c) \/ Se!LockTables(c)
      BY <3>1 DEF Se!LockRow, Se!RollBack, Se!LockTables, Se!To, SeLocking, SeIInv, Se!TypeOK
    <3>2. CASE Se!Count(c)
      <4>1. /\ seCaller'[c].pristine = (~seComplete /\ seUsers = {} /\ Se!Existing = {})
            /\ seCaller'[c].at = "counted" /\ SeLocking(c)
        BY <3>2 DEF Se!Count, SeIInv, Se!TypeOK, SeLocking
      <4>. QED BY <4>1 DEF SeIInv, SeLockedInv
    <3>3. CASE Se!Resolve(c)
      BY <3>3 DEF Se!Resolve, SeLocking, Se!SetupAssumption
    <3>. QED BY <3>1, <3>2, <3>3
  <2>. QED BY <1>1, <1>2, <2>1, <2>2 DEF SeIInv, SeLockedInv
<1>6. SeResolvedInv'
  <2>1. c \in seStarts =>
          /\ seCaller'[c].at # "tables"
          /\ seCaller'[c].at \in {"idle", "row"} => seCaller'[c].adopts = None
          /\ seCaller'[c].at = "counted" =>
               ~seComplete /\ (seCaller'[c].adopts # None => seOwner[seCaller'[c].adopts] = "nobody")
    <3>1. CASE Se!LockRow(c) \/ Se!RollBack(c)
      BY <3>1 DEF Se!LockRow, Se!RollBack, Se!To, SeIInv, Se!TypeOK, SeResolvedInv
    <3>2. CASE Se!LockTables(c) \/ Se!Count(c)
      BY <3>2 DEF Se!LockTables, Se!Count, Se!SetupAssumption
    <3>3. CASE Se!Resolve(c)
      <4>1. CASE \E o \in Se!Adoptable : seCaller' = [seCaller EXCEPT ![c].at = "counted", ![c].adopts = o]
        <5>1. PICK o \in Se!Adoptable : seCaller' = [seCaller EXCEPT ![c].at = "counted", ![c].adopts = o]
          BY <4>1
        <5>2. seCaller'[c].at = "counted" /\ seCaller'[c].adopts = o
          BY <5>1 DEF SeIInv, Se!TypeOK
        <5>. QED BY <3>3, <5>2 DEF Se!Adoptable, Se!Resolve
      <4>2. CASE Se!Existing = {} /\ Se!To(c, "counted")
        <5>1. seCaller'[c].at = "counted" /\ seCaller'[c].adopts = seCaller[c].adopts
          BY <4>2 DEF Se!To, SeIInv, Se!TypeOK
        <5>. QED BY <3>3, <4>2, <5>1 DEF Se!Resolve, SeIInv, SeResolvedInv
      <4>. QED BY <3>3, <4>1, <4>2 DEF Se!Resolve
    <3>. QED BY <3>1, <3>2, <3>3
  <2>2. \A d \in seStarts \ {c} : seCaller'[d] = seCaller[d]
    BY <1>2 DEF Se!Callers
  <2>. QED BY <1>1, <2>1, <2>2 DEF SeIInv, SeResolvedInv
<1>7. SeNewInv'
  <2>1. seCaller'[c].at # "done" => seCaller[c].at # "done"
    BY DEF Se!LockRow, Se!LockTables, Se!Count, Se!Resolve, Se!RollBack
  <2>. QED BY <1>1, <1>2, <2>1 DEF SeIInv, SeNewInv
<1>8. SeOperatorInv'
  BY <1>1 DEF SeIInv, SeOperatorInv
<1>. QED BY <1>3, <1>4, <1>5, <1>6, <1>7, <1>8 DEF SeIInv

\* A claim, on what it has counted.
LEMMA SeClaimKeeps ==
  ASSUME Se!SetupAssumption, SeIInv, NEW c \in Se!Callers, Se!CommitClaim(c)
  PROVE  /\ SeIInv'
         /\ seUsers = {} /\ Se!Existing = {} /\ seOperators' = {c}
         /\ \A o \in Se!Organizations : seOwner[o] = None
<1>1. /\ c \in seClaims /\ SeLocking(c) /\ SeBusy(c) /\ seCaller[c].at = "counted"
      /\ seCaller[c].pristine
      /\ seUsers' = seUsers \cup {c} /\ seOperators' = seOperators \cup {c}
      /\ seOwner' = [seOwner EXCEPT ![c] = c]
      /\ seComplete' = TRUE /\ UNCHANGED seInserting
      /\ seCaller' = [seCaller EXCEPT ![c].at = "done"]
  BY DEF Se!CommitClaim, Se!To, SeLocking, SeBusy
<1>2. ~seComplete /\ seUsers = {} /\ Se!Existing = {} /\ seInserting = {} /\ seOperators = {}
  BY <1>1 DEF SeIInv, SeLockedInv, SeOperatorInv, Se!TypeOK
<1>3. \A o \in Se!Organizations : seOwner[o] = None
  BY <1>2 DEF Se!Existing
<1>4. \A d \in Se!Callers \ {c} : seCaller'[d] = seCaller[d] /\ ~SeBusy(d)
  BY <1>1 DEF SeIInv, Se!TypeOK, SeRowInv
<1>5. seCaller'[c].at = "done"
  BY <1>1 DEF SeIInv, Se!TypeOK
<1>6. Se!TypeOK'
  BY <1>1, <1>2 DEF SeIInv, Se!TypeOK, Se!Callers
<1>7. c \in Se!Organizations /\ seOwner'[c] = c /\ \A o \in Se!Organizations \ {c} : seOwner'[o] = seOwner[o]
  BY <1>1 DEF SeIInv, Se!TypeOK, Se!Organizations
<1>8. SeRowInv' /\ SeLockedInv' /\ SeResolvedInv'
  BY <1>1, <1>4, <1>5
     DEF SeRowInv, SeLockedInv, SeResolvedInv, SeBusy, SeLocking, Se!Callers, SeIInv
<1>9. SeNewInv'
  BY <1>1, <1>2, <1>4, <1>5, <1>7 DEF SeIInv, SeNewInv, Se!Organizations
<1>10. SeOperatorInv'
  BY <1>1, <1>2, <1>7 DEF SeOperatorInv
<1>. QED BY <1>1, <1>2, <1>3, <1>6, <1>8, <1>9, <1>10 DEF SeIInv

\* A bootstrap, of the organization that it has resolved.
LEMMA SeStartKeeps ==
  ASSUME Se!SetupAssumption, SeIInv, NEW c \in Se!Callers, Se!CommitStart(c)
  PROVE  /\ SeIInv'
         /\ c \in seStarts /\ seOperators' = seOperators \cup {c}
         /\ \A o \in Se!Organizations : seOwner'[o] # seOwner[o] => seOwner[o] \in {None, "nobody"}
<1> DEFINE o == IF seCaller[c].adopts = None THEN c ELSE seCaller[c].adopts
<1>1. /\ c \in seStarts /\ SeBusy(c) /\ seCaller[c].at = "counted" /\ ~Se!TablesLocked
      /\ seUsers' = seUsers \cup {c} /\ seOperators' = seOperators \cup {c}
      /\ seOwner' = [seOwner EXCEPT ![o] = c]
      /\ seComplete' = TRUE /\ UNCHANGED seInserting
      /\ seCaller' = [seCaller EXCEPT ![c].at = "done"]
  BY DEF Se!CommitStart, Se!To, SeBusy
<1>2. /\ ~seComplete /\ seOperators = {} /\ seOwner[c] = None
      /\ seCaller[c].adopts # None => seOwner[seCaller[c].adopts] = "nobody"
  BY <1>1 DEF SeIInv, SeResolvedInv, SeOperatorInv, SeNewInv
<1>3. o \in Se!Organizations /\ seOwner[o] \in {None, "nobody"}
  BY <1>2 DEF SeIInv, Se!TypeOK, Se!Organizations
<1>4. seOwner'[o] = c /\ \A x \in Se!Organizations \ {o} : seOwner'[x] = seOwner[x]
  BY <1>1, <1>3 DEF SeIInv, Se!TypeOK
<1>5. \A d \in Se!Callers \ {c} : seCaller'[d] = seCaller[d] /\ ~SeBusy(d)
  BY <1>1 DEF SeIInv, Se!TypeOK, SeRowInv
<1>6. seCaller'[c].at = "done"
  BY <1>1 DEF SeIInv, Se!TypeOK
<1>7. Se!TypeOK'
  BY <1>1, <1>2, <1>3 DEF SeIInv, Se!TypeOK, Se!Callers
<1>8. SeRowInv' /\ SeLockedInv' /\ SeResolvedInv'
  <2>1. \A d \in Se!Callers : ~SeBusy(d)'
    BY <1>5, <1>6 DEF SeBusy
  <2>2. \A d \in seStarts : seCaller'[d].at \in {"idle", "row"} => seCaller'[d].adopts = None
    BY <1>5, <1>6 DEF SeIInv, SeResolvedInv, Se!Callers
  <2>. QED BY <2>1, <2>2 DEF SeRowInv, SeLockedInv, SeResolvedInv, SeBusy, SeLocking, Se!Callers
<1>9. SeNewInv'
  <2>1. \A d \in Se!Callers \ {c} : seCaller'[d].at # "done" => o # d
    BY <1>2, <1>5 DEF SeIInv, SeNewInv, Se!SetupAssumption
  <2>2. \A p \in seInserting : o # p
    BY <1>1, <1>2 DEF SeIInv, SeNewInv, Se!TypeOK, Se!SetupAssumption
  <2>3. \A d \in Se!Callers \ {c} : seCaller'[d].at # "done" => seOwner'[d] = None
    BY <1>4, <1>5, <2>1 DEF SeIInv, SeNewInv, Se!Organizations
  <2>4. \A p \in seInserting : seOwner'[p] = None
    BY <1>4, <2>2 DEF SeIInv, SeNewInv, Se!Organizations, Se!TypeOK
  <2>. QED BY <1>1, <1>6, <2>3, <2>4 DEF SeNewInv
<1>10. SeOperatorInv'
  BY <1>1, <1>2, <1>3, <1>4 DEF SeOperatorInv
<1>. QED BY <1>1, <1>3, <1>4, <1>7, <1>8, <1>9, <1>10 DEF SeIInv

\* Others come and make organizations of their own, not while the tables are locked.
LEMMA SePeopleKeep ==
  ASSUME Se!SetupAssumption, SeIInv, NEW p \in sePeople,
         Se!SignUp(p) \/ Se!BeginOrganization(p) \/ Se!CommitOrganization(p)
  PROVE  /\ SeIInv' /\ UNCHANGED seOperators
         /\ \A o \in Se!Organizations : seOwner'[o] # seOwner[o] => seOwner[o] = None
<1>1. p \in Se!Organizations /\ p \notin Se!Callers /\ p # None /\ p # "nobody"
  BY DEF Se!SetupAssumption, Se!Organizations
<1>2. UNCHANGED <<seComplete, seOperators, seCaller>>
  BY DEF Se!SignUp, Se!BeginOrganization, Se!CommitOrganization
<1>3. CASE Se!SignUp(p) \/ Se!BeginOrganization(p)
  <2>1. /\ UNCHANGED seOwner /\ ~Se!TablesLocked /\ seUsers' \subseteq seUsers \cup {p}
        /\ seUsers \subseteq seUsers'
        /\ \/ seInserting' = seInserting
           \/ seInserting' = seInserting \cup {p} /\ seOwner[p] = None
    BY <1>3 DEF Se!SignUp, Se!BeginOrganization
  <2>2. \A c \in Se!Callers : ~SeLocking(c)
    BY <2>1 DEF Se!TablesLocked, SeLocking
  <2>3. Se!TypeOK'
    BY <1>2, <2>1 DEF SeIInv, Se!TypeOK
  <2>4. SeRowInv' /\ SeLockedInv' /\ SeResolvedInv' /\ SeOperatorInv'
    BY <1>2, <2>1, <2>2
       DEF SeIInv, SeRowInv, SeLockedInv, SeResolvedInv, SeOperatorInv, SeBusy, SeLocking
  <2>5. SeNewInv'
    BY <1>2, <2>1 DEF SeIInv, SeNewInv
  <2>. QED BY <1>2, <2>1, <2>3, <2>4, <2>5 DEF SeIInv
<1>4. CASE Se!CommitOrganization(p)
  <2>1. /\ p \in seInserting /\ seInserting' = seInserting \ {p}
        /\ seOwner' = [seOwner EXCEPT ![p] = p] /\ UNCHANGED seUsers
    BY <1>4 DEF Se!CommitOrganization
  <2>2. seOwner[p] = None /\ \A c \in Se!Callers : ~SeLocking(c)
    BY <2>1 DEF SeIInv, SeNewInv, SeLockedInv
  <2>3. seOwner'[p] = p /\ \A o \in Se!Organizations \ {p} : seOwner'[o] = seOwner[o]
    BY <1>1, <2>1 DEF SeIInv, Se!TypeOK
  <2>4. Se!TypeOK'
    BY <1>1, <1>2, <2>1 DEF SeIInv, Se!TypeOK
  <2>5. SeRowInv' /\ SeLockedInv'
    BY <1>2, <2>1, <2>2 DEF SeIInv, SeRowInv, SeLockedInv, SeBusy, SeLocking
  <2>6. SeResolvedInv'
    <3>1. ASSUME NEW c \in seStarts, seCaller[c].at = "counted", seCaller[c].adopts # None
          PROVE  seOwner'[seCaller[c].adopts] = "nobody"
      <4>1. c \in Se!Callers
        BY DEF Se!Callers
      <4>2. seCaller[c].adopts \in Se!Organizations /\ seOwner[seCaller[c].adopts] = "nobody"
        BY <3>1, <4>1 DEF SeIInv, Se!TypeOK, SeResolvedInv
      <4>. QED BY <2>2, <2>3, <4>2 DEF Se!SetupAssumption
    <3>. QED BY <1>2, <3>1 DEF SeIInv, SeResolvedInv
  <2>7. SeNewInv'
    BY <1>1, <1>2, <2>1, <2>3 DEF SeIInv, SeNewInv, Se!Organizations, Se!TypeOK
  <2>8. SeOperatorInv'
    <3>1. \A o \in Se!Organizations, c \in Se!Callers : seOwner[o] = c => seOwner'[o] = c
      BY <2>2, <2>3 DEF Se!SetupAssumption, Se!Organizations
    <3>. QED BY <1>2, <3>1 DEF SeIInv, SeOperatorInv
  <2>. QED BY <1>2, <2>2, <2>3, <2>4, <2>5, <2>6, <2>7, <2>8 DEF SeIInv
<1>. QED BY <1>3, <1>4

\* Every step keeps IInv.
LEMMA SeInductive ==
  ASSUME Se!SetupAssumption, SeIInv, [Se!Next]_(Se!vars)
  PROVE  SeIInv'
<1>1. CASE UNCHANGED Se!vars
  BY <1>1 DEF Se!vars, SeIInv, Se!TypeOK, SeRowInv, SeLockedInv, SeResolvedInv, SeNewInv,
     SeOperatorInv, SeBusy, SeLocking, Se!Existing
<1>. QED BY <1>1, SeMovesKeep, SeClaimKeeps, SeStartKeeps, SePeopleKeep DEF Se!Next

\* Both names are of the standard module's operator.
LEMMA SeCounts == ASSUME NEW T PROVE Se!Cardinality(T) = Cardinality(T)
BY DEF Se!Cardinality, Cardinality

LEMMA SeSafe ==
  ASSUME SeIInv
  PROVE  Se!OneOperator /\ Se!CompleteIsWhole
<1>1. Se!OneOperator
  <2>1. CASE seOperators = {}
    BY <2>1, FS_EmptySet, SeCounts DEF Se!OneOperator
  <2>2. ASSUME NEW c \in Se!Callers, seOperators = {c} PROVE Se!OneOperator
    <3>1. Cardinality(seOperators) = 1
      BY <2>2, FS_Singleton
    <3>. QED BY <3>1, SeCounts DEF Se!OneOperator
  <2>. QED BY <2>1, <2>2 DEF SeIInv, SeOperatorInv
<1>2. Se!CompleteIsWhole
  BY DEF SeIInv, SeOperatorInv, Se!CompleteIsWhole
<1>. QED BY <1>1, <1>2

\* A claim finds nobody, and no step takes an owner's organization.
LEMMA SeRightful ==
  ASSUME Se!SetupAssumption, SeIInv, [Se!Next]_(Se!vars)
  PROVE  Se!OwnersStay /\ Se!ClaimedPristine
<1>1. ASSUME NEW c \in Se!Callers, Se!CommitClaim(c) PROVE Se!OwnersStay /\ Se!ClaimedPristine
  BY <1>1, SeClaimKeeps DEF Se!OwnersStay, Se!ClaimedPristine
<1>2. ASSUME NEW c \in Se!Callers, Se!CommitStart(c) PROVE Se!OwnersStay /\ Se!ClaimedPristine
  BY <1>2, SeStartKeeps DEF Se!OwnersStay, Se!ClaimedPristine, Se!SetupAssumption
<1>3. ASSUME NEW p \in sePeople, Se!SignUp(p) \/ Se!BeginOrganization(p) \/ Se!CommitOrganization(p)
      PROVE  Se!OwnersStay /\ Se!ClaimedPristine
  BY <1>3, SePeopleKeep DEF Se!OwnersStay, Se!ClaimedPristine
<1>4. CASE UNCHANGED <<seOperators, seOwner>>
  BY <1>4 DEF Se!OwnersStay, Se!ClaimedPristine
<1>. QED
  BY <1>1, <1>2, <1>3, <1>4
     DEF Se!Next, Se!vars, Se!LockRow, Se!RollBack, Se!LockTables, Se!Count, Se!Resolve

\* The invariant of the setup.
THEOREM SeInvariance ==
  ASSUME Se!SetupAssumption
  PROVE  Se!Spec => []SeIInv
<1>. QED BY SeInitially, SeInductive, PTL DEF Se!Spec

\* There is one first operator, who comes with an organization (src/src/instance-setup).
THEOREM SeOneFirstOperator ==
  ASSUME Se!SetupAssumption
  PROVE  Se!Spec => [](Se!OneOperator /\ Se!CompleteIsWhole)
<1>. QED BY SeSafe, SeInvariance, PTL

\* Nobody loses an organization to a setup, and an instance is claimed while it is new.
THEOREM SeRightfulOwners ==
  ASSUME Se!SetupAssumption
  PROVE  Se!Spec => [][Se!OwnersStay /\ Se!ClaimedPristine]_(Se!vars)
<1>1. SeIInv /\ [Se!Next]_(Se!vars) => [Se!OwnersStay /\ Se!ClaimedPristine]_(Se!vars)
  BY SeRightful
<1>. QED BY <1>1, SeInvariance, PTL DEF Se!Spec

-----------------------------------------------------------------------------
(* Entitlements *)

CONSTANTS enKeys, enLimits, enUnlimited, enWriters, enCreators, enMaxChanges,
          enMonths, enMaxCreated
VARIABLES enGranted, enOverrides, enTrail, enTx, enAsked, enMonth, enUsage,
          enReservation, enCreated

En == INSTANCE Entitlements WITH
    Keys <- enKeys, Limits <- enLimits, Unlimited <- enUnlimited,
    Writers <- enWriters, Creators <- enCreators, MaxChanges <- enMaxChanges,
    Months <- enMonths, MaxCreated <- enMaxCreated, granted <- enGranted,
    overrides <- enOverrides, trail <- enTrail, tx <- enTx, asked <- enAsked,
    month <- enMonth, usage <- enUsage, reservation <- enReservation,
    created <- enCreated

EnRows == [granted : [enKeys -> enLimits], overrides : [enKeys -> En!Values]]

EnFormInv ==
  /\ enTrail \in Seq([before : EnRows \cup {None}, after : EnRows]) /\ Len(enTrail) >= 1
  /\ enTx \in [enWriters -> [change : En!Changes, base : EnRows] \cup {None}]
  /\ enReservation \in [enCreators -> [period : 1..enMonths, limit : En!Values] \cup {None}]

\* The row is held by one writer, and is as this one has read it.
EnTxInv ==
  /\ \A v, w \in enWriters : enTx[v] # None /\ enTx[w] # None => v = w
  /\ \A w \in enWriters : enTx[w] # None => enTx[w].base = En!Row /\ Len(enTrail) <= enMaxChanges

\* A creator has read a limit that the organization had.
EnLimitInv ==
  \A c \in enCreators : enReservation[c] # None =>
    \E i \in DOMAIN enTrail : enReservation[c].limit = En!Effective(enTrail[i].after)["executions"]

EnIInv == En!TypeOK /\ EnFormInv /\ EnTxInv /\ En!OverridesAreKept /\ En!TrailIsChained /\ EnLimitInv /\ En!UsageIsCovered

-----------------------------------------------------------------------------
LEMMA EnRowTyped ==
  ASSUME En!TypeOK
  PROVE  /\ En!Row \in EnRows /\ En!Row.granted = enGranted /\ En!Row.overrides = enOverrides
BY DEF En!TypeOK, En!Row, EnRows

LEMMA EnInitially ==
  ASSUME En!EntitlementsAssumption, En!Init
  PROVE  EnIInv
<1>1. En!TypeOK
  BY DEF En!EntitlementsAssumption, En!Init, En!TypeOK, En!Values
<1>2. En!Row \in EnRows
  BY <1>1, EnRowTyped
<1>3. /\ enTrail = <<[before |-> None, after |-> En!Row]>> /\ [before |-> None, after |-> En!Row] \in [before : EnRows \cup {None}, after : EnRows]
  BY <1>2 DEF En!Init
<1>4. Len(enTrail) = 1 /\ enTrail[1].after = En!Row /\ enTrail \in Seq([before : EnRows \cup {None}, after : EnRows])
  BY <1>3
<1>5. EnFormInv /\ EnTxInv
  BY <1>4 DEF En!Init, EnFormInv, EnTxInv
<1>6. En!TrailIsChained
  BY <1>4 DEF En!TrailIsChained
<1>7. En!OverridesAreKept /\ EnLimitInv /\ En!UsageIsCovered
  BY DEF En!Init, En!OverridesAreKept, EnLimitInv, En!UsageIsCovered
<1>. QED BY <1>1, <1>5, <1>6, <1>7 DEF EnIInv

\* A writer reads the row for its change.
LEMMA EnBeginKeeps ==
  ASSUME En!EntitlementsAssumption, EnIInv, NEW w \in enWriters, En!Begin(w)
  PROVE  EnIInv'
<1>1. PICK c \in En!Changes : enTx' = [enTx EXCEPT ![w] = [change |-> c, base |-> En!Row]]
  BY DEF En!Begin
<1>2. En!RowIsFree /\ Len(enTrail) <= enMaxChanges /\ UNCHANGED <<enGranted, enOverrides,
                                                                  enTrail, enAsked, enMonth,
                                                                  enUsage, enReservation,
                                                                  enCreated>>
  BY DEF En!Begin, En!meter
<1>3. En!Row \in EnRows /\ En!Row' = En!Row
  BY <1>2, EnRowTyped DEF EnIInv, En!Row
<1>4. [change |-> c, base |-> En!Row] \in [change : En!Changes, base : EnRows]
  BY <1>3
<1>5. enTx'[w].base = En!Row /\ \A v \in enWriters \ {w} : enTx'[v] = None
  BY <1>1, <1>2 DEF EnIInv, EnFormInv, En!RowIsFree
<1>6. EnFormInv'
  BY <1>1, <1>2, <1>4 DEF EnIInv, EnFormInv, En!Changes, En!Values
<1>7. EnTxInv'
  BY <1>2, <1>3, <1>5 DEF EnTxInv
<1>. QED
  BY <1>2, <1>3, <1>6, <1>7
     DEF EnIInv, En!TypeOK, En!OverridesAreKept, En!TrailIsChained, EnLimitInv,
         En!UsageIsCovered, En!Values

\* The row is written as its writer has changed it.
LEMMA EnWriteKeeps ==
  ASSUME En!EntitlementsAssumption, EnIInv, NEW w \in enWriters, enTx[w] # None,
         NEW row \in EnRows, En!Write(row, w),
         row.overrides = enAsked', enAsked' \in [enKeys -> En!Values]
  PROVE  EnIInv'
<1>1. /\ enGranted' = row.granted /\ enOverrides' = row.overrides
      /\ enTrail' = Append(enTrail, [before |-> enTx[w].base, after |-> row])
      /\ enTx' = [enTx EXCEPT ![w] = None]
      /\ UNCHANGED <<enMonth, enUsage, enReservation, enCreated>>
  BY DEF En!Write, En!meter
<1>2. /\ enTx[w].base = En!Row /\ Len(enTrail) <= enMaxChanges /\ Len(enTrail) \in Nat
      /\ Len(enTrail) >= 1
      /\ \A v \in enWriters : enTx'[v] = None
  BY <1>1 DEF EnIInv, EnTxInv, EnFormInv
<1>3. En!Row' = row
  BY <1>1 DEF En!Row, EnRows
<1>4. En!Row \in EnRows
  BY EnRowTyped DEF EnIInv
<1>5. /\ enTrail' \in Seq([before : EnRows \cup {None}, after : EnRows]) /\ Len(enTrail') = Len(enTrail) + 1
      /\ \A i \in 1..Len(enTrail) : enTrail'[i] = enTrail[i]
      /\ enTrail'[Len(enTrail) + 1] = [before |-> En!Row, after |-> row]
  BY <1>1, <1>2, <1>4 DEF EnIInv, EnFormInv
<1>6. EnFormInv'
  BY <1>1, <1>2, <1>5 DEF EnIInv, EnFormInv
<1>7. EnTxInv'
  BY <1>2 DEF EnTxInv
<1>8. En!TypeOK'
  <2>1. /\ enGranted' \in [enKeys -> enLimits] /\ enOverrides' \in [enKeys -> En!Values]
        /\ enMonth' = enMonth /\ enUsage' = enUsage /\ enCreated' = enCreated
    BY <1>1 DEF EnRows
  <2>2. Len(enTrail') <= enMaxChanges + 1
    BY <1>2, <1>5 DEF En!EntitlementsAssumption
  <2>. QED BY <2>1, <2>2 DEF EnIInv, En!TypeOK, En!Values
<1>9. En!OverridesAreKept'
  BY <1>1 DEF En!OverridesAreKept
<1>10. En!TrailIsChained'
  <2>1. enTrail'[Len(enTrail')].after = En!Row'
    BY <1>3, <1>5
  <2>2. ASSUME NEW i \in 2..Len(enTrail') PROVE enTrail'[i].before = enTrail'[i - 1].after
    <3>1. CASE i \in 2..Len(enTrail)
      BY <1>2, <1>5, <3>1 DEF EnIInv, En!TrailIsChained
    <3>2. CASE i = Len(enTrail) + 1
      <4>1. i - 1 = Len(enTrail) /\ i - 1 \in 1..Len(enTrail)
        BY <1>2, <3>2
      <4>2. enTrail'[i].before = En!Row /\ enTrail[i - 1].after = En!Row
        BY <1>5, <3>2, <4>1 DEF EnIInv, En!TrailIsChained
      <4>. QED BY <1>5, <4>1, <4>2
    <3>. QED BY <1>2, <1>5, <3>1, <3>2
  <2>. QED BY <2>1, <2>2 DEF En!TrailIsChained
<1>11. \A i \in DOMAIN enTrail : i \in DOMAIN enTrail' /\ enTrail'[i] = enTrail[i]
  BY <1>2, <1>5 DEF EnIInv, EnFormInv
<1>12. EnLimitInv'
  <2>1. SUFFICES ASSUME NEW c \in enCreators, enReservation[c] # None
                 PROVE  \E i \in DOMAIN enTrail' : enReservation[c].limit = En!Effective(enTrail'[i].after)["executions"]
    BY <1>1 DEF EnLimitInv
  <2>2. PICK i \in DOMAIN enTrail : enReservation[c].limit = En!Effective(enTrail[i].after)["executions"]
    BY <2>1 DEF EnIInv, EnLimitInv
  <2>. QED BY <1>11, <2>2
<1>13. En!UsageIsCovered'
  <2>1. SUFFICES ASSUME NEW m \in 1..enMonths
                 PROVE  /\ enUsage[m] = enCreated[m]
                        /\ enUsage[m] > 0 => \E i \in DOMAIN enTrail' :
                             LET limit == En!Effective(enTrail'[i].after)["executions"] IN
                             limit = enUnlimited \/ enUsage[m] <= limit
    BY <1>1 DEF En!UsageIsCovered
  <2>2. /\ enUsage[m] = enCreated[m]
        /\ enUsage[m] > 0 => \E i \in DOMAIN enTrail :
             LET limit == En!Effective(enTrail[i].after)["executions"] IN
             limit = enUnlimited \/ enUsage[m] <= limit
    BY DEF EnIInv, En!UsageIsCovered
  <2>. QED BY <1>11, <2>2
<1>. QED BY <1>6, <1>7, <1>8, <1>9, <1>10, <1>12, <1>13 DEF EnIInv

\* Each writer's change, on the row as it is.
LEMMA EnWritersKeep ==
  ASSUME En!EntitlementsAssumption, EnIInv, NEW w \in enWriters,
         En!Override(w) \/ En!ClearOverride(w) \/ En!Stamp(w)
  PROVE  EnIInv'
<1>1. enTx[w] # None /\ enTx[w].change \in En!Changes /\ enTx[w].base = En!Row
  BY DEF En!Override, En!ClearOverride, En!Stamp, EnIInv, EnFormInv, EnTxInv
<1>2. /\ En!Row \in EnRows /\ En!Row.granted = enGranted /\ En!Row.overrides = enOverrides
      /\ enOverrides = enAsked
      /\ enGranted \in [enKeys -> enLimits] /\ enOverrides \in [enKeys -> En!Values]
  BY EnRowTyped DEF EnIInv, En!OverridesAreKept, En!TypeOK
<1>3. CASE En!Override(w)
  <2>1. enTx[w].change.patch \in [enKeys -> En!Values]
    BY <1>1, <1>3 DEF En!Override, En!Changes
  <2> DEFINE merged == En!MergeOverrides(enOverrides, enTx[w].change.patch)
             row == [En!Row EXCEPT !.overrides = merged]
  <2>2. merged \in [enKeys -> En!Values]
    BY <1>2, <2>1 DEF En!MergeOverrides
  <2>3. row \in EnRows /\ row.overrides = merged
    BY <1>2, <2>2 DEF En!Row, EnRows
  <2>4. En!Write(row, w) /\ enAsked' = merged
    BY <1>1, <1>2, <1>3 DEF En!Override
  <2>. QED BY <1>1, <2>2, <2>3, <2>4, EnWriteKeeps
<1>4. CASE En!ClearOverride(w)
  <2>1. enTx[w].change.key \in enKeys
    BY <1>1, <1>4 DEF En!ClearOverride, En!Changes
  <2> DEFINE cleared == En!ClearOverrideKey(enOverrides, enTx[w].change.key)
             row == [En!Row EXCEPT !.overrides = cleared]
  <2>2. cleared \in [enKeys -> En!Values]
    BY <1>2, <2>1 DEF En!ClearOverrideKey, En!Values
  <2>3. row \in EnRows /\ row.overrides = cleared
    BY <1>2, <2>2 DEF En!Row, EnRows
  <2>4. En!Write(row, w) /\ enAsked' = cleared
    BY <1>1, <1>2, <1>4 DEF En!ClearOverride
  <2>. QED BY <1>1, <2>2, <2>3, <2>4, EnWriteKeeps
<1>5. CASE En!Stamp(w)
  <2>1. enTx[w].change.template \in [enKeys -> enLimits]
    BY <1>1, <1>5 DEF En!Stamp, En!Changes
  <2> DEFINE row == En!Stamped(En!Row, enTx[w].change.template)
  <2>2. row \in EnRows /\ row.overrides = enOverrides
    BY <1>2, <2>1 DEF En!Stamped, En!Row, EnRows
  <2>3. CASE En!Write(row, w) /\ UNCHANGED enAsked
    BY <1>1, <1>2, <2>2, <2>3, EnWriteKeeps
  <2>4. CASE enTx' = [enTx EXCEPT ![w] = None] /\ UNCHANGED <<enGranted, enOverrides, enTrail,
                                                              enMonth, enUsage, enReservation,
                                                              enCreated, enAsked>>
    <3>1. EnFormInv' /\ \A v \in enWriters : enTx'[v] # None => enTx[v] = enTx'[v]
      BY <2>4 DEF EnIInv, EnFormInv, En!Changes, En!Values
    <3>2. EnTxInv' /\ En!Row' = En!Row
      BY <2>4, <3>1 DEF EnIInv, EnTxInv, En!Row
    <3>. QED
      <4>1. En!TypeOK'
        BY <2>4, <3>1 DEF EnIInv, En!TypeOK, En!Values
      <4>2. En!OverridesAreKept' /\ En!TrailIsChained' /\ EnLimitInv'
        BY <2>4, <3>2 DEF EnIInv, En!OverridesAreKept, En!TrailIsChained, EnLimitInv
      <4>3. En!UsageIsCovered'
        BY <2>4 DEF EnIInv, En!UsageIsCovered
      <4>. QED BY <3>1, <3>2, <4>1, <4>2, <4>3 DEF EnIInv
  <2>. QED BY <1>1, <1>5, <2>3, <2>4 DEF En!Stamp, En!meter
<1>. QED BY <1>3, <1>4, <1>5

\* The meter: a creator reads a limit of the trail, and the usage stays under it.
LEMMA EnMeterKeeps ==
  ASSUME En!EntitlementsAssumption, EnIInv,
         En!NextMonth \/ \E c \in enCreators : En!ReadReservation(c) \/ En!Create(c)
  PROVE  EnIInv'
<1>1. UNCHANGED <<enGranted, enOverrides, enTrail, enTx, enAsked>>
  BY DEF En!NextMonth, En!ReadReservation, En!Create, En!document
<1>2. EnTxInv' /\ En!OverridesAreKept' /\ En!TrailIsChained' /\ En!Row' = En!Row
  BY <1>1 DEF EnIInv, EnTxInv, En!OverridesAreKept, En!TrailIsChained, En!Row
<1>3. CASE En!NextMonth
  <2>1. enMonth' \in 1..enMonths /\ UNCHANGED <<enUsage, enReservation, enCreated>>
    BY <1>3 DEF En!NextMonth, EnIInv, En!TypeOK, En!EntitlementsAssumption
  <2>. QED
    BY <1>1, <1>2, <2>1
       DEF EnIInv, En!TypeOK, EnFormInv, EnLimitInv, En!UsageIsCovered, En!Changes, En!Values
<1>4. ASSUME NEW c \in enCreators, En!ReadReservation(c) PROVE EnIInv'
  <2> DEFINE r == [period |-> enMonth, limit |-> En!Effective(En!Row)["executions"]]
  <2>1. enReservation' = [enReservation EXCEPT ![c] = r] /\ UNCHANGED <<enMonth, enUsage,
                                                                        enCreated>>
    BY <1>4 DEF En!ReadReservation
  <2>2. En!Effective(En!Row)["executions"] \in En!Values
    BY EnRowTyped DEF EnIInv, En!TypeOK, En!Effective, En!Values, En!EntitlementsAssumption
  <2>3. r \in [period : 1..enMonths, limit : En!Values]
    BY <2>2 DEF EnIInv, En!TypeOK
  <2>4. EnFormInv'
    BY <1>1, <2>1, <2>3 DEF EnIInv, EnFormInv, En!Changes, En!Values
  <2>5. /\ Len(enTrail) \in DOMAIN enTrail
        /\ r.limit = En!Effective(enTrail[Len(enTrail)].after)["executions"]
    BY DEF EnIInv, EnFormInv, En!TrailIsChained
  <2>6. EnLimitInv'
    <3>1. SUFFICES ASSUME NEW d \in enCreators, enReservation'[d] # None
                   PROVE  \E i \in DOMAIN enTrail : enReservation'[d].limit = En!Effective(enTrail[i].after)["executions"]
      BY <1>1 DEF EnLimitInv
    <3>2. CASE d = c
      BY <2>1, <2>5, <3>2 DEF EnIInv, EnFormInv
    <3>3. CASE d # c
      BY <2>1, <3>1, <3>3 DEF EnIInv, EnFormInv, EnLimitInv
    <3>. QED BY <3>2, <3>3
  <2>. QED
    BY <1>1, <1>2, <2>1, <2>4, <2>6 DEF EnIInv, En!TypeOK, En!UsageIsCovered, En!Values
<1>5. ASSUME NEW c \in enCreators, En!Create(c) PROVE EnIInv'
  <2> DEFINE r == enReservation[c]
  <2>1. /\ r # None /\ enCreated[r.period] < enMaxCreated /\ UNCHANGED enMonth
        /\ enReservation' = [enReservation EXCEPT ![c] = None]
        /\ \/ UNCHANGED <<enUsage, enCreated>>
           \/ /\ En!Fits(enUsage[r.period], r.limit)
              /\ enUsage' = [enUsage EXCEPT ![r.period] = @ + 1]
              /\ enCreated' = [enCreated EXCEPT ![r.period] = @ + 1]
    BY <1>5 DEF En!Create
  <2>2. r.period \in 1..enMonths /\ enUsage[r.period] = enCreated[r.period]
    BY <2>1 DEF EnIInv, EnFormInv, En!UsageIsCovered
  <2>3. PICK i \in DOMAIN enTrail : r.limit = En!Effective(enTrail[i].after)["executions"]
    BY <2>1 DEF EnIInv, EnLimitInv
  <2>4. EnFormInv'
    BY <1>1, <2>1 DEF EnIInv, EnFormInv, En!Changes, En!Values
  <2>5. EnLimitInv'
    BY <1>1, <2>1 DEF EnIInv, EnFormInv, EnLimitInv
  <2>6. En!TypeOK'
    <3>1. enUsage[r.period] + 1 \in 0..enMaxCreated /\ enCreated[r.period] + 1 \in 0..enMaxCreated
      <4>1. enCreated[r.period] \in 0..enMaxCreated /\ enMaxCreated \in Nat
        BY <2>2 DEF EnIInv, En!TypeOK, En!EntitlementsAssumption
      <4>. QED BY <2>1, <2>2, <4>1
    <3>2. /\ enUsage' \in [1..enMonths -> 0..enMaxCreated]
          /\ enCreated' \in [1..enMonths -> 0..enMaxCreated]
      BY <2>1, <2>2, <3>1 DEF EnIInv, En!TypeOK
    <3>. QED BY <1>1, <2>1, <3>2 DEF EnIInv, En!TypeOK, En!Values
  <2>7. En!UsageIsCovered'
    <3>1. SUFFICES ASSUME NEW m \in 1..enMonths
                   PROVE  /\ enUsage'[m] = enCreated'[m]
                          /\ enUsage'[m] > 0 => \E j \in DOMAIN enTrail :
                               LET limit == En!Effective(enTrail[j].after)["executions"] IN
                               limit = enUnlimited \/ enUsage'[m] <= limit
      BY <1>1 DEF En!UsageIsCovered
    <3>2. CASE UNCHANGED <<enUsage, enCreated>> \/ m # r.period
      <4>1. enUsage'[m] = enUsage[m] /\ enCreated'[m] = enCreated[m]
        BY <2>1, <3>2 DEF EnIInv, En!TypeOK
      <4>. QED BY <4>1 DEF EnIInv, En!UsageIsCovered
    <3>3. CASE /\ En!Fits(enUsage[m], r.limit) /\ m = r.period
               /\ enUsage' = [enUsage EXCEPT ![r.period] = @ + 1]
               /\ enCreated' = [enCreated EXCEPT ![r.period] = @ + 1]
      <4>1. enUsage'[m] = enUsage[m] + 1 /\ enCreated'[m] = enUsage[m] + 1
        BY <2>2, <3>3 DEF EnIInv, En!TypeOK
      <4>. QED BY <2>3, <3>3, <4>1 DEF En!Fits
    <3>. QED BY <2>1, <3>2, <3>3
  <2>. QED BY <1>2, <2>4, <2>5, <2>6, <2>7 DEF EnIInv
<1>. QED BY <1>3, <1>4, <1>5

\* Every step keeps IInv.
LEMMA EnInductive ==
  ASSUME En!EntitlementsAssumption, EnIInv, [En!Next]_(En!vars)
  PROVE  EnIInv'
<1>1. CASE UNCHANGED En!vars
  BY <1>1 DEF En!vars, EnIInv, En!TypeOK, EnFormInv, EnTxInv, En!OverridesAreKept,
     En!TrailIsChained, EnLimitInv,
              En!UsageIsCovered, En!Row, En!Changes, En!Values
<1>. QED BY <1>1, EnBeginKeeps, EnWritersKeep, EnMeterKeeps DEF En!Next

LEMMA EnSafe ==
  ASSUME EnIInv
  PROVE  En!OverridesAreKept /\ En!TrailIsChained /\ En!UsageIsCovered
BY DEF EnIInv

\* The invariant of the entitlements.
THEOREM EnInvariance ==
  ASSUME En!EntitlementsAssumption
  PROVE  En!Spec => []EnIInv
<1>. QED BY EnInitially, EnInductive, PTL DEF En!Spec

\* Overrides and trail are what was decided, and what was used was allowed
\* (src/src/entitlements/service.ts).
THEOREM EnDecidedAndCovered ==
  ASSUME En!EntitlementsAssumption
  PROVE  En!Spec => [](En!OverridesAreKept /\ En!TrailIsChained /\ En!UsageIsCovered)
<1>. QED BY EnSafe, EnInvariance, PTL

-----------------------------------------------------------------------------
(* Locks *)

CONSTANTS loSections, loPoolSizes
VARIABLES loPoolSize, loAt

Lo == INSTANCE LockOrder WITH
    Sections <- loSections, PoolSizes <- loPoolSizes, poolSize <- loPoolSize,
    at <- loAt

\* The order: a section asks for a resource of a higher rank than those it holds.
LoRank ==
  [keyQueue |-> 0, connection |-> 1, invitation |-> 2, membership |-> 3, member |-> 4,
   keyAdvisory |-> 5, key |-> 6, run |-> 7, step |-> 8, execution |-> 9, usage |-> 10, wakeup |-> 11]

LoOrdered ==
  {"createExecution", "linkExecution", "completeExecution", "failRun", "claimWakeup",
   "claimNotification", "stepDeadline", "limitDeadline", "refreshIdle", "recordOutput",
   "issueToken", "decideInvitation"}
LoTakeTwo == {"completeOutsideWorkflow", "createInvitation", "reconcileBilling", "saveProvider"}

LoAscends(plan) ==
  /\ \A i \in 1..Len(plan) : LoRank[plan[i][1]] \in 0..11
  /\ \A i, j \in 1..Len(plan) : i < j => LoRank[plan[i][1]] < LoRank[plan[j][1]]
\* What belongs to a run is locked last or under the run's lock.
LoRunFirst(plan) ==
  \A i \in 1..Len(plan) : plan[i][1] \in {"step", "execution", "wakeup"} /\ i < Len(plan) =>
    2 < i /\ plan[2] \in {Lo!Lock("run", "update"), Lo!Lock("run", "skip")}

\* Two sections hold no lock in modes that exclude each other.
LoMutexInv ==
  \A s, t \in loSections : s # t =>
    \A h \in Lo!Held(s), k \in Lo!Held(t) :
      h # Lo!Connection /\ k # Lo!Connection /\ h[1] = k[1] => Lo!Compatible(h[2], k[2])

LoFormInv == loAt \in [loSections -> [kind : Lo!Kinds \cup {"none"}, got : Nat]]

LoIInv == Lo!TypeOK /\ LoFormInv /\ LoMutexInv

-----------------------------------------------------------------------------
LEMMA LoPlansAscend ==
  \A k \in LoOrdered : LoAscends(Lo!Plan[k])
<1>1. /\ LoAscends(Lo!CreateExecution) /\ LoAscends(Lo!LinkExecution)
      /\ LoAscends(Lo!CompleteExecution)
  BY DEF LoAscends, LoRank, Lo!CreateExecution, Lo!LinkExecution, Lo!CompleteExecution,
     Lo!Connection, Lo!Lock
<1>2. LoAscends(Lo!FailRun) /\ LoAscends(Lo!ClaimWakeup) /\ LoAscends(Lo!ClaimNotification)
  BY DEF LoAscends, LoRank, Lo!FailRun, Lo!ClaimWakeup, Lo!ClaimNotification, Lo!Connection, Lo!Lock
<1>3. LoAscends(Lo!StepDeadline) /\ LoAscends(Lo!LimitDeadline) /\ LoAscends(Lo!RefreshIdle)
  BY DEF LoAscends, LoRank, Lo!StepDeadline, Lo!LimitDeadline, Lo!RefreshIdle, Lo!Connection,
     Lo!Lock
<1>4. LoAscends(Lo!RecordOutput) /\ LoAscends(Lo!IssueToken) /\ LoAscends(Lo!DecideInvitation)
  BY DEF LoAscends, LoRank, Lo!RecordOutput, Lo!IssueToken, Lo!DecideInvitation, Lo!Connection,
     Lo!Lock
<1>. QED BY <1>1, <1>2, <1>3, <1>4 DEF LoOrdered, Lo!Plan

LEMMA LoPlansRunFirst ==
  \A k \in LoOrdered \cup {"runDeadline"} : LoRunFirst(Lo!Plan[k])
<1>1. /\ LoRunFirst(Lo!CreateExecution) /\ LoRunFirst(Lo!LinkExecution)
      /\ LoRunFirst(Lo!CompleteExecution)
  BY DEF LoRunFirst, Lo!CreateExecution, Lo!LinkExecution, Lo!CompleteExecution, Lo!Connection,
     Lo!Lock
<1>2. LoRunFirst(Lo!FailRun) /\ LoRunFirst(Lo!ClaimWakeup) /\ LoRunFirst(Lo!ClaimNotification)
  BY DEF LoRunFirst, Lo!FailRun, Lo!ClaimWakeup, Lo!ClaimNotification, Lo!Connection, Lo!Lock
<1>3. LoRunFirst(Lo!StepDeadline) /\ LoRunFirst(Lo!LimitDeadline) /\ LoRunFirst(Lo!RefreshIdle)
  BY DEF LoRunFirst, Lo!StepDeadline, Lo!LimitDeadline, Lo!RefreshIdle, Lo!Connection, Lo!Lock
<1>4. /\ LoRunFirst(Lo!RecordOutput) /\ LoRunFirst(Lo!IssueToken)
      /\ LoRunFirst(Lo!DecideInvitation) /\ LoRunFirst(Lo!RunDeadline)
  BY DEF LoRunFirst, Lo!RecordOutput, Lo!IssueToken, Lo!DecideInvitation, Lo!RunDeadline,
     Lo!Connection, Lo!Lock
<1>. QED BY <1>1, <1>2, <1>3, <1>4 DEF LoOrdered, Lo!Plan

\* Both names are of the standard module's operator.
LEMMA LoCounts == ASSUME NEW T PROVE Lo!Cardinality(T) = Cardinality(T)
BY DEF Lo!Cardinality, Cardinality

LEMMA LoTakesTwo ==
  \A k \in LoTakeTwo : Lo!TakesTwoConnections(k)
<1>1. ASSUME NEW plan, Len(plan) \in Nat, NEW i \in 1..Len(plan), NEW j \in 1..Len(plan), i < j,
             plan[i] = Lo!Connection, plan[j] = Lo!Connection
      PROVE  Cardinality({ x \in 1 .. Len(plan) : plan[x] = Lo!Connection }) > 1
  <2> DEFINE A == { x \in 1 .. Len(plan) : plan[x] = Lo!Connection }
  <2>1. IsFiniteSet(1 .. Len(plan)) /\ A \subseteq 1..Len(plan)
    BY <1>1, FS_Interval
  <2>2. IsFiniteSet(A)
    BY <2>1, FS_Subset
  <2> DEFINE B == {i}
             C == B \cup {j}
  <2>3. IsFiniteSet(B) /\ Cardinality(B) = 1 /\ j \notin B
    <3>1. IsFiniteSet(B) /\ Cardinality(B) = 1
      BY FS_Singleton
    <3>2. j # i
      BY <1>1
    <3>. QED BY <3>1, <3>2
  <2>. HIDE DEF B
  <2>4. Cardinality(C) = Cardinality(B) + 1
    BY <2>3, FS_AddElement
  <2>5. C \subseteq A
    BY <1>1 DEF B
  <2>. HIDE DEF A, C
  <2>6. Cardinality(C) <= Cardinality(A) /\ Cardinality(A) \in Nat
    BY <2>2, <2>5, FS_Subset, FS_CardinalityType
  <2>7. Cardinality(A) > 1
    BY <2>3, <2>4, <2>6
  <2>. QED BY <2>7 DEF A
<1>2. Lo!TakesTwoConnections("completeOutsideWorkflow")
  <2>1. /\ Lo!Plan["completeOutsideWorkflow"] = Lo!CompleteOutsideWorkflow
        /\ Len(Lo!CompleteOutsideWorkflow) = 3
        /\ Lo!CompleteOutsideWorkflow[1] = Lo!Connection
        /\ Lo!CompleteOutsideWorkflow[2] = Lo!Connection
    BY DEF Lo!Plan, Lo!CompleteOutsideWorkflow
  <2>2. /\ 1 < 2 /\ 1 \in 1..Len(Lo!CompleteOutsideWorkflow)
        /\ 2 \in 1..Len(Lo!CompleteOutsideWorkflow) /\ Len(Lo!CompleteOutsideWorkflow) \in Nat
    BY <2>1
  <2>3. Cardinality({ x \in 1 .. Len(Lo!CompleteOutsideWorkflow) : Lo!CompleteOutsideWorkflow[x] = Lo!Connection }) > 1
    BY <1>1, <2>1, <2>2
  <2>. QED BY <2>1, <2>3, LoCounts DEF Lo!TakesTwoConnections
<1>3. Lo!TakesTwoConnections("createInvitation")
  <2>1. /\ Lo!Plan["createInvitation"] = Lo!CreateInvitation /\ Len(Lo!CreateInvitation) = 4
        /\ Lo!CreateInvitation[1] = Lo!Connection /\ Lo!CreateInvitation[4] = Lo!Connection
    BY DEF Lo!Plan, Lo!CreateInvitation
  <2>2. /\ 1 < 4 /\ 1 \in 1..Len(Lo!CreateInvitation) /\ 4 \in 1..Len(Lo!CreateInvitation)
        /\ Len(Lo!CreateInvitation) \in Nat
    BY <2>1
  <2>3. Cardinality({ x \in 1 .. Len(Lo!CreateInvitation) : Lo!CreateInvitation[x] = Lo!Connection }) > 1
    BY <1>1, <2>1, <2>2
  <2>. QED BY <2>1, <2>3, LoCounts DEF Lo!TakesTwoConnections
<1>4. Lo!TakesTwoConnections("reconcileBilling")
  <2>1. /\ Lo!Plan["reconcileBilling"] = Lo!ReconcileBilling /\ Len(Lo!ReconcileBilling) = 4
        /\ Lo!ReconcileBilling[1] = Lo!Connection /\ Lo!ReconcileBilling[3] = Lo!Connection
    BY DEF Lo!Plan, Lo!ReconcileBilling
  <2>2. /\ 1 < 3 /\ 1 \in 1..Len(Lo!ReconcileBilling) /\ 3 \in 1..Len(Lo!ReconcileBilling)
        /\ Len(Lo!ReconcileBilling) \in Nat
    BY <2>1
  <2>3. Cardinality({ x \in 1 .. Len(Lo!ReconcileBilling) : Lo!ReconcileBilling[x] = Lo!Connection }) > 1
    BY <1>1, <2>1, <2>2
  <2>. QED BY <2>1, <2>3, LoCounts DEF Lo!TakesTwoConnections
<1>5. Lo!TakesTwoConnections("saveProvider")
  <2>1. /\ Lo!Plan["saveProvider"] = Lo!SaveProvider /\ Len(Lo!SaveProvider) = 5
        /\ Lo!SaveProvider[1] = Lo!Connection /\ Lo!SaveProvider[3] = Lo!Connection
    BY DEF Lo!Plan, Lo!SaveProvider
  <2>2. /\ 1 < 3 /\ 1 \in 1..Len(Lo!SaveProvider) /\ 3 \in 1..Len(Lo!SaveProvider)
        /\ Len(Lo!SaveProvider) \in Nat
    BY <2>1
  <2>3. Cardinality({ x \in 1 .. Len(Lo!SaveProvider) : Lo!SaveProvider[x] = Lo!Connection }) > 1
    BY <1>1, <2>1, <2>2
  <2>. QED BY <2>1, <2>3, LoCounts DEF Lo!TakesTwoConnections
<1>. QED BY <1>2, <1>3, <1>4, <1>5 DEF LoTakeTwo

\* Every plan is in the order, or known to leave it.
LEMMA LoPlaced ==
  ASSUME NEW k \in Lo!Kinds, k \notin Lo!OutOfOrder, ~Lo!TakesTwoConnections(k)
  PROVE  k \in LoOrdered \cup {"runDeadline"}
<1>1. k \notin LoTakeTwo
  BY LoTakesTwo
<1>. QED BY <1>1 DEF Lo!Kinds, Lo!Plan, Lo!OutOfOrder, LoTakeTwo, LoOrdered

LEMMA LoLengths ==
  \A k \in Lo!Kinds : Len(Lo!Plan[k]) \in Nat \ {0}
<1>1. \A k \in LoOrdered : Len(Lo!Plan[k]) \in Nat \ {0}
  <2>1. \A p \in {Lo!CreateExecution, Lo!LinkExecution, Lo!CompleteExecution, Lo!FailRun, Lo!ClaimWakeup,
                  Lo!ClaimNotification, Lo!StepDeadline, Lo!LimitDeadline, Lo!RefreshIdle,
                  Lo!RecordOutput, Lo!IssueToken, Lo!DecideInvitation} :
           Len(p) \in Nat \ {0}
    BY DEF Lo!CreateExecution, Lo!LinkExecution, Lo!CompleteExecution, Lo!FailRun,
       Lo!ClaimWakeup, Lo!ClaimNotification, Lo!StepDeadline, Lo!LimitDeadline, Lo!RefreshIdle,
       Lo!RecordOutput, Lo!IssueToken, Lo!DecideInvitation
  <2>. QED BY <2>1 DEF LoOrdered, Lo!Plan
<1>2. \A k \in Lo!OutOfOrder \cup {"runDeadline"} : Len(Lo!Plan[k]) \in Nat \ {0}
  <2>1. /\ Len(Lo!SkipStep) = 4 /\ Len(Lo!RecoverWakeups) = 3 /\ Len(Lo!EnrollDaemon) = 5
        /\ Len(Lo!RevokeKey) = 6 /\ Len(Lo!RunDeadline) = 5
    BY DEF Lo!SkipStep, Lo!RecoverWakeups, Lo!EnrollDaemon, Lo!RevokeKey, Lo!RunDeadline
  <2>2. /\ Len(Lo!Plan["skipStep"]) = 4 /\ Len(Lo!Plan["recoverWakeups"]) = 3
        /\ Len(Lo!Plan["enrollDaemon"]) = 5 /\ Len(Lo!Plan["revokeKey"]) = 6
        /\ Len(Lo!Plan["runDeadline"]) = 5
    BY <2>1 DEF Lo!Plan
  <2>3. \A k \in {"skipStep", "recoverWakeups", "enrollDaemon", "revokeKey", "runDeadline"} :
          Len(Lo!Plan[k]) \in Nat \ {0}
    BY <2>2
  <2>. QED BY <2>3 DEF Lo!OutOfOrder
<1>3. \A k \in LoTakeTwo : Len(Lo!Plan[k]) \in Nat \ {0}
  <2>1. \A p \in {Lo!CompleteOutsideWorkflow, Lo!CreateInvitation, Lo!ReconcileBilling,
                  Lo!SaveProvider} :
           Len(p) \in Nat \ {0}
    BY DEF Lo!CompleteOutsideWorkflow, Lo!CreateInvitation, Lo!ReconcileBilling, Lo!SaveProvider
  <2>. QED BY <2>1 DEF LoTakeTwo, Lo!Plan
<1>4. Lo!Kinds = LoOrdered \cup Lo!OutOfOrder \cup {"runDeadline"} \cup LoTakeTwo
  BY DEF Lo!Kinds, Lo!Plan, LoOrdered, Lo!OutOfOrder, LoTakeTwo
<1>. QED BY <1>1, <1>2, <1>3, <1>4

-----------------------------------------------------------------------------
LEMMA LoInitially ==
  ASSUME Lo!Init
  PROVE  LoIInv
BY DEF Lo!Init, LoIInv, Lo!TypeOK, LoFormInv, LoMutexInv, Lo!Idle, Lo!Held

\* A section takes a lock that is free, and one that ends holds none.
LEMMA LoTakesKeeps ==
  ASSUME LoIInv, NEW s \in loSections, NEW k \in Lo!Kinds, NEW n \in 1..Len(Lo!Plan[k]),
         loAt' = [loAt EXCEPT ![s] = [kind |-> k, got |-> n]], UNCHANGED loPoolSize,
         Lo!Free(s, Lo!Plan[k][n]),
         n > 1 => loAt[s] = [kind |-> k, got |-> n - 1]
  PROVE  LoIInv'
<1>0. Len(Lo!Plan[k]) \in Nat
  BY LoLengths
<1>1. /\ loAt' \in [loSections -> [kind : Lo!Kinds \cup {"none"}, got : Nat]]
      /\ loAt'[s] = [kind |-> k, got |-> n] /\ \A t \in loSections \ {s} : loAt'[t] = loAt[t]
  BY <1>0 DEF LoIInv, LoFormInv
<1>2. Lo!TypeOK' /\ LoFormInv'
  BY <1>1 DEF LoIInv, Lo!TypeOK, LoFormInv
<1>3. k # "none"
  BY DEF Lo!Kinds, Lo!Plan
<1>4. \A t \in loSections \ {s} : Lo!Held(t)' = Lo!Held(t)
  BY <1>1 DEF Lo!Held
<1>5. ASSUME NEW h \in Lo!Held(s)' PROVE h = Lo!Plan[k][n] \/ h \in Lo!Held(s)
  <2>1. PICK i \in 1..n : h = Lo!Plan[k][i]
    BY <1>1, <1>3 DEF Lo!Held, Lo!Idle
  <2>2. CASE i = n
    BY <2>1, <2>2
  <2>3. CASE i # n
    <3>1. n > 1 /\ i \in 1..(n - 1)
      BY <1>0, <2>1, <2>3
    <3>. QED BY <1>3, <2>1, <3>1 DEF Lo!Held, Lo!Idle
  <2>. QED BY <2>2, <2>3
<1>6. ASSUME NEW t \in loSections \ {s}, NEW h \in Lo!Held(t), Lo!Plan[k][n] # Lo!Connection, h[1] = Lo!Plan[k][n][1]
      PROVE  Lo!Compatible(h[2], Lo!Plan[k][n][2]) /\ Lo!Compatible(Lo!Plan[k][n][2], h[2])
  <2>1. Lo!Holders(s, Lo!Plan[k][n]) = {}
    BY <1>6 DEF Lo!Free
  <2>2. Lo!Compatible(h[2], Lo!Plan[k][n][2])
    BY <1>6, <2>1 DEF Lo!Holders
  <2>. QED BY <2>2 DEF Lo!Compatible
<1>7. LoMutexInv'
  <2>1. SUFFICES ASSUME NEW x \in loSections, NEW y \in loSections, x # y, NEW h \in Lo!Held(x)', NEW j \in Lo!Held(y)',
                        h # Lo!Connection, j # Lo!Connection, h[1] = j[1]
                 PROVE  Lo!Compatible(h[2], j[2])
    BY DEF LoMutexInv, Lo!Connection
  <2>2. CASE x = s
    BY <1>4, <1>5, <1>6, <2>1, <2>2 DEF LoIInv, LoMutexInv
  <2>3. CASE y = s
    BY <1>4, <1>5, <1>6, <2>1, <2>3 DEF LoIInv, LoMutexInv
  <2>4. CASE x # s /\ y # s
    BY <1>4, <2>1, <2>4 DEF LoIInv, LoMutexInv
  <2>. QED BY <2>2, <2>3, <2>4
<1>. QED BY <1>2, <1>7 DEF LoIInv

\* Every step keeps IInv.
LEMMA LoInductive ==
  ASSUME LoIInv, [Lo!Next]_(Lo!vars)
  PROVE  LoIInv'
<1>1. CASE UNCHANGED Lo!vars
  BY <1>1 DEF Lo!vars, LoIInv, Lo!TypeOK, LoFormInv, LoMutexInv, Lo!Held
<1>2. ASSUME NEW s \in loSections, Lo!Begin(s) PROVE LoIInv'
  <2>1. PICK k \in Lo!Kinds : Lo!Free(s, Lo!Plan[k][1]) /\ loAt' = [loAt EXCEPT ![s] = [kind |-> k, got |-> 1]]
    BY <1>2 DEF Lo!Begin
  <2>2. 1 \in 1..Len(Lo!Plan[k])
    BY LoLengths
  <2> DEFINE n == 1
  <2>3. ~(n > 1)
    OBVIOUS
  <2>4. /\ loAt' = [loAt EXCEPT ![s] = [kind |-> k, got |-> n]] /\ Lo!Free(s, Lo!Plan[k][n])
        /\ n \in 1..Len(Lo!Plan[k])
        /\ loPoolSize' = loPoolSize
    BY <1>2, <2>1, <2>2 DEF Lo!Begin
  <2>. HIDE DEF n
  <2>. QED BY <2>3, <2>4, LoTakesKeeps
<1>3. ASSUME NEW s \in loSections, Lo!Acquire(s) PROVE LoIInv'
  <2> DEFINE k == loAt[s].kind
             n == loAt[s].got + 1
  <2>1. /\ k \in Lo!Kinds /\ loAt[s].got \in 1..Len(Lo!Plan[k]) /\ Len(Lo!Plan[k]) \in Nat
        /\ loAt[s] = [kind |-> k, got |-> n - 1]
    BY <1>3, LoLengths DEF Lo!Acquire, Lo!Asks, LoIInv, Lo!TypeOK, LoFormInv
  <2>2. n \in 1..Len(Lo!Plan[k]) /\ Lo!Free(s, Lo!Plan[k][n])
    BY <1>3, <2>1 DEF Lo!Acquire, Lo!Asks, Lo!Wanted
  <2>3. loAt' = [loAt EXCEPT ![s] = [kind |-> k, got |-> n]]
    <3> DEFINE c == loAt[s]
    <3>1. loAt' = [loAt EXCEPT ![s] = [c EXCEPT !.got = c.got + 1]] /\ c \in [kind : Lo!Kinds \cup {"none"}, got : Nat]
      BY <1>3 DEF Lo!Acquire, LoIInv, LoFormInv
    <3>2. n = c.got + 1 /\ k = c.kind
      OBVIOUS
    <3>. HIDE DEF c, n, k
    <3>3. [c EXCEPT !.got = c.got + 1] = [kind |-> c.kind, got |-> c.got + 1]
      BY <3>1
    <3>. QED BY <3>1, <3>2, <3>3
  <2>4. n > 1 => loAt[s] = [kind |-> k, got |-> n - 1]
    BY <2>1
  <2>. HIDE DEF n, k
  <2>. QED BY <1>3, <2>1, <2>2, <2>3, <2>4, LoTakesKeeps DEF Lo!Acquire
<1>4. ASSUME NEW s \in loSections, Lo!Finish(s) PROVE LoIInv'
  <2>1. /\ loAt' \in [loSections -> [kind : Lo!Kinds \cup {"none"}, got : Nat]]
        /\ loAt'[s] = Lo!Idle /\ (\A t \in loSections \ {s} : loAt'[t] = loAt[t]) /\ loPoolSize' = loPoolSize
    BY <1>4 DEF Lo!Finish, Lo!Idle, LoIInv, LoFormInv
  <2>2. \A t \in loSections : Lo!Held(t)' \subseteq Lo!Held(t)
    BY <2>1 DEF Lo!Held
  <2>. QED BY <2>1, <2>2 DEF LoIInv, Lo!TypeOK, LoFormInv, LoMutexInv
<1>. QED BY <1>1, <1>2, <1>3, <1>4 DEF Lo!Next

-----------------------------------------------------------------------------
(* Who waits for whom *)

\* One that waits within S waits for one of S that holds the resource, and waits itself.
LEMMA LoWaitsForOne ==
  ASSUME Lo!OrderAssumption, LoIInv, NEW S \in SUBSET loSections, Lo!Stuck(S), NEW s \in S
  PROVE  /\ loAt[s].kind \in Lo!Kinds /\ loAt[s].got \in 1..(Len(Lo!Plan[loAt[s].kind]) - 1)
         /\ Lo!Wanted(s)[2] # "skip"
         /\ \E t \in S : \E i \in 1..loAt[t].got :
              /\ Lo!Plan[loAt[t].kind][i][1] = Lo!Wanted(s)[1]
              /\ Lo!Wanted(s) # Lo!Connection => t # s /\ Lo!Plan[loAt[t].kind][i] \in Lo!Held(t)
<1>1. Lo!WaitsWithin(s, S)
  BY DEF Lo!Stuck
<1>2. /\ loAt[s].kind \in Lo!Kinds /\ loAt[s].got \in 1..(Len(Lo!Plan[loAt[s].kind]) - 1)
      /\ Lo!Wanted(s)[2] # "skip"
  BY <1>1, LoLengths DEF Lo!WaitsWithin, Lo!Asks, LoIInv, Lo!TypeOK
<1>3. CASE Lo!Wanted(s) = Lo!Connection
  <2>1. Lo!Used(S) # 0
    BY <1>1, <1>3 DEF Lo!WaitsWithin, LoIInv, Lo!TypeOK, Lo!OrderAssumption
  <2>2. UNION { Lo!Connections(t) : t \in S } # {}
    BY <2>1, FS_EmptySet, LoCounts DEF Lo!Used
  <2>3. PICK t \in S : \E i \in 1..loAt[t].got : Lo!Plan[loAt[t].kind][i] = Lo!Connection
    BY <2>2 DEF Lo!Connections
  <2>. QED BY <1>2, <1>3, <2>3
<1>4. CASE Lo!Wanted(s) # Lo!Connection
  <2>1. PICK t \in S \ {s} : \E h \in Lo!Held(t) : h[1] = Lo!Wanted(s)[1]
    BY <1>1, <1>4 DEF Lo!WaitsWithin, Lo!Holders
  <2>2. PICK i \in 1..loAt[t].got : Lo!Plan[loAt[t].kind][i][1] = Lo!Wanted(s)[1] /\ Lo!Plan[loAt[t].kind][i] \in Lo!Held(t)
    BY <2>1 DEF Lo!Held
  <2>. QED BY <1>2, <1>4, <2>1, <2>2
<1>. QED BY <1>3, <1>4

\* The sections in order are not stuck.
LEMMA LoOrderedAreNotStuck ==
  ASSUME Lo!OrderAssumption, LoIInv, NEW S \in SUBSET loSections, Lo!Stuck(S),
         \A s \in S : loAt[s].kind \in LoOrdered \cup {"runDeadline"}
  PROVE  FALSE
<1>1. ASSUME NEW s \in S PROVE loAt[s].kind # "runDeadline"
  <2>1. SUFFICES ASSUME loAt[s].kind = "runDeadline" PROVE FALSE
    OBVIOUS
  <2>2. /\ loAt[s].got \in 1..4 /\ Lo!Wanted(s) = Lo!RunDeadline[loAt[s].got + 1]
        /\ Lo!Wanted(s)[2] # "skip"
        /\ Lo!Plan["runDeadline"] = Lo!RunDeadline
    <3>1. Lo!Plan["runDeadline"] = Lo!RunDeadline /\ Len(Lo!RunDeadline) = 5
      BY DEF Lo!Plan, Lo!RunDeadline
    <3>2. loAt[s].got \in 1..(Len(Lo!Plan[loAt[s].kind]) - 1) /\ Lo!Wanted(s)[2] # "skip"
      BY LoWaitsForOne
    <3>. QED BY <2>1, <3>1, <3>2 DEF Lo!Wanted
  <2>3. /\ loAt[s].got \in 2..4 /\ Lo!Wanted(s)[1] \in {"step", "execution", "wakeup"}
        /\ Lo!Wanted(s) # Lo!Connection
    BY <2>2 DEF Lo!RunDeadline, Lo!Connection, Lo!Lock
  <2>9. PICK t \in S : \E i \in 1..loAt[t].got :
          Lo!Plan[loAt[t].kind][i][1] = Lo!Wanted(s)[1] /\ t # s
    BY <2>3, LoWaitsForOne
  <2>4. PICK i \in 1..loAt[t].got : Lo!Plan[loAt[t].kind][i][1] = Lo!Wanted(s)[1] /\ t # s
    BY <2>9
  <2>5. /\ loAt[t].kind \in Lo!Kinds /\ loAt[t].got \in 1..(Len(Lo!Plan[loAt[t].kind]) - 1)
        /\ Len(Lo!Plan[loAt[t].kind]) \in Nat
    BY LoWaitsForOne, LoLengths
  <2>6. 2 < i /\ Lo!Plan[loAt[t].kind][2] \in {Lo!Lock("run", "update"), Lo!Lock("run", "skip")}
    <3>1. LoRunFirst(Lo!Plan[loAt[t].kind])
      BY LoPlansRunFirst
    <3>2. i \in 1..Len(Lo!Plan[loAt[t].kind]) /\ i < Len(Lo!Plan[loAt[t].kind])
      BY <2>4, <2>5
    <3>. QED BY <2>3, <2>4, <3>1, <3>2 DEF LoRunFirst
  <2>7. /\ Lo!Plan[loAt[t].kind][2] \in Lo!Held(t) /\ Lo!RunDeadline[2] \in Lo!Held(s)
        /\ Lo!RunDeadline[2] = Lo!Lock("run", "skip")
    <3>1. loAt[t] # Lo!Idle /\ loAt[s] # Lo!Idle
      BY <2>2, <2>5 DEF Lo!Idle
    <3>2. 2 \in 1..loAt[t].got /\ 2 \in 1..loAt[s].got
      BY <2>3, <2>5, <2>6
    <3>3. Lo!RunDeadline[2] = Lo!Lock("run", "skip")
      BY DEF Lo!RunDeadline
    <3>. QED BY <2>1, <2>2, <3>1, <3>2, <3>3 DEF Lo!Held
  <2> DEFINE h == Lo!Plan[loAt[t].kind][2]
  <2>8. /\ h \in {<<"run", "update">>, <<"run", "skip">>} /\ Lo!RunDeadline[2] = <<"run",
                                                                                   "skip">> /\ h \in Lo!Held(t)
    BY <2>6, <2>7 DEF Lo!Lock
  <2>. HIDE DEF h
  <2>10. h # Lo!Connection /\ Lo!RunDeadline[2] # Lo!Connection /\ Lo!RunDeadline[2][1] = h[1]
        /\ Lo!RunDeadline[2][2] = "skip" /\ h[2] \in {"update", "skip"}
    BY <2>8 DEF Lo!Connection, Lo!Lock
  <2>11. Lo!Compatible("skip", h[2])
    BY <2>4, <2>7, <2>8, <2>10 DEF LoIInv, LoMutexInv
  <2>. QED BY <2>10, <2>11 DEF Lo!Compatible
<1> DEFINE Wants(s) == LoRank[Lo!Wanted(s)[1]]
<1>2. ASSUME NEW s \in S PROVE Wants(s) \in 0..11 /\ \E t \in S : Wants(t) > Wants(s) /\ Wants(t) \in 0..11
  <2>0. PICK t \in S : \E i \in 1..loAt[t].got : Lo!Plan[loAt[t].kind][i][1] = Lo!Wanted(s)[1]
    BY LoWaitsForOne
  <2>1. PICK i \in 1..loAt[t].got : Lo!Plan[loAt[t].kind][i][1] = Lo!Wanted(s)[1]
    BY <2>0
  <2>2. ASSUME NEW x \in S
        PROVE  /\ LoAscends(Lo!Plan[loAt[x].kind])
               /\ loAt[x].got \in 1..(Len(Lo!Plan[loAt[x].kind]) - 1)
               /\ Len(Lo!Plan[loAt[x].kind]) \in Nat
    BY <1>1, LoWaitsForOne, LoPlansAscend, LoLengths
  <2>3. ASSUME NEW x \in S
        PROVE  /\ Wants(x) \in 0..11 /\ loAt[x].got + 1 \in 1..Len(Lo!Plan[loAt[x].kind])
               /\ \A j \in 1..loAt[x].got : LoRank[Lo!Plan[loAt[x].kind][j][1]] < Wants(x)
    <3> DEFINE plan == Lo!Plan[loAt[x].kind]
               n == loAt[x].got + 1
    <3>1. LoAscends(plan) /\ n \in 1..Len(plan) /\ \A j \in 1..loAt[x].got : j \in 1..Len(plan) /\ j < n
      BY <2>2
    <3>2. Wants(x) = LoRank[plan[n][1]]
      BY DEF Lo!Wanted
    <3>. HIDE DEF plan, n
    <3>3. Wants(x) \in 0..11 /\ \A j \in 1..loAt[x].got : LoRank[plan[j][1]] < Wants(x)
      BY <3>1, <3>2 DEF LoAscends
    <3>. QED BY <3>1, <3>3 DEF plan, n
  <2>4. LoRank[Lo!Plan[loAt[t].kind][i][1]] < Wants(t) /\ Wants(t) \in 0..11
    BY <2>3
  <2>. QED BY <2>1, <2>3, <2>4 DEF Lo!Wanted
<1>. HIDE DEF Wants
<1>3. \E s \in S : Wants(s) >= 0
  BY <1>2 DEF Lo!Stuck
<1>4. \E s \in S : Wants(s) >= 1
  <2>1. PICK s \in S : Wants(s) >= 0
    BY <1>3
  <2>2. PICK t \in S : Wants(t) > Wants(s) /\ Wants(t) \in 0..11 /\ Wants(s) \in 0..11
    BY <1>2
  <2>. QED BY <2>1, <2>2
<1>5. \E s \in S : Wants(s) >= 2
  <2>1. PICK s \in S : Wants(s) >= 1
    BY <1>4
  <2>2. PICK t \in S : Wants(t) > Wants(s) /\ Wants(t) \in 0..11 /\ Wants(s) \in 0..11
    BY <1>2
  <2>. QED BY <2>1, <2>2
<1>6. \E s \in S : Wants(s) >= 3
  <2>1. PICK s \in S : Wants(s) >= 2
    BY <1>5
  <2>2. PICK t \in S : Wants(t) > Wants(s) /\ Wants(t) \in 0..11 /\ Wants(s) \in 0..11
    BY <1>2
  <2>. QED BY <2>1, <2>2
<1>7. \E s \in S : Wants(s) >= 4
  <2>1. PICK s \in S : Wants(s) >= 3
    BY <1>6
  <2>2. PICK t \in S : Wants(t) > Wants(s) /\ Wants(t) \in 0..11 /\ Wants(s) \in 0..11
    BY <1>2
  <2>. QED BY <2>1, <2>2
<1>8. \E s \in S : Wants(s) >= 5
  <2>1. PICK s \in S : Wants(s) >= 4
    BY <1>7
  <2>2. PICK t \in S : Wants(t) > Wants(s) /\ Wants(t) \in 0..11 /\ Wants(s) \in 0..11
    BY <1>2
  <2>. QED BY <2>1, <2>2
<1>9. \E s \in S : Wants(s) >= 6
  <2>1. PICK s \in S : Wants(s) >= 5
    BY <1>8
  <2>2. PICK t \in S : Wants(t) > Wants(s) /\ Wants(t) \in 0..11 /\ Wants(s) \in 0..11
    BY <1>2
  <2>. QED BY <2>1, <2>2
<1>10. \E s \in S : Wants(s) >= 7
  <2>1. PICK s \in S : Wants(s) >= 6
    BY <1>9
  <2>2. PICK t \in S : Wants(t) > Wants(s) /\ Wants(t) \in 0..11 /\ Wants(s) \in 0..11
    BY <1>2
  <2>. QED BY <2>1, <2>2
<1>11. \E s \in S : Wants(s) >= 8
  <2>1. PICK s \in S : Wants(s) >= 7
    BY <1>10
  <2>2. PICK t \in S : Wants(t) > Wants(s) /\ Wants(t) \in 0..11 /\ Wants(s) \in 0..11
    BY <1>2
  <2>. QED BY <2>1, <2>2
<1>12. \E s \in S : Wants(s) >= 9
  <2>1. PICK s \in S : Wants(s) >= 8
    BY <1>11
  <2>2. PICK t \in S : Wants(t) > Wants(s) /\ Wants(t) \in 0..11 /\ Wants(s) \in 0..11
    BY <1>2
  <2>. QED BY <2>1, <2>2
<1>13. \E s \in S : Wants(s) >= 10
  <2>1. PICK s \in S : Wants(s) >= 9
    BY <1>12
  <2>2. PICK t \in S : Wants(t) > Wants(s) /\ Wants(t) \in 0..11 /\ Wants(s) \in 0..11
    BY <1>2
  <2>. QED BY <2>1, <2>2
<1>14. \E s \in S : Wants(s) >= 11
  <2>1. PICK s \in S : Wants(s) >= 10
    BY <1>13
  <2>2. PICK t \in S : Wants(t) > Wants(s) /\ Wants(t) \in 0..11 /\ Wants(s) \in 0..11
    BY <1>2
  <2>. QED BY <2>1, <2>2
<1>15. \E s \in S : Wants(s) >= 12
  <2>1. PICK s \in S : Wants(s) >= 11
    BY <1>14
  <2>2. PICK t \in S : Wants(t) > Wants(s) /\ Wants(t) \in 0..11 /\ Wants(s) \in 0..11
    BY <1>2
  <2>. QED BY <2>1, <2>2
<1>. QED BY <1>2, <1>15

LEMMA LoSafe ==
  ASSUME Lo!OrderAssumption, LoIInv
  PROVE  Lo!TypeOK /\ Lo!WaitsAreOrdered
<1>1. SUFFICES ASSUME NEW S \in SUBSET loSections, Lo!Stuck(S),
                      \A s \in S : loAt[s].kind \notin Lo!OutOfOrder /\ ~Lo!TakesTwoConnections(loAt[s].kind)
               PROVE  FALSE
  BY DEF LoIInv, Lo!WaitsAreOrdered
<1>2. \A s \in S : loAt[s].kind \in LoOrdered \cup {"runDeadline"}
  BY <1>1, LoWaitsForOne, LoPlaced
<1>. QED BY <1>1, <1>2, LoOrderedAreNotStuck

LEMMA LoInvariance == Lo!Spec => []LoIInv
<1>1. Lo!Init => LoIInv
  BY LoInitially
<1>2. LoIInv /\ [Lo!Next]_(Lo!vars) => LoIInv'
  BY LoInductive
<1>. QED BY <1>1, <1>2, PTL DEF Lo!Spec

-----------------------------------------------------------------------------
(* The process of the Hub *)

CONSTANTS hpProcesses, hpPids, hpMaxStarts
VARIABLES hpLock, hpAt, hpStarts, hpPid, hpSeen, hpLine, hpRuntime,
          hpOvertaken

Hp == INSTANCE HubProcess WITH
    Processes <- hpProcesses, Pids <- hpPids, MaxStarts <- hpMaxStarts,
    lock <- hpLock, at <- hpAt, starts <- hpStarts, pid <- hpPid,
    seen <- hpSeen, line <- hpLine, runtime <- hpRuntime,
    overtaken <- hpOvertaken

\* What was started has an id.
HpStartedInv == \A p \in hpProcesses : hpAt[p] # "down" => hpStarts[p] >= 1 /\ hpPid[p] \in hpPids

\* A start that has not made its file, or is over by itself, has none; one that has written
\* it finds it written.
HpFileInv ==
  \A p \in hpProcesses : Hp!MadeBy(hpLock, p) =>
    /\ hpAt[p] \notin {"opening", "reading", "removing", "refused", "exited"}
    /\ hpAt[p] \in Hp!Using \cup Hp!Ending => hpLock.written
    /\ hpLock.pid = hpPid[p]

\* No file is of a start to come.
HpPastInv ==
  /\ hpLock # None => hpLock.start <= hpStarts[hpLock.by]
  /\ \A p \in hpProcesses : hpSeen[p] # None => hpSeen[p].start <= hpStarts[hpSeen[p].by]

\* A written file that a process is about to remove is a dead one's.
HpStaleInv == \A p \in hpProcesses : hpAt[p] = "removing" /\ hpSeen[p] # None /\ hpSeen[p].written => ~Hp!LivingMaker(hpSeen[p])

\* From its making on, the file is its maker's.
HpHeldInv == hpOvertaken \/ \A p \in hpProcesses : hpAt[p] \in {"created"} \cup Hp!Using \cup Hp!Ending => Hp!MadeBy(hpLock, p)

\* There is a runtime until the connections have ended.
HpRuntimeInv ==
  \A p \in hpProcesses :
    /\ hpLine[p] # "none" => hpAt[p] \in {"serving", "closing"}
    /\ hpAt[p] \in Hp!Acquiring \cup {"owner", "serving", "closing"} => hpRuntime[p] = "first"
    /\ hpRuntime[p] # "again"

HpIInv == Hp!TypeOK /\ HpStartedInv /\ HpFileInv /\ HpPastInv /\ HpStaleInv /\ HpHeldInv /\ HpRuntimeInv

-----------------------------------------------------------------------------
LEMMA HpInitially ==
  ASSUME Hp!ProcessAssumption, Hp!Init
  PROVE  HpIInv
<1>1. Hp!TypeOK
  <2>1. 0 \in 0..hpMaxStarts
    BY DEF Hp!ProcessAssumption
  <2>2. /\ hpAt \in [hpProcesses -> {"down"}] /\ hpStarts \in [hpProcesses -> 0..hpMaxStarts]
        /\ hpPid \in [hpProcesses -> hpPids \cup {0}]
    BY <2>1 DEF Hp!Init
  <2>3. /\ hpSeen \in [hpProcesses -> Hp!Files \cup {None}]
        /\ hpLine \in [hpProcesses -> {"none"}] /\ hpRuntime \in [hpProcesses -> {"none"}]
    BY DEF Hp!Init
  <2>4. hpLock \in Hp!Files \cup {None} /\ hpOvertaken \in BOOLEAN
    BY DEF Hp!Init
  <2>. QED BY <2>2, <2>3, <2>4 DEF Hp!TypeOK
<1>2. HpStartedInv /\ HpFileInv /\ HpPastInv /\ HpStaleInv
  BY DEF Hp!Init, HpStartedInv, HpFileInv, HpPastInv, HpStaleInv, Hp!MadeBy
<1>3. HpHeldInv /\ HpRuntimeInv
  BY DEF Hp!Init, HpHeldInv, HpRuntimeInv, Hp!Acquiring, Hp!Using, Hp!Ending
<1>. QED BY <1>1, <1>2, <1>3 DEF HpIInv

LEMMA HpTypeKept ==
  ASSUME Hp!ProcessAssumption, Hp!TypeOK, HpStartedInv, [Hp!Next]_(Hp!vars)
  PROVE  Hp!TypeOK' /\ HpStartedInv'
<1>1. CASE UNCHANGED Hp!vars
  BY <1>1 DEF Hp!TypeOK, HpStartedInv, Hp!vars
<1>2. ASSUME NEW p \in hpProcesses, Hp!Launch(p) PROVE Hp!TypeOK' /\ HpStartedInv'
  <2>1. hpStarts[p] + 1 \in 1..hpMaxStarts
    BY <1>2 DEF Hp!ProcessAssumption, Hp!Launch, Hp!TypeOK
  <2>2. PICK k \in hpPids : hpPid' = [hpPid EXCEPT ![p] = k]
    BY <1>2 DEF Hp!Launch
  <2>3. Hp!TypeOK'
    BY <1>2, <2>1, <2>2 DEF Hp!Launch, Hp!To, Hp!TypeOK, Hp!Acquiring
  <2>. QED BY <1>2, <2>1, <2>2, <2>3 DEF Hp!Launch, Hp!To, Hp!TypeOK, HpStartedInv
<1>3. ASSUME NEW p \in hpProcesses, Hp!Open(p) PROVE Hp!TypeOK' /\ HpStartedInv'
  <2>1. hpStarts[p] \in 1..hpMaxStarts /\ hpPid[p] \in hpPids
    BY <1>3 DEF Hp!Open, HpStartedInv, Hp!TypeOK
  <2>2. hpLock' \in Hp!Files \cup {None}
    <3>1. [by |-> p, start |-> hpStarts[p], pid |-> hpPid[p], written |-> FALSE] \in Hp!Files
      BY <2>1 DEF Hp!Files
    <3>. QED BY <1>3, <3>1 DEF Hp!Open, Hp!TypeOK
  <2>3. Hp!TypeOK'
    BY <1>3, <2>2 DEF Hp!Open, Hp!To, Hp!TypeOK, Hp!Acquiring
  <2>. QED BY <1>3, <2>3 DEF Hp!Open, Hp!To, Hp!TypeOK, HpStartedInv
<1>4. ASSUME NEW p \in hpProcesses, Hp!Write(p) PROVE Hp!TypeOK' /\ HpStartedInv'
  <2>1. hpLock' \in Hp!Files \cup {None}
    BY <1>4 DEF Hp!Write, Hp!MadeBy, Hp!TypeOK, Hp!Files
  <2>2. Hp!TypeOK'
    BY <1>4, <2>1 DEF Hp!Write, Hp!To, Hp!TypeOK, Hp!Using
  <2>. QED BY <1>4, <2>2 DEF Hp!Write, Hp!To, Hp!TypeOK, HpStartedInv
<1>5. ASSUME NEW p \in hpProcesses, Hp!ReadOwner(p) PROVE Hp!TypeOK' /\ HpStartedInv'
  BY <1>5 DEF Hp!ReadOwner, Hp!To, Hp!TypeOK, Hp!Acquiring, HpStartedInv
<1>6. ASSUME NEW p \in hpProcesses, Hp!Remove(p) PROVE Hp!TypeOK' /\ HpStartedInv'
  BY <1>6 DEF Hp!Remove, Hp!To, Hp!TypeOK, Hp!Acquiring, HpStartedInv
<1>7. ASSUME NEW p \in hpProcesses,
             Hp!StartFails(p) \/ Hp!Serve(p) \/ Hp!Signal(p) \/ Hp!Closed(p) \/ Hp!Stopped(p)
      PROVE  Hp!TypeOK' /\ HpStartedInv'
  BY <1>7 DEF Hp!StartFails, Hp!AfterFailure, Hp!Serve, Hp!Signal, Hp!Closed, Hp!Stopped, Hp!To,
     Hp!TypeOK, Hp!Using, Hp!Ending, HpStartedInv
<1>8. ASSUME NEW p \in hpProcesses, Hp!Connect(p) \/ Hp!Upgrade(p) \/ Hp!Leave(p) PROVE Hp!TypeOK' /\ HpStartedInv'
  BY <1>8 DEF Hp!Connect, Hp!Upgrade, Hp!Leave, Hp!TypeOK, HpStartedInv
<1>9. ASSUME NEW p \in hpProcesses, Hp!Release(p) \/ Hp!Unlink(p) \/ Hp!Crash(p) PROVE Hp!TypeOK' /\ HpStartedInv'
  BY <1>9 DEF Hp!Release, Hp!Unlink, Hp!Crash, Hp!To, Hp!TypeOK, Hp!Ending, HpStartedInv,
     Hp!Alive, Hp!Acquiring, Hp!Using
<1>. QED BY <1>1, <1>2, <1>3, <1>4, <1>5, <1>6, <1>7, <1>8, <1>9 DEF Hp!Next

\* A process starts: no file is of the new start.
LEMMA HpLaunchKeeps ==
  ASSUME Hp!ProcessAssumption, HpIInv, NEW p \in hpProcesses, Hp!Launch(p)
  PROVE  HpFileInv' /\ HpPastInv' /\ HpStaleInv' /\ HpHeldInv' /\ HpRuntimeInv'
<1>1. /\ ~Hp!Alive(p) /\ UNCHANGED <<hpLock, hpSeen, hpLine, hpOvertaken>>
      /\ hpStarts' = [hpStarts EXCEPT ![p] = @ + 1] /\ hpAt' = [hpAt EXCEPT ![p] = "opening"]
      /\ hpRuntime' = [hpRuntime EXCEPT ![p] = "first"]
      /\ \A q \in hpProcesses \ {p} : hpPid'[q] = hpPid[q]
  BY DEF Hp!Launch, Hp!To, HpIInv, Hp!TypeOK
<1>2. /\ hpStarts \in [hpProcesses -> Nat] /\ hpStarts'[p] = hpStarts[p] + 1 /\ hpAt'[p] = "opening"
      /\ \A q \in hpProcesses \ {p} : hpStarts'[q] = hpStarts[q] /\ hpAt'[q] = hpAt[q] /\ hpRuntime'[q] = hpRuntime[q]
      /\ hpRuntime'[p] = "first"
  BY <1>1 DEF Hp!ProcessAssumption, HpIInv, Hp!TypeOK
<1>3. ASSUME NEW f \in Hp!Files, f.start <= hpStarts[f.by]
      PROVE  /\ f.start <= hpStarts'[f.by] /\ ~Hp!MadeBy(f, p)'
             /\ \A q \in hpProcesses \ {p} : Hp!MadeBy(f, q)' <=> Hp!MadeBy(f, q)
  BY <1>2, <1>3 DEF Hp!Files, Hp!MadeBy, Hp!ProcessAssumption
<1>4. \A q \in hpProcesses \ {p} : Hp!Alive(q)' = Hp!Alive(q)
  BY <1>2 DEF Hp!Alive
<1>5. HpPastInv'
  <2>1. hpLock # None => hpLock.start <= hpStarts'[hpLock.by]
    BY <1>3 DEF HpIInv, HpPastInv, Hp!TypeOK
  <2>2. \A q \in hpProcesses : hpSeen[q] # None => hpSeen[q].start <= hpStarts'[hpSeen[q].by]
    BY <1>3 DEF HpIInv, HpPastInv, Hp!TypeOK
  <2>. QED BY <1>1, <2>1, <2>2 DEF HpPastInv
<1>6. /\ ~Hp!MadeBy(hpLock, p)' /\ \A q \in hpProcesses \ {p} : Hp!MadeBy(hpLock, q)' <=> Hp!MadeBy(hpLock, q)
  <2>1. CASE hpLock = None
    BY <1>1, <2>1 DEF Hp!MadeBy
  <2>2. CASE hpLock # None
    BY <1>1, <1>3, <2>2 DEF HpIInv, HpPastInv, Hp!TypeOK, Hp!MadeBy
  <2>. QED BY <2>1, <2>2
<1>7. HpFileInv'
  BY <1>1, <1>2, <1>6 DEF HpIInv, HpFileInv
<1>8. HpStaleInv'
  <2>1. SUFFICES ASSUME NEW q \in hpProcesses, hpAt'[q] = "removing", hpSeen[q] # None, hpSeen[q].written
                 PROVE  ~Hp!LivingMaker(hpSeen[q])'
    BY <1>1 DEF HpStaleInv, Hp!LivingMaker, Hp!MadeBy
  <2>2. ~Hp!LivingMaker(hpSeen[q])
    BY <1>2, <2>1 DEF HpIInv, HpStaleInv
  <2>3. hpSeen[q] \in Hp!Files /\ hpSeen[q].start <= hpStarts[hpSeen[q].by]
    BY <2>1 DEF HpIInv, HpPastInv, Hp!TypeOK
  <2>. QED BY <1>1, <1>3, <1>4, <2>2, <2>3 DEF Hp!LivingMaker, Hp!MadeBy
<1>9. HpHeldInv'
  BY <1>1, <1>2, <1>6 DEF HpIInv, HpHeldInv, Hp!Using, Hp!Ending
<1>10. HpRuntimeInv'
  BY <1>1, <1>2 DEF HpIInv, HpRuntimeInv, Hp!Alive, Hp!Using
<1>. QED BY <1>5, <1>7, <1>8, <1>9, <1>10

\* A dead maker stays dead while nothing starts.
LEMMA HpStaleStays ==
  ASSUME UNCHANGED hpStarts, \A q \in hpProcesses : Hp!Alive(q)' => Hp!Alive(q),
         NEW f, ~Hp!LivingMaker(f)
  PROVE  f # None => ~\E q \in hpProcesses : Hp!Alive(q)' /\ f.by = q /\ f.start = hpStarts'[q]
BY DEF Hp!LivingMaker, Hp!MadeBy

\* The file is made where there is none.
LEMMA HpOpenKeeps ==
  ASSUME Hp!ProcessAssumption, HpIInv, NEW p \in hpProcesses, Hp!Open(p)
  PROVE  HpFileInv' /\ HpPastInv' /\ HpStaleInv' /\ HpHeldInv' /\ HpRuntimeInv'
<1>1. /\ hpAt[p] = "opening" /\ UNCHANGED <<hpStarts, hpPid, hpSeen, hpLine, hpRuntime,
                                            hpOvertaken>>
      /\ \/ /\ hpLock = None /\ hpAt' = [hpAt EXCEPT ![p] = "created"]
            /\ hpLock' = [by |-> p, start |-> hpStarts[p], pid |-> hpPid[p], written |-> FALSE]
         \/ hpLock' = hpLock /\ hpLock # None /\ hpAt' = [hpAt EXCEPT ![p] = "reading"]
  BY DEF Hp!Open, Hp!To
<1>2. /\ hpAt'[p] \in {"created", "reading"} /\ \A q \in hpProcesses \ {p} : hpAt'[q] = hpAt[q]
      /\ hpStarts[p] \in Int
  BY <1>1 DEF HpIInv, Hp!TypeOK
<1>3. \A q \in hpProcesses : Hp!Alive(q)' => Hp!Alive(q)
  BY <1>1, <1>2 DEF Hp!Alive, Hp!Acquiring
<1>4. HpFileInv'
  <2>1. CASE hpLock = None
    BY <1>1, <1>2, <2>1 DEF HpFileInv, Hp!MadeBy, Hp!Using, Hp!Ending, HpIInv, Hp!TypeOK
  <2>2. CASE hpLock # None
    BY <1>1, <1>2, <2>2 DEF HpFileInv, Hp!MadeBy, Hp!Using, Hp!Ending, HpIInv, Hp!TypeOK
  <2>. QED BY <2>1, <2>2
<1>5. HpPastInv'
  BY <1>1, <1>2 DEF HpIInv, HpPastInv
<1>6. HpStaleInv'
  <2>1. SUFFICES ASSUME NEW q \in hpProcesses, hpAt'[q] = "removing", hpSeen[q] # None, hpSeen[q].written
                 PROVE  ~Hp!LivingMaker(hpSeen[q])'
    BY <1>1 DEF HpStaleInv, Hp!LivingMaker, Hp!MadeBy
  <2>2. ~Hp!LivingMaker(hpSeen[q])
    BY <1>2, <2>1 DEF HpIInv, HpStaleInv
  <2>. QED BY <1>1, <1>3, <2>1, <2>2, HpStaleStays DEF Hp!LivingMaker, Hp!MadeBy
<1>7. HpHeldInv'
  <2>1. SUFFICES ASSUME ~hpOvertaken', NEW q \in hpProcesses, hpAt'[q] \in {"created"} \cup Hp!Using \cup Hp!Ending
                 PROVE  Hp!MadeBy(hpLock, q)'
    BY DEF HpHeldInv
  <2>2. ~hpOvertaken /\ hpStarts' = hpStarts
    BY <1>1, <2>1
  <2>3. CASE q = p
    <3>1. hpAt'[p] # "reading"
      BY <2>1, <2>3 DEF Hp!Using, Hp!Ending
    <3>2. hpLock' = [by |-> p, start |-> hpStarts[p], pid |-> hpPid[p], written |-> FALSE]
      BY <1>1, <3>1 DEF HpIInv, Hp!TypeOK
    <3>3. [by |-> p, start |-> hpStarts[p], pid |-> hpPid[p], written |-> FALSE] \in Hp!Files
      BY <1>1 DEF HpIInv, Hp!TypeOK, HpStartedInv, Hp!Files
    <3>. QED BY <1>1, <2>3, <3>2, <3>3 DEF Hp!MadeBy, Hp!ProcessAssumption
  <2>4. CASE q # p
    <3>1. Hp!MadeBy(hpLock, q)
      BY <1>2, <2>1, <2>2, <2>4 DEF HpIInv, HpHeldInv
    <3>. QED BY <1>1, <2>2, <3>1 DEF Hp!MadeBy
  <2>. QED BY <2>3, <2>4
<1>8. HpRuntimeInv'
  BY <1>1, <1>2 DEF HpIInv, HpRuntimeInv, Hp!Acquiring
<1>. QED BY <1>4, <1>5, <1>6, <1>7, <1>8

\* The owner is written.
LEMMA HpWriteKeeps ==
  ASSUME Hp!ProcessAssumption, HpIInv, NEW p \in hpProcesses, Hp!Write(p)
  PROVE  HpFileInv' /\ HpPastInv' /\ HpStaleInv' /\ HpHeldInv' /\ HpRuntimeInv'
<1>1. /\ hpAt[p] = "created" /\ hpAt' = [hpAt EXCEPT ![p] = "owner"]
      /\ UNCHANGED <<hpStarts, hpPid, hpSeen, hpLine, hpRuntime, hpOvertaken>>
      /\ hpLock' = IF Hp!MadeBy(hpLock, p) THEN [hpLock EXCEPT !.written = TRUE] ELSE hpLock
  BY DEF Hp!Write, Hp!To
<1>2. hpAt'[p] = "owner" /\ \A q \in hpProcesses \ {p} : hpAt'[q] = hpAt[q]
  BY <1>1 DEF HpIInv, Hp!TypeOK
<1>3. \A q \in hpProcesses : Hp!Alive(q)' => Hp!Alive(q)
  BY <1>1, <1>2 DEF Hp!Alive, Hp!Acquiring
<1>4. /\ hpLock = None <=> hpLock' = None
      /\ hpLock # None => hpLock'.by = hpLock.by /\ hpLock'.start = hpLock.start /\ hpLock'.pid = hpLock.pid
      /\ Hp!MadeBy(hpLock, p) => hpLock'.written
      /\ hpLock # None /\ hpLock.written => hpLock'.written
  <2>1. CASE Hp!MadeBy(hpLock, p)
    <3>1. hpLock \in Hp!Files /\ hpLock # None
      BY <2>1 DEF Hp!MadeBy, HpIInv, Hp!TypeOK
    <3>2. hpLock' = [hpLock EXCEPT !.written = TRUE] /\ hpLock' \in Hp!Files
      BY <1>1, <2>1, <3>1 DEF Hp!Files
    <3>. QED BY <3>1, <3>2 DEF Hp!Files, Hp!ProcessAssumption
  <2>2. CASE ~Hp!MadeBy(hpLock, p)
    BY <1>1, <2>2
  <2>. QED BY <2>1, <2>2
<1>5. \A q \in hpProcesses : Hp!MadeBy(hpLock, q)' <=> Hp!MadeBy(hpLock, q)
  BY <1>1, <1>4 DEF Hp!MadeBy
<1>6. HpFileInv'
  BY <1>1, <1>2, <1>4, <1>5 DEF HpIInv, HpFileInv, Hp!MadeBy
<1>7. HpPastInv'
  BY <1>1, <1>4 DEF HpIInv, HpPastInv
<1>8. HpStaleInv'
  <2>1. SUFFICES ASSUME NEW q \in hpProcesses, hpAt'[q] = "removing", hpSeen[q] # None, hpSeen[q].written
                 PROVE  ~Hp!LivingMaker(hpSeen[q])'
    BY <1>1 DEF HpStaleInv, Hp!LivingMaker, Hp!MadeBy
  <2>2. ~Hp!LivingMaker(hpSeen[q])
    BY <1>2, <2>1 DEF HpIInv, HpStaleInv
  <2>. QED BY <1>1, <1>3, <2>1, <2>2, HpStaleStays DEF Hp!LivingMaker, Hp!MadeBy
<1>9. HpHeldInv'
  BY <1>1, <1>2, <1>5 DEF HpIInv, HpHeldInv
<1>10. HpRuntimeInv'
  BY <1>1, <1>2 DEF HpIInv, HpRuntimeInv, Hp!Acquiring
<1>. QED BY <1>6, <1>7, <1>8, <1>9, <1>10

\* A file is judged stale only if no living process has the id in it.
LEMMA HpReadKeeps ==
  ASSUME Hp!ProcessAssumption, HpIInv, NEW p \in hpProcesses, Hp!ReadOwner(p)
  PROVE  HpFileInv' /\ HpPastInv' /\ HpStaleInv' /\ HpHeldInv' /\ HpRuntimeInv'
<1>1. /\ hpAt[p] = "reading" /\ UNCHANGED <<hpLock, hpStarts, hpPid, hpLine, hpOvertaken>>
      /\ \/ /\ hpAt' = [hpAt EXCEPT ![p] = "refused"] /\ UNCHANGED hpSeen
            /\ hpRuntime' = [hpRuntime EXCEPT ![p] = "none"]
         \/ /\ hpAt' = [hpAt EXCEPT ![p] = "removing"] /\ UNCHANGED hpRuntime
            /\ hpSeen' = [hpSeen EXCEPT ![p] = hpLock]
            /\ ~(hpLock # None /\ hpLock.written /\ Hp!ProcessIsRunning(p, hpLock.pid))
  BY DEF Hp!ReadOwner, Hp!To
<1>2. hpAt'[p] \in {"refused", "removing"} /\ \A q \in hpProcesses \ {p} : hpAt'[q] = hpAt[q]
  BY <1>1 DEF HpIInv, Hp!TypeOK
<1>3. \A q \in hpProcesses : Hp!Alive(q)' => Hp!Alive(q)
  BY <1>1, <1>2 DEF Hp!Alive, Hp!Acquiring
<1>4. HpFileInv'
  BY <1>1, <1>2 DEF HpIInv, HpFileInv, Hp!MadeBy, Hp!Using, Hp!Ending
<1>5. HpPastInv'
  BY <1>1 DEF HpIInv, HpPastInv, Hp!TypeOK
<1>6. HpStaleInv'
  <2>1. SUFFICES ASSUME NEW q \in hpProcesses, hpAt'[q] = "removing", hpSeen'[q] # None, hpSeen'[q].written
                 PROVE  ~Hp!LivingMaker(hpSeen'[q])
    BY <1>1, <1>3 DEF HpStaleInv, Hp!LivingMaker, Hp!MadeBy
  <2>2. CASE q # p
    BY <1>1, <1>2, <2>1, <2>2 DEF HpIInv, HpStaleInv, Hp!TypeOK
  <2>3. CASE q = p
    <3>1. /\ hpLock = hpSeen'[q] /\ hpLock # None /\ hpLock.written
          /\ ~Hp!ProcessIsRunning(p, hpLock.pid)
      BY <1>1, <2>1, <2>3 DEF HpIInv, Hp!TypeOK
    <3>. QED BY <3>1 DEF Hp!LivingMaker, Hp!ProcessIsRunning, HpIInv, HpFileInv
  <2>. QED BY <2>2, <2>3
<1>7. HpHeldInv'
  BY <1>1, <1>2 DEF HpIInv, HpHeldInv, Hp!MadeBy, Hp!Using, Hp!Ending
<1>8. HpRuntimeInv'
  BY <1>1, <1>2 DEF HpIInv, HpRuntimeInv, Hp!Acquiring, Hp!TypeOK
<1>. QED BY <1>4, <1>5, <1>6, <1>7, <1>8

\* Only a file that is not the one judged stale, or an unwritten one, is removed from a
\* living owner.
LEMMA HpRemoveKeeps ==
  ASSUME Hp!ProcessAssumption, HpIInv, NEW p \in hpProcesses, Hp!Remove(p)
  PROVE  HpFileInv' /\ HpPastInv' /\ HpStaleInv' /\ HpHeldInv' /\ HpRuntimeInv'
<1>1. /\ hpAt[p] = "removing" /\ hpAt' = [hpAt EXCEPT ![p] = "opening"] /\ hpLock' = None
      /\ UNCHANGED <<hpStarts, hpPid, hpLine, hpRuntime>> /\ hpSeen' = [hpSeen EXCEPT ![p] = None]
      /\ hpOvertaken' = (hpOvertaken \/ (Hp!LivingMaker(hpLock) /\ (hpLock # hpSeen[p] \/ ~hpLock.written)))
  BY DEF Hp!Remove, Hp!To
<1>2. hpAt'[p] = "opening" /\ \A q \in hpProcesses \ {p} : hpAt'[q] = hpAt[q] /\ hpSeen'[q] = hpSeen[q]
  BY <1>1 DEF HpIInv, Hp!TypeOK
<1>3. \A q \in hpProcesses : Hp!Alive(q)' => Hp!Alive(q)
  BY <1>1, <1>2 DEF Hp!Alive, Hp!Acquiring
<1>4. HpFileInv' /\ HpPastInv'
  BY <1>1 DEF HpIInv, HpFileInv, Hp!MadeBy, HpPastInv, Hp!TypeOK
<1>5. HpStaleInv'
  <2>1. SUFFICES ASSUME NEW q \in hpProcesses, hpAt'[q] = "removing", hpSeen'[q] # None, hpSeen'[q].written
                 PROVE  ~Hp!LivingMaker(hpSeen'[q])
    BY <1>1, <1>3 DEF HpStaleInv, Hp!LivingMaker, Hp!MadeBy
  <2>. QED BY <1>1, <1>2, <2>1 DEF HpIInv, HpStaleInv
<1>6. HpHeldInv'
  <2>1. SUFFICES ASSUME ~hpOvertaken', NEW q \in hpProcesses, hpAt'[q] \in {"created"} \cup Hp!Using \cup Hp!Ending
                 PROVE  FALSE
    BY DEF HpHeldInv
  <2>2. ~hpOvertaken /\ ~(Hp!LivingMaker(hpLock) /\ (hpLock # hpSeen[p] \/ ~hpLock.written))
    BY <1>1, <2>1
  <2>3. q # p /\ hpAt[q] = hpAt'[q]
    BY <1>2, <2>1 DEF Hp!Using, Hp!Ending
  <2>4. Hp!MadeBy(hpLock, q) /\ Hp!Alive(q)
    BY <2>1, <2>2, <2>3 DEF HpIInv, HpHeldInv, Hp!Alive, Hp!Acquiring
  <2>5. Hp!LivingMaker(hpLock) /\ hpLock # None
    BY <2>4 DEF Hp!LivingMaker, Hp!MadeBy
  <2>6. hpLock = hpSeen[p] /\ hpLock.written
    BY <2>2, <2>5
  <2>. QED BY <1>1, <2>5, <2>6 DEF HpIInv, HpStaleInv
<1>7. HpRuntimeInv'
  BY <1>1, <1>2 DEF HpIInv, HpRuntimeInv, Hp!Acquiring
<1>. QED BY <1>4, <1>5, <1>6, <1>7

\* The process goes from place to place, and the file stays.
LEMMA HpPlaceKeeps ==
  ASSUME Hp!ProcessAssumption, HpIInv, NEW p \in hpProcesses,
         \/ Hp!StartFails(p) \/ Hp!Serve(p) \/ Hp!Signal(p) \/ Hp!Closed(p) \/ Hp!Stopped(p) \/ Hp!Release(p)
         \/ Hp!Crash(p)
  PROVE  HpFileInv' /\ HpPastInv' /\ HpStaleInv' /\ HpHeldInv' /\ HpRuntimeInv'
<1>1. /\ UNCHANGED <<hpLock, hpStarts, hpPid, hpOvertaken>>
      /\ \A q \in hpProcesses \ {p} : hpAt'[q] = hpAt[q] /\ hpSeen'[q] = hpSeen[q] /\ hpLine'[q] = hpLine[q] /\ hpRuntime'[q] = hpRuntime[q]
      /\ hpSeen'[p] \in {hpSeen[p], None}
  BY DEF Hp!StartFails, Hp!Serve, Hp!Signal, Hp!Closed, Hp!Stopped, Hp!Release, Hp!Crash, Hp!To,
     HpIInv, Hp!TypeOK
<1>2. \/ hpAt[p] \in Hp!Using \cup Hp!Ending /\ hpAt'[p] \in Hp!Using \cup Hp!Ending
      \/ hpAt[p] = "releasing" /\ hpAt'[p] = "exited" /\ ~Hp!OwnFile(p)
      \/ hpAt'[p] = "down"
  BY DEF Hp!StartFails, Hp!AfterFailure, Hp!Serve, Hp!Signal, Hp!Closed, Hp!Stopped, Hp!Release,
     Hp!Crash, Hp!To, HpIInv, Hp!TypeOK, Hp!Using, Hp!Ending
<1>3. \A q \in hpProcesses : Hp!Alive(q)' => Hp!Alive(q)
  BY <1>1, <1>2 DEF Hp!Alive, Hp!Acquiring, Hp!Using, Hp!Ending, Hp!Crash, Hp!StartFails,
     Hp!Serve, Hp!Signal, Hp!Closed, Hp!Stopped, Hp!Release
<1>4. HpFileInv'
  BY <1>1, <1>2 DEF HpIInv, HpFileInv, Hp!MadeBy, Hp!OwnFile, Hp!Using, Hp!Ending
<1>5. HpPastInv'
  BY <1>1 DEF HpIInv, HpPastInv
<1>6. HpStaleInv'
  <2>1. SUFFICES ASSUME NEW q \in hpProcesses, hpAt'[q] = "removing", hpSeen'[q] # None, hpSeen'[q].written
                 PROVE  ~Hp!LivingMaker(hpSeen'[q])
    BY <1>1, <1>3 DEF HpStaleInv, Hp!LivingMaker, Hp!MadeBy
  <2>. QED BY <1>1, <1>2, <2>1 DEF HpIInv, HpStaleInv, Hp!Using, Hp!Ending
<1>7. HpHeldInv'
  BY <1>1, <1>2 DEF HpIInv, HpHeldInv, Hp!MadeBy, Hp!Using, Hp!Ending
<1>8. /\ hpLine'[p] # "none" => hpAt'[p] \in {"serving", "closing"}
      /\ hpAt'[p] \in Hp!Acquiring \cup {"owner", "serving", "closing"} => hpRuntime'[p] = "first"
      /\ hpRuntime'[p] # "again"
  BY DEF Hp!StartFails, Hp!AfterFailure, Hp!Serve, Hp!Signal, Hp!Closed, Hp!ConnectionsEnded,
     Hp!Stopped, Hp!Release, Hp!Crash, Hp!To,
         HpIInv, Hp!TypeOK, HpRuntimeInv, Hp!Acquiring
<1>9. HpRuntimeInv'
  BY <1>1, <1>8 DEF HpIInv, HpRuntimeInv
<1>. QED BY <1>4, <1>5, <1>6, <1>7, <1>9

\* Connections come, turn into a daemon's and go.
LEMMA HpLineKeeps ==
  ASSUME Hp!ProcessAssumption, HpIInv, NEW p \in hpProcesses,
         Hp!Connect(p) \/ Hp!Upgrade(p) \/ Hp!Leave(p)
  PROVE  HpFileInv' /\ HpPastInv' /\ HpStaleInv' /\ HpHeldInv' /\ HpRuntimeInv'
<1>1. UNCHANGED <<hpLock, hpAt, hpStarts, hpPid, hpSeen, hpOvertaken>>
  BY DEF Hp!Connect, Hp!Upgrade, Hp!Leave
<1>2. HpFileInv' /\ HpPastInv' /\ HpStaleInv' /\ HpHeldInv'
  BY <1>1
     DEF HpIInv, HpFileInv, HpPastInv, HpStaleInv, HpHeldInv, Hp!MadeBy, Hp!LivingMaker, Hp!Alive
<1>3. HpRuntimeInv'
  BY DEF Hp!Connect, Hp!Upgrade, Hp!Leave, HpIInv, HpRuntimeInv, Hp!TypeOK, Hp!Acquiring
<1>. QED BY <1>2, <1>3

\* The owner removes its file.
LEMMA HpUnlinkKeeps ==
  ASSUME Hp!ProcessAssumption, HpIInv, NEW p \in hpProcesses, Hp!Unlink(p)
  PROVE  HpFileInv' /\ HpPastInv' /\ HpStaleInv' /\ HpHeldInv' /\ HpRuntimeInv'
<1>1. /\ hpAt[p] = "unlinking" /\ hpAt' = [hpAt EXCEPT ![p] = "exited"] /\ hpLock' = None
      /\ UNCHANGED <<hpStarts, hpPid, hpSeen, hpLine, hpRuntime, hpOvertaken>>
  BY DEF Hp!Unlink, Hp!To
<1>2. hpAt'[p] = "exited" /\ \A q \in hpProcesses \ {p} : hpAt'[q] = hpAt[q]
  BY <1>1 DEF HpIInv, Hp!TypeOK
<1>3. \A q \in hpProcesses : Hp!Alive(q)' => Hp!Alive(q)
  BY <1>1, <1>2 DEF Hp!Alive, Hp!Acquiring, Hp!Using, Hp!Ending
<1>4. HpFileInv' /\ HpPastInv'
  BY <1>1 DEF HpIInv, HpFileInv, Hp!MadeBy, HpPastInv
<1>5. HpStaleInv'
  <2>1. SUFFICES ASSUME NEW q \in hpProcesses, hpAt'[q] = "removing", hpSeen'[q] # None, hpSeen'[q].written
                 PROVE  ~Hp!LivingMaker(hpSeen'[q])
    BY <1>1, <1>3 DEF HpStaleInv, Hp!LivingMaker, Hp!MadeBy
  <2>. QED BY <1>1, <1>2, <2>1 DEF HpIInv, HpStaleInv
<1>6. HpHeldInv'
  <2>1. hpOvertaken \/ Hp!MadeBy(hpLock, p)
    BY <1>1 DEF HpIInv, HpHeldInv, Hp!Ending
  <2>2. \A q \in hpProcesses \ {p} : Hp!MadeBy(hpLock, p) => ~Hp!MadeBy(hpLock, q)
    BY DEF Hp!MadeBy
  <2>. QED BY <1>1, <1>2, <2>1, <2>2 DEF HpIInv, HpHeldInv, Hp!Using, Hp!Ending
<1>7. HpRuntimeInv'
  BY <1>1, <1>2 DEF HpIInv, HpRuntimeInv, Hp!Acquiring
<1>. QED BY <1>4, <1>5, <1>6, <1>7

\* Every step keeps IInv.
LEMMA HpInductive ==
  ASSUME Hp!ProcessAssumption, HpIInv, [Hp!Next]_(Hp!vars)
  PROVE  HpIInv'
<1>1. Hp!TypeOK' /\ HpStartedInv'
  BY HpTypeKept DEF HpIInv
<1>2. HpFileInv' /\ HpPastInv' /\ HpStaleInv' /\ HpHeldInv' /\ HpRuntimeInv'
  <2>1. CASE UNCHANGED Hp!vars
    BY <2>1 DEF Hp!vars, HpIInv, HpFileInv, HpPastInv, HpStaleInv, HpHeldInv, HpRuntimeInv,
       Hp!MadeBy, Hp!LivingMaker, Hp!Alive
  <2>. QED
    BY <2>1, HpLaunchKeeps, HpOpenKeeps, HpWriteKeeps, HpReadKeeps, HpRemoveKeeps, HpPlaceKeeps,
       HpLineKeeps, HpUnlinkKeeps
       DEF Hp!Next
<1>. QED BY <1>1, <1>2 DEF HpIInv

\* The invariant of the processes.
THEOREM HpInvariance ==
  ASSUME Hp!ProcessAssumption
  PROVE  Hp!Spec => []HpIInv
<1>. QED BY HpInitially, HpInductive, PTL DEF Hp!Spec

LEMMA HpSafe ==
  ASSUME HpIInv
  PROVE  Hp!OwnedAlone /\ Hp!LeavesNoFile /\ Hp!StoppedForGood
<1>1. Hp!OwnedAlone
  BY DEF HpIInv, HpHeldInv, Hp!OwnedAlone, Hp!MadeBy
<1>2. Hp!LeavesNoFile /\ Hp!StoppedForGood
  BY DEF HpIInv, HpFileInv, HpRuntimeInv, Hp!LeavesNoFile, Hp!StoppedForGood
<1>. QED BY <1>1, <1>2

\* One process at a time owns the database, and leaves it when it ends by itself
\* (src/src/db/runtime/internal/data-directory-lock.ts, src/src/server/runtime.ts).
THEOREM HpProcessesAreAlone ==
  ASSUME Hp!ProcessAssumption
  PROVE  Hp!Spec => [](Hp!OwnedAlone /\ Hp!LeavesNoFile /\ Hp!StoppedForGood)
<1>. QED BY HpSafe, HpInvariance, PTL

-----------------------------------------------------------------------------
(* Billing *)

CONSTANTS biSubscriptions, biPrices, biWorkers, biFree, biMaxSeats,
          biMaxChanges, biMaxFailures, biMaxRepeats
VARIABLES biSubscription, biDue, biCheckouts, biMirrored, biPlan, biCustomer,
          biSeats, biList, biHolder, biTask, biTrialled, biLast, biAstray,
          biChanges, biFailures, biRepeats

Bi == INSTANCE Billing WITH
    Subscriptions <- biSubscriptions, Prices <- biPrices,
    Workers <- biWorkers, Free <- biFree, MaxSeats <- biMaxSeats,
    MaxChanges <- biMaxChanges, MaxFailures <- biMaxFailures,
    MaxRepeats <- biMaxRepeats, subscription <- biSubscription, due <- biDue,
    checkouts <- biCheckouts, mirrored <- biMirrored, plan <- biPlan,
    customer <- biCustomer, seats <- biSeats, list <- biList,
    holder <- biHolder, task <- biTask, trialled <- biTrialled,
    last <- biLast, astray <- biAstray, changes <- biChanges,
    failures <- biFailures, repeats <- biRepeats

BiStock == [status : {"none"} \cup Bi!Live \cup Bi!Terminal, price : biPrices, quantity : 0..biMaxSeats]
BiListType == [biSubscriptions -> {"none"} \cup Bi!Live \cup Bi!Terminal]
BiAsked == [asked : BiListType, for : biPrices \cup {None}]
BiTaskType == [job : Bi!Jobs, at : Bi!Steps, sub : biSubscriptions \cup {None},
             state : BiStock \cup biPrices \cup {None} \cup BiAsked, count : 0..biMaxSeats]
BiHeld == {"locked", "stamp", "seats", "report"}
BiPast == {"stamp", "seats", "report"}
BiUsed(s) == biSubscription[s].status # "none"
BiKnown(l) == \A s \in biSubscriptions : l[s] # "none" => BiUsed(s)

BiTypeInv ==
  /\ biSubscription \in [biSubscriptions -> BiStock] /\ biDue \in SUBSET biSubscriptions
  /\ biMirrored \in SUBSET biPrices /\ biCheckouts \in SUBSET [price : biPrices, quantity : 0..biMaxSeats]
  /\ biPlan \in biPrices \cup {biFree} /\ biCustomer \in BOOLEAN /\ biSeats \in 1..biMaxSeats
  /\ biList \in BiListType \cup {None} /\ biHolder \in biWorkers \cup {None}
  /\ biLast \in biSubscriptions \cup {None} /\ biAstray \in BOOLEAN
  /\ biTask \in [biWorkers -> BiTaskType]

\* What a job holds where it is.
BiForm(t) ==
  /\ t.at \in {"list", "asked"} => t.job \in {"seats", "trial", "checkout"}
  /\ t.at = "act" => t.job \in {"trial", "checkout"}
  /\ t.at \in {"wait", "locked", "seats", "report"} => t.job \in {"webhook", "seats", "trial"}
  /\ t.at = "stamp" => t.job \in {"webhook", "trial"}
  /\ t.job = "webhook" => t.at \in BiHeld \cup {"wait"}
  /\ t.at = "list" => t.state \in biPrices \cup {None}
  /\ t.at \in {"list", "act"} /\ t.job = "checkout" => t.state \in biPrices
  /\ t.at = "asked" => t.state \in BiAsked /\ (t.job = "checkout" => t.state.for \in biPrices)
  /\ t.at \in BiHeld \cup {"wait"} => t.sub \in biSubscriptions
  /\ t.at \in BiPast => t.state \in BiStock

BiTaskInv == \A w \in biWorkers : BiForm(biTask[w]) /\ (biTask[w].at \in BiHeld <=> biHolder = w)

\* What is announced, listed or worked on is a subscription that was begun.
BiKnownInv ==
  /\ \A s \in biDue : BiUsed(s)
  /\ biList # None => BiKnown(biList)
  /\ \A w \in biWorkers :
       /\ biTask[w].sub # None => BiUsed(biTask[w].sub)
       /\ biTask[w].at = "asked" => BiKnown(biTask[w].state.asked)

BiLiveInv ==
  ~biAstray => \A s, t \in biSubscriptions :
               biSubscription[s].status \in Bi!Live /\ biSubscription[t].status \in Bi!Live => s = t

\* The state of a subscription is still to be read, or its seats to be counted.
BiReads(t, s) == t.job = "webhook" /\ t.at \in {"wait", "locked"} /\ t.sub = s
BiWill(t, s) ==
  /\ t.job = "seats"
  /\ t.at \in {"list", "asked"} \/ (t.at \in {"wait", "locked"} /\ t.sub = s)
BiPend(s) == s \in biDue \/ \E w \in biWorkers : BiReads(biTask[w], s)
BiAgain(s) == BiPend(s) \/ \E w \in biWorkers : BiWill(biTask[w], s)
BiAgree(w) ==
  /\ biTask[w].state.status = biSubscription[biTask[w].sub].status
  /\ biTask[w].state.price = biSubscription[biTask[w].sub].price
BiStamps(w, s) == biTask[w].job = "webhook" /\ biTask[w].at = "stamp" /\ biTask[w].sub = s
BiCounts(w, s) ==
  /\ biTask[w].job \in {"webhook", "seats"} /\ biTask[w].sub = s
  /\ \/ biTask[w].at \in {"stamp", "seats"} /\ biTask[w].state.status \in Bi!Stampable
     \/ biTask[w].at = "report" /\ biTask[w].count = biSeats

\* What was read under the lock is what Stripe has, but for what it has announced since; only
\* the holder of the lock reports seats.
BiReadInv ==
  \A w \in biWorkers : biTask[w].at \in BiPast =>
    /\ BiAgree(w) \/ BiPend(biTask[w].sub)
    /\ biTask[w].state.quantity = biSubscription[biTask[w].sub].quantity

BiRight(s) ==
  /\ biSubscription[s].status \in Bi!Stampable => biPlan = biSubscription[s].price
  /\ biSubscription[s].status \in Bi!Terminal => biPlan = biFree
BiStampInv ==
  biLast # None /\ ~BiRight(biLast) => BiPend(biLast) \/ \E w \in biWorkers : BiStamps(w, biLast) /\ BiAgree(w)

\* Before the customer is known, every subscription is still to be stamped.
BiCustomerInv ==
  ~biCustomer =>
    /\ \A s \in biSubscriptions : BiUsed(s) => BiPend(s) \/ \E w \in biWorkers : BiStamps(w, s)
    /\ \A w \in biWorkers : biTask[w].job # "seats" /\ biTask[w].at \notin {"seats", "report"}

BiBillInv ==
  ~biAstray => \A s \in biSubscriptions :
    biSubscription[s].status \in Bi!Stampable /\ biSubscription[s].quantity # biSeats =>
      BiAgain(s) \/ \E w \in biWorkers : BiCounts(w, s)

BiIInv ==
  /\ BiTypeInv /\ BiTaskInv /\ BiKnownInv /\ BiLiveInv
  /\ BiReadInv /\ BiStampInv /\ BiCustomerInv /\ BiBillInv

LEMMA BiInitially ==
  ASSUME Bi!BillingAssumption, Bi!Init
  PROVE  BiIInv
<1>1. /\ \A s \in biSubscriptions : biSubscription[s].status = "none"
      /\ biDue = {} /\ biList = None /\ biHolder = None /\ biLast = None /\ \A w \in biWorkers : biTask[w] = Bi!Idle
  BY DEF Bi!Init
<1>2. Bi!Idle \in BiTaskType /\ BiForm(Bi!Idle) /\ Bi!Idle.at = "none" /\ Bi!Idle.sub = None
  BY DEF Bi!Idle, BiTaskType, BiForm, Bi!Jobs, Bi!Steps, BiHeld, BiPast, Bi!BillingAssumption
<1>3. BiTypeInv
  <2>1. biSubscription \in [biSubscriptions -> BiStock]
    <3>1. (CHOOSE p \in biPrices : TRUE) \in biPrices
      BY DEF Bi!BillingAssumption
    <3>2. 0 \in 0..biMaxSeats
      BY DEF Bi!BillingAssumption
    <3>. QED BY <3>1, <3>2 DEF Bi!Init, BiStock
  <2>2. biSeats \in 1..biMaxSeats
    BY DEF Bi!Init, Bi!BillingAssumption
  <2>3. biTask \in [biWorkers -> BiTaskType]
    BY <1>2 DEF Bi!Init
  <2>. QED BY <2>1, <2>2, <2>3 DEF Bi!Init, BiTypeInv
<1>4. BiTaskInv
  BY <1>1, <1>2 DEF BiTaskInv, BiHeld, Bi!BillingAssumption
<1>5. BiKnownInv
  BY <1>1, <1>2 DEF BiKnownInv
<1>6. BiLiveInv /\ BiBillInv
  BY <1>1 DEF BiLiveInv, BiBillInv, Bi!Live, Bi!Stampable
<1>7. BiReadInv
  BY <1>1, <1>2 DEF BiReadInv, BiPast
<1>8. BiStampInv
  BY <1>1 DEF BiStampInv
<1>9. BiCustomerInv
  BY <1>1 DEF BiCustomerInv, BiUsed, Bi!Idle
<1>. QED BY <1>3, <1>4, <1>5, <1>6, <1>7, <1>8, <1>9 DEF BiIInv

\* A step outside the lock, that makes nobody forget what is to be read or counted.
LEMMA BiOutside ==
  ASSUME Bi!BillingAssumption, BiIInv,
         \A v \in biWorkers : biTask'[v].at \in BiPast => biTask'[v] = biTask[v],
         \A v \in biWorkers : biTask[v].at \in BiPast /\ biTask'[v] # biTask[v] =>
           (biTask[v].job = "webhook" => biTask[v].sub \in biDue') /\ (biTask[v].job = "seats" => biAstray'),
         \A s \in biSubscriptions : BiPend(s) => BiPend(s)',
         \A s \in biSubscriptions :
           ~biAstray' /\ biSubscription'[s].status \in Bi!Live /\ BiAgain(s) => BiAgain(s)',
         \A s \in biSubscriptions :
           \/ biSubscription'[s] = biSubscription[s]
           \/ s \in biDue' /\ (BiUsed(s) => biSubscription'[s].quantity = biSubscription[s].quantity),
         UNCHANGED <<biPlan, biCustomer, biLast>>, biAstray => biAstray',
         biSeats' = biSeats \/ (biCustomer => \A s : BiAgain(s)'),
         biCustomer \/ \A v \in biWorkers : biTask'[v].job # "seats"
  PROVE  BiReadInv' /\ BiStampInv' /\ BiCustomerInv' /\ BiBillInv'
<1>1. \A s : s \in biDue' => BiPend(s)'
  BY DEF BiPend
<1>2. \A v \in biWorkers : biTask[v].at \in BiPast => biTask[v].sub \in biSubscriptions /\ BiUsed(biTask[v].sub)
  BY DEF BiIInv, BiTaskInv, BiForm, BiKnownInv, BiHeld, BiPast, Bi!BillingAssumption
<1>3. BiReadInv'
  <2>1. SUFFICES ASSUME NEW v \in biWorkers, biTask'[v].at \in BiPast
                 PROVE  /\ BiAgree(v)' \/ BiPend(biTask[v].sub)'
                        /\ biTask[v].state.quantity = biSubscription'[biTask[v].sub].quantity
    BY <2>1 DEF BiReadInv
  <2>2. biTask'[v] = biTask[v]
    BY <2>1
  <2>3. (BiAgree(v) \/ BiPend(biTask[v].sub)) /\ biTask[v].state.quantity = biSubscription[biTask[v].sub].quantity
    BY <2>1, <2>2 DEF BiIInv, BiReadInv
  <2>. QED BY <1>1, <1>2, <2>1, <2>2, <2>3 DEF BiAgree
<1>4. BiStampInv'
  <2>1. SUFFICES ASSUME biLast # None, ~BiRight(biLast)'
                 PROVE  BiPend(biLast)' \/ \E w \in biWorkers : BiStamps(w, biLast)' /\ BiAgree(w)'
    BY <2>1 DEF BiStampInv, BiStamps
  <2>2. biLast \in biSubscriptions
    BY <2>1 DEF BiIInv, BiTypeInv
  <2>3. CASE biLast \in biDue'
    BY <1>1, <2>3
  <2>4. CASE biLast \notin biDue'
    <3>1. biSubscription'[biLast] = biSubscription[biLast]
      BY <2>2, <2>4
    <3>2. ~BiRight(biLast)
      BY <2>1, <3>1 DEF BiRight
    <3>3. CASE BiPend(biLast)
      BY <2>2, <3>3
    <3>4. ASSUME NEW w \in biWorkers, BiStamps(w, biLast), BiAgree(w) PROVE BiStamps(w, biLast)' /\ BiAgree(w)'
      <4>1. biTask[w].at \in BiPast /\ biTask[w].job = "webhook" /\ biTask[w].sub = biLast
        BY <3>4 DEF BiStamps, BiPast
      <4>2. biTask'[w] = biTask[w]
        BY <2>4, <4>1
      <4>. QED BY <3>1, <3>4, <4>1, <4>2 DEF BiStamps, BiAgree
    <3>. QED BY <2>1, <3>2, <3>3, <3>4 DEF BiIInv, BiStampInv
  <2>. QED BY <2>3, <2>4
<1>5. BiCustomerInv'
  <2>1. SUFFICES ASSUME ~biCustomer
                 PROVE  /\ \A s \in biSubscriptions : BiUsed(s)' => BiPend(s)' \/ \E w \in biWorkers : BiStamps(w, s)'
                        /\ \A w \in biWorkers : biTask'[w].job # "seats" /\ biTask'[w].at \notin {"seats", "report"}
    BY <2>1 DEF BiCustomerInv
  <2>2. ASSUME NEW w \in biWorkers PROVE biTask'[w].at \notin {"seats", "report"}
    BY <2>1 DEF BiIInv, BiCustomerInv, BiPast
  <2>3. ASSUME NEW s \in biSubscriptions, BiUsed(s)', s \notin biDue'
        PROVE  BiPend(s)' \/ \E w \in biWorkers : BiStamps(w, s)'
    <3>1. BiUsed(s)
      BY <2>3 DEF BiUsed
    <3>2. ASSUME NEW w \in biWorkers, BiStamps(w, s) PROVE BiStamps(w, s)'
      BY <2>3, <3>2 DEF BiStamps, BiPast
    <3>. QED BY <2>1, <3>1, <3>2 DEF BiIInv, BiCustomerInv
  <2>. QED BY <1>1, <2>1, <2>2, <2>3
<1>6. ASSUME ~biAstray', biSeats' # biSeats, NEW s \in biSubscriptions, BiUsed(s)', s \notin biDue',
             biSubscription'[s].status \in Bi!Stampable
      PROVE  BiAgain(s)' \/ \E w \in biWorkers : BiCounts(w, s)'
  <2>1. CASE biCustomer
    BY <1>6, <2>1
  <2>2. CASE ~biCustomer
    <3>1. biSubscription'[s] = biSubscription[s] /\ BiUsed(s)
      BY <1>6 DEF BiUsed
    <3>2. CASE BiPend(s)
      BY <3>2 DEF BiAgain
    <3>3. CASE \E w \in biWorkers : BiStamps(w, s)
      <4>1. PICK w \in biWorkers : BiStamps(w, s)
        BY <3>3
      <4>2. /\ biTask'[w] = biTask[w] /\ biTask[w].at = "stamp" /\ biTask[w].job = "webhook"
            /\ biTask[w].sub = s
        BY <1>6, <4>1 DEF BiStamps, BiPast
      <4>3. BiAgree(w) \/ BiPend(s)
        BY <4>2 DEF BiIInv, BiReadInv, BiPast
      <4>4. CASE BiAgree(w)
        BY <1>6, <3>1, <4>2, <4>4 DEF BiAgree, BiCounts
      <4>5. CASE BiPend(s)
        BY <4>5 DEF BiAgain
      <4>. QED BY <4>3, <4>4, <4>5
    <3>. QED BY <2>2, <3>1, <3>2, <3>3 DEF BiIInv, BiCustomerInv
  <2>. QED BY <2>1, <2>2
<1>7. BiBillInv'
  <2>1. SUFFICES ASSUME ~biAstray', NEW s \in biSubscriptions,
                        biSubscription'[s].status \in Bi!Stampable, biSubscription'[s].quantity # biSeats'
                 PROVE  BiAgain(s)' \/ \E w \in biWorkers : BiCounts(w, s)'
    BY <2>1 DEF BiBillInv
  <2>2. CASE s \in biDue'
    BY <1>1, <2>2 DEF BiAgain
  <2>3. CASE s \notin biDue' /\ biSeats' # biSeats
    BY <1>6, <2>1, <2>3 DEF BiUsed, Bi!Stampable
  <2>4. CASE s \notin biDue' /\ biSeats' = biSeats
    <3>1. biSubscription'[s] = biSubscription[s]
      BY <2>4
    <3>2. BiAgain(s) \/ \E w \in biWorkers : BiCounts(w, s)
      BY <2>1, <2>4, <3>1 DEF BiIInv, BiBillInv
    <3>3. CASE BiAgain(s)
      BY <2>1, <3>3 DEF Bi!Live
    <3>4. ASSUME NEW w \in biWorkers, BiCounts(w, s) PROVE BiCounts(w, s)'
      <4>1. biTask[w].at \in BiPast /\ biTask[w].job \in {"webhook", "seats"} /\ biTask[w].sub = s
        BY <3>4 DEF BiCounts, BiPast
      <4>2. biTask'[w] = biTask[w]
        BY <2>1, <2>4, <4>1
      <4>. QED BY <2>4, <3>4, <4>2 DEF BiCounts
    <3>. QED BY <3>2, <3>3, <3>4
  <2>. QED BY <2>2, <2>3, <2>4
<1>. QED BY <1>3, <1>4, <1>5, <1>7

-----------------------------------------------------------------------------
(* The steps outside the lock *)

\* A job that goes on, with the lock, without it, or by taking or leaving it.
LEMMA BiMoves ==
  ASSUME Bi!BillingAssumption, BiTypeInv, BiTaskInv, BiKnownInv,
         NEW w \in biWorkers, NEW x \in BiTaskType, BiForm(x), biTask' = [biTask EXCEPT ![w] = x],
         \A s \in biSubscriptions : BiUsed(s) => BiUsed(s)',
         \A s \in biDue' : BiUsed(s)',
         biList' = None \/ BiKnown(biList)' \/ biList' = biList,
         x.sub # None => BiUsed(x.sub)', x.at = "asked" => BiKnown(x.state.asked)',
         \/ biHolder' = biHolder /\ (x.at \in BiHeld <=> biTask[w].at \in BiHeld)
         \/ biHolder = None /\ biHolder' = w /\ x.at \in BiHeld
         \/ biTask[w].at \in BiHeld /\ biHolder' = None /\ x.at \notin BiHeld
  PROVE  /\ biTask' \in [biWorkers -> BiTaskType] /\ biTask'[w] = x
         /\ \A v \in biWorkers : v # w => biTask'[v] = biTask[v]
         /\ BiTaskInv' /\ BiKnownInv'
<1>1. /\ biTask' \in [biWorkers -> BiTaskType] /\ biTask'[w] = x
      /\ \A v \in biWorkers : v # w => biTask'[v] = biTask[v]
  BY DEF BiTypeInv
<1>2. BiTaskInv'
  <2>1. \A v \in biWorkers : BiForm(biTask'[v])
    BY <1>1 DEF BiTaskInv
  <2>2. \A v \in biWorkers : biTask[v].at \in BiHeld <=> biHolder = v
    BY DEF BiTaskInv
  <2>3. \A v \in biWorkers : biTask'[v].at \in BiHeld <=> biHolder' = v
    BY <1>1, <2>2 DEF Bi!BillingAssumption
  <2>4. \A v \in biWorkers : BiForm(biTask[v])' <=> BiForm(biTask'[v])
    BY DEF BiForm
  <2>. QED BY <2>1, <2>3, <2>4 DEF BiTaskInv
<1>3. ASSUME NEW l, BiKnown(l) PROVE \A s \in biSubscriptions : l[s] # "none" => BiUsed(s)'
  BY <1>3 DEF BiKnown
<1>4. biList' # None => BiKnown(biList)'
  BY <1>3 DEF BiKnown, BiKnownInv
<1>5. ASSUME NEW v \in biWorkers
      PROVE  /\ biTask'[v].sub # None => biSubscription'[biTask'[v].sub].status # "none"
             /\ biTask'[v].at = "asked" => \A s \in biSubscriptions : biTask'[v].state.asked[s] # "none" => BiUsed(s)'
  <2>1. CASE v = w
    BY <1>1, <2>1 DEF BiKnown, BiUsed
  <2>2. CASE v # w
    <3>1. biTask'[v] = biTask[v] /\ biTask[v].sub \in biSubscriptions \cup {None}
      BY <1>1, <2>2 DEF BiTypeInv, BiTaskType
    <3>2. \A s \in biSubscriptions : biSubscription[s].status # "none" => biSubscription'[s].status # "none"
      BY DEF BiUsed
    <3>4. biTask[v].sub # None => biSubscription'[biTask[v].sub].status # "none"
      BY <3>1, <3>2 DEF BiKnownInv, BiUsed
    <3>3. biTask[v].at = "asked" => BiKnown(biTask[v].state.asked)
      BY DEF BiKnownInv
    <3>. QED BY <1>3, <3>1, <3>3, <3>4
  <2>. QED BY <2>1, <2>2
<1>6. BiKnownInv'
  BY <1>4, <1>5 DEF BiKnownInv, BiKnown, BiUsed
<1>. QED BY <1>1, <1>2, <1>6

\* A step outside the lock that changes nothing at Stripe.
LEMMA BiQuiet ==
  ASSUME Bi!BillingAssumption, BiIInv, NEW w \in biWorkers, NEW x \in BiTaskType, BiForm(x),
         biTask' = [biTask EXCEPT ![w] = x], UNCHANGED <<biSubscription, biPlan, biCustomer,
                                                         biLast>>,
         biDue' \in SUBSET biSubscriptions, biMirrored' \in SUBSET biPrices, biCheckouts' = biCheckouts,
         biSeats' \in 1..biMaxSeats, biList' = biList \/ (biList' \in BiListType /\ BiKnown(biList')), biAstray' \in BOOLEAN,
         \A s \in biDue' : BiUsed(s), x.sub # None => BiUsed(x.sub), x.at = "asked" => BiKnown(x.state.asked),
         \/ biHolder' = biHolder /\ (x.at \in BiHeld <=> biTask[w].at \in BiHeld)
         \/ biHolder = None /\ biHolder' = w /\ x.at \in BiHeld
         \/ biTask[w].at \in BiHeld /\ biHolder' = None /\ x.at \notin BiHeld,
         x.at \notin BiPast,
         biTask[w].at \in BiPast =>
           (biTask[w].job = "webhook" => biTask[w].sub \in biDue') /\ (biTask[w].job = "seats" => biAstray'),
         \A s \in biDue : s \in biDue' \/ BiReads(x, s),
         \A s \in biSubscriptions : BiReads(biTask[w], s) => s \in biDue' \/ BiReads(x, s),
         \A s \in biSubscriptions :
           ~biAstray' /\ biSubscription[s].status \in Bi!Live /\ BiWill(biTask[w], s) => BiWill(x, s),
         biSeats' = biSeats \/ (biCustomer => \A s : BiWill(x, s)), biCustomer \/ x.job # "seats", biAstray => biAstray'
  PROVE  BiIInv'
<1>1. \A s : BiUsed(s)' <=> BiUsed(s)
  BY DEF BiUsed
<1>2. biList' = None \/ BiKnown(biList)' \/ biList' = biList
  <2>1. ASSUME biList' \in BiListType, BiKnown(biList') PROVE BiKnown(biList)'
    BY <1>1, <2>1 DEF BiKnown
  <2>. QED BY <2>1
<1>3. (x.sub # None => BiUsed(x.sub)') /\ (x.at = "asked" => BiKnown(x.state.asked)')
  BY <1>1 DEF BiKnown
<1>4. BiTypeInv /\ BiTaskInv /\ BiKnownInv
  BY DEF BiIInv
<1>5. /\ biTask' \in [biWorkers -> BiTaskType] /\ biTask'[w] = x
      /\ \A v \in biWorkers : v # w => biTask'[v] = biTask[v]
      /\ BiTaskInv' /\ BiKnownInv'
  BY <1>1, <1>2, <1>3, <1>4, BiMoves
<1>6. BiTypeInv'
  <2>1. biHolder' \in biWorkers \cup {None} /\ biList' \in BiListType \cup {None}
    BY DEF BiIInv, BiTypeInv
  <2>. QED BY <1>5, <2>1 DEF BiIInv, BiTypeInv
<1>7. BiLiveInv'
  BY DEF BiIInv, BiLiveInv
<1>8. \A s \in biSubscriptions : BiPend(s) => BiPend(s)'
  <2>1. TAKE s \in biSubscriptions
  <2>2. CASE s \in biDue
    BY <1>5, <2>2 DEF BiPend
  <2>3. ASSUME NEW v \in biWorkers, BiReads(biTask[v], s) PROVE BiPend(s)'
    <3>1. s \in biDue' \/ \E u \in biWorkers : BiReads(biTask'[u], s)
      BY <1>5, <2>3
    <3>. QED BY <3>1 DEF BiPend, BiReads
  <2>. QED BY <2>2, <2>3 DEF BiPend
<1>9. ASSUME NEW s, \E u \in biWorkers : BiWill(biTask'[u], s) PROVE BiAgain(s)'
  BY <1>9 DEF BiAgain, BiWill
<1>10. \A s \in biSubscriptions : ~biAstray' /\ biSubscription'[s].status \in Bi!Live /\ BiAgain(s) => BiAgain(s)'
  <2>1. SUFFICES ASSUME NEW s \in biSubscriptions, ~biAstray', biSubscription'[s].status \in Bi!Live, BiAgain(s)
                 PROVE  BiAgain(s)'
    OBVIOUS
  <2>2. CASE BiPend(s)
    BY <1>8, <2>2 DEF BiAgain
  <2>3. ASSUME NEW v \in biWorkers, BiWill(biTask[v], s) PROVE BiAgain(s)'
    <3>1. BiWill(biTask'[v], s)
      BY <1>5, <2>1, <2>3
    <3>. QED BY <1>9, <3>1
  <2>. QED BY <2>1, <2>2, <2>3 DEF BiAgain
<1>11. biSeats' = biSeats \/ (biCustomer => \A s : BiAgain(s)')
  BY <1>5, <1>9
<1>12. \A v \in biWorkers : biTask'[v].at \in BiPast => biTask'[v] = biTask[v]
  BY <1>5
<1>13. \A v \in biWorkers : biTask[v].at \in BiPast /\ biTask'[v] # biTask[v] =>
         (biTask[v].job = "webhook" => biTask[v].sub \in biDue') /\ (biTask[v].job = "seats" => biAstray')
  BY <1>5
<1>14. biCustomer \/ \A v \in biWorkers : biTask'[v].job # "seats"
  BY <1>5 DEF BiIInv, BiCustomerInv
<1>15. BiReadInv' /\ BiStampInv' /\ BiCustomerInv' /\ BiBillInv'
  BY <1>8, <1>10, <1>11, <1>12, <1>13, <1>14, BiOutside
<1>. QED BY <1>5, <1>6, <1>7, <1>15 DEF BiIInv

LEMMA BiIdleIs ==
  ASSUME Bi!BillingAssumption
  PROVE  /\ Bi!Idle \in BiTaskType /\ BiForm(Bi!Idle) /\ Bi!Idle.at = "none"
         /\ Bi!Idle.job = "none" /\ Bi!Idle.sub = None
         /\ Bi!Idle.at \notin BiHeld \cup BiPast /\ \A s : ~BiReads(Bi!Idle, s) /\ ~BiWill(Bi!Idle, s)
BY DEF Bi!Idle, BiTaskType, BiForm, Bi!Jobs, Bi!Steps, BiHeld, BiPast, Bi!BillingAssumption,
   BiReads, BiWill

LEMMA BiDeliverKeeps ==
  ASSUME Bi!BillingAssumption, BiIInv, NEW w \in biWorkers, Bi!Deliver(w)
  PROVE  BiIInv'
<1>1. PICK s \in biDue :
        /\ biTask[w] = Bi!Idle /\ biDue' = biDue \ {s}
        /\ biTask' = [biTask EXCEPT ![w] =
               [Bi!Idle EXCEPT !.job = "webhook", !.at = "wait", !.sub = s,
                            !.state = biSubscription[s], !.count = biSeats]]
        /\ UNCHANGED <<Bi!world, biSubscription, biCheckouts, biList, biHolder, biAstray,
                       Bi!bounds>>
  BY DEF Bi!Deliver
<1>. DEFINE x == [Bi!Idle EXCEPT !.job = "webhook", !.at = "wait", !.sub = s,
                              !.state = biSubscription[s], !.count = biSeats]
<1>2. biTask' = [biTask EXCEPT ![w] = x]
  BY <1>1
<1>3. /\ biSubscription[s] \in BiStock /\ s \in biSubscriptions /\ biSeats \in 0..biMaxSeats
      /\ BiUsed(s) /\ s # None
  BY DEF BiIInv, BiTypeInv, BiKnownInv, Bi!BillingAssumption
<1>4. x \in BiTaskType /\ BiForm(x) /\ x.job = "webhook" /\ x.at = "wait" /\ x.sub = s
  <2>1. x.job = "webhook" /\ x.at = "wait" /\ x.sub = s
    BY DEF Bi!Idle
  <2>2. x \in BiTaskType
    BY <1>3 DEF BiTaskType, Bi!Jobs, Bi!Steps, Bi!Idle
  <2>. HIDE DEF x
  <2>. QED BY <1>3, <2>1, <2>2 DEF BiForm, BiHeld, BiPast
<1>. HIDE DEF x
<1>5. /\ UNCHANGED <<biSubscription, biPlan, biCustomer, biLast, biMirrored, biCheckouts,
                     biSeats, biList, biHolder, biAstray>>
  BY <1>1 DEF Bi!world
<1>6. /\ biDue' \in SUBSET biSubscriptions /\ biMirrored' \in SUBSET biPrices
      /\ biSeats' \in 1..biMaxSeats /\ biAstray' \in BOOLEAN
      /\ \A t \in biDue' : BiUsed(t)
  BY <1>1, <1>5 DEF BiIInv, BiTypeInv, BiKnownInv
<1>7. /\ \A t \in biDue : t \in biDue' \/ BiReads(x, t)
      /\ \A t \in biSubscriptions : ~BiReads(biTask[w], t) /\ ~BiWill(biTask[w], t)
  BY <1>1, <1>4, BiIdleIs DEF BiReads
<1>8. /\ x.at \notin BiHeld /\ x.at \notin BiPast /\ biTask[w].at \notin BiHeld
      /\ biTask[w].at \notin BiPast
  BY <1>1, <1>4, BiIdleIs DEF BiHeld, BiPast
<1>. QED BY <1>2, <1>3, <1>4, <1>5, <1>6, <1>7, <1>8, BiQuiet

LEMMA BiChangeSeatsKeeps ==
  ASSUME Bi!BillingAssumption, BiIInv, NEW w \in biWorkers, Bi!ChangeSeats(w)
  PROVE  BiIInv'
<1>1. PICK n \in 1..biMaxSeats :
        /\ biTask[w] = Bi!Idle /\ biSeats' = n
        /\ biTask' = [biTask EXCEPT ![w] =
               IF biCustomer THEN [Bi!Idle EXCEPT !.job = "seats", !.at = "list", !.count = n] ELSE Bi!Idle]
        /\ UNCHANGED <<biSubscription, biDue, biCheckouts, biMirrored, biPlan, biCustomer,
                       biList, biHolder, biLast, biAstray>>
  BY DEF Bi!ChangeSeats
<1>. DEFINE x == IF biCustomer THEN [Bi!Idle EXCEPT !.job = "seats", !.at = "list", !.count = n] ELSE Bi!Idle
<1>2. biTask' = [biTask EXCEPT ![w] = x]
  BY <1>1
<1>3. x \in BiTaskType /\ BiForm(x) /\ x.sub = None /\ x.at \in {"none", "list"}
  <2>1. n \in 0..biMaxSeats
    BY DEF Bi!BillingAssumption
  <2>2. CASE ~biCustomer
    BY <2>2, BiIdleIs
  <2>3. CASE biCustomer
    <3>1. x \in BiTaskType /\ x.at = "list" /\ x.job = "seats" /\ x.sub = None /\ x.state = None
      BY <2>1, <2>3 DEF Bi!Idle, BiTaskType, Bi!Jobs, Bi!Steps
    <3>. HIDE DEF x
    <3>. QED BY <3>1 DEF BiForm, BiHeld, BiPast
  <2>. QED BY <2>2, <2>3
<1>4. IF biCustomer THEN \A s : BiWill(x, s) ELSE x.job # "seats"
  <2>1. biCustomer => x.job = "seats" /\ x.at = "list"
    BY DEF Bi!Idle
  <2>. QED BY <2>1, BiIdleIs DEF BiWill
<1>. HIDE DEF x
<1>5. /\ biDue' \in SUBSET biSubscriptions /\ biMirrored' \in SUBSET biPrices
      /\ biSeats' \in 1..biMaxSeats /\ biAstray' \in BOOLEAN
      /\ \A t \in biDue' : BiUsed(t)
  BY <1>1 DEF BiIInv, BiTypeInv, BiKnownInv
<1>6. \A t \in biSubscriptions : ~BiReads(biTask[w], t) /\ ~BiWill(biTask[w], t)
  BY <1>1, BiIdleIs
<1>7. /\ x.at \notin BiHeld /\ x.at \notin BiPast /\ biTask[w].at \notin BiHeld
      /\ biTask[w].at \notin BiPast /\ x.at # "asked"
  BY <1>1, <1>3, BiIdleIs DEF BiHeld, BiPast
<1>. QED BY <1>1, <1>2, <1>3, <1>4, <1>5, <1>6, <1>7, BiQuiet

LEMMA BiBeginKeeps ==
  ASSUME Bi!BillingAssumption, BiIInv, NEW w \in biWorkers, Bi!BeginTrial(w) \/ Bi!BeginCheckout(w)
  PROVE  BiIInv'
<1>1. PICK x \in BiTaskType :
        /\ biTask' = [biTask EXCEPT ![w] = x] /\ BiForm(x) /\ x.sub = None /\ x.at = "list"
        /\ x.job # "seats"
  <2>1. CASE Bi!BeginTrial(w)
    <3>. DEFINE x == [Bi!Idle EXCEPT !.job = "trial", !.at = "list"]
    <3>1. biTask' = [biTask EXCEPT ![w] = x]
      BY <2>1 DEF Bi!BeginTrial
    <3>4. 0 \in 0..biMaxSeats
      BY DEF Bi!BillingAssumption
    <3>2. x \in BiTaskType /\ x.sub = None /\ x.at = "list" /\ x.job = "trial" /\ x.state = None
      <4>1. x.sub = None /\ x.at = "list" /\ x.job = "trial" /\ x.state = None
        BY DEF Bi!Idle
      <4>2. x \in BiTaskType
        BY <3>4 DEF Bi!Idle, BiTaskType, Bi!Jobs, Bi!Steps
      <4>. QED BY <4>1, <4>2
    <3>. HIDE DEF x
    <3>3. BiForm(x)
      BY <3>2 DEF BiForm, BiHeld, BiPast
    <3>. QED BY <3>1, <3>2, <3>3
  <2>2. CASE Bi!BeginCheckout(w)
    <3>1. PICK p \in biMirrored : biTask' = [biTask EXCEPT ![w] = [Bi!Idle EXCEPT !.job = "checkout", !.at = "list", !.state = p]]
      BY <2>2 DEF Bi!BeginCheckout
    <3>. DEFINE x == [Bi!Idle EXCEPT !.job = "checkout", !.at = "list", !.state = p]
    <3>2. biTask' = [biTask EXCEPT ![w] = x]
      BY <3>1
    <3>3. p \in biPrices
      BY DEF BiIInv, BiTypeInv
    <3>6. 0 \in 0..biMaxSeats
      BY DEF Bi!BillingAssumption
    <3>4. x \in BiTaskType /\ x.sub = None /\ x.at = "list" /\ x.job = "checkout" /\ x.state = p
      <4>1. x.sub = None /\ x.at = "list" /\ x.job = "checkout" /\ x.state = p
        BY DEF Bi!Idle
      <4>2. x \in BiTaskType
        BY <3>3, <3>6 DEF Bi!Idle, BiTaskType, Bi!Jobs, Bi!Steps
      <4>. QED BY <4>1, <4>2
    <3>. HIDE DEF x
    <3>5. BiForm(x)
      BY <3>3, <3>4 DEF BiForm, BiHeld, BiPast
    <3>. QED BY <3>2, <3>4, <3>5
  <2>. QED BY <2>1, <2>2
<1>2. biTask[w] = Bi!Idle /\ UNCHANGED <<biSubscription, biDue, biCheckouts, biMirrored, biPlan,
                                         biCustomer, biSeats, biList, biHolder, biLast, biAstray>>
  BY DEF Bi!BeginTrial, Bi!BeginCheckout, Bi!world
<1>3. /\ biDue' \in SUBSET biSubscriptions /\ biMirrored' \in SUBSET biPrices
      /\ biSeats' \in 1..biMaxSeats /\ biAstray' \in BOOLEAN
      /\ \A t \in biDue' : BiUsed(t)
  BY <1>2 DEF BiIInv, BiTypeInv, BiKnownInv
<1>4. \A t \in biSubscriptions : ~BiReads(biTask[w], t) /\ ~BiWill(biTask[w], t)
  BY <1>2, BiIdleIs
<1>5. /\ x.at \notin BiHeld /\ x.at \notin BiPast /\ biTask[w].at \notin BiHeld
      /\ biTask[w].at \notin BiPast /\ x.at # "asked"
  BY <1>1, <1>2, BiIdleIs DEF BiHeld, BiPast
<1>. QED BY <1>1, <1>2, <1>3, <1>4, <1>5, BiQuiet

\* What a job makes of a list.
BiChoice(w, l, state, y) ==
  LET x == [y EXCEPT !.state = IF y = Bi!Idle THEN None ELSE state] IN
  /\ x \in BiTaskType /\ BiForm(x) /\ x.at \in {"none", "wait", "act"} /\ (x.sub # None => BiUsed(x.sub))
  /\ x.job = "seats" => x.at = "wait" /\ biTask[w].job = "seats"
  /\ biTask[w].job = "seats" /\ Bi!Current(l) # None => x.job = "seats" /\ x.at = "wait" /\ x.sub = Bi!Current(l)
  /\ x.job # "webhook"
  /\ biTask[w].state = state => x = y

LEMMA BiChosenIs ==
  ASSUME Bi!BillingAssumption, BiTypeInv, BiTaskInv, BiKnownInv, NEW w \in biWorkers,
         biTask[w].at \in {"list", "asked"},
         NEW l \in BiListType, BiKnown(l), NEW state \in biPrices \cup {None},
         biTask[w].job = "checkout" => state \in biPrices
  PROVE  \E y \in BiTaskType : Bi!Chosen(w, l) = [biTask EXCEPT ![w] = y] /\ BiChoice(w, l, state, y)
<1>1. Bi!Current(l) \in biSubscriptions \cup {None} /\ (Bi!Current(l) # None => BiUsed(Bi!Current(l)))
  <2>. DEFINE live == {s \in biSubscriptions : l[s] \in Bi!Live}
  <2>1. CASE live = {}
    BY <2>1 DEF Bi!Current
  <2>2. CASE live # {}
    <3>1. Bi!Current(l) \in live
      BY <2>2 DEF Bi!Current
    <3>2. Bi!Current(l) \in biSubscriptions /\ l[Bi!Current(l)] # "none"
      BY <3>1 DEF Bi!Live, Bi!Stampable
    <3>. QED BY <3>2 DEF BiKnown
  <2>. QED BY <2>1, <2>2
<1>2. /\ biTask[w] \in BiTaskType /\ biTask[w].job \in {"seats", "trial", "checkout"}
      /\ biSeats \in 0..biMaxSeats
  BY DEF BiTypeInv, BiTaskInv, BiForm, Bi!BillingAssumption
<1>3. CASE Bi!Chosen(w, l) = [biTask EXCEPT ![w] = Bi!Idle] /\ (biTask[w].job = "seats" => Bi!Current(l) = None)
  <2>1. [Bi!Idle EXCEPT !.state = None] = Bi!Idle
    BY DEF Bi!Idle
  <2>2. BiChoice(w, l, state, Bi!Idle)
    BY <1>3, <2>1, BiIdleIs DEF BiChoice
  <2>. QED BY <1>3, <2>2, BiIdleIs
<1>4. CASE /\ biTask[w].job = "seats" /\ Bi!Current(l) # None
           /\ Bi!Chosen(w, l) = [biTask EXCEPT ![w].at = "wait", ![w].sub = Bi!Current(l)]
  <2>. DEFINE y == [biTask[w] EXCEPT !.at = "wait", !.sub = Bi!Current(l)]
              x == [y EXCEPT !.state = state]
  <2>1. /\ y \in BiTaskType /\ y.job = "seats" /\ y.at = "wait" /\ y.sub = Bi!Current(l)
        /\ y.state = biTask[w].state
    BY <1>1, <1>2, <1>4 DEF BiTaskType, Bi!Steps
  <2>2. Bi!Chosen(w, l) = [biTask EXCEPT ![w] = y]
    BY <1>4 DEF BiTypeInv
  <2>. HIDE DEF y
  <2>3. y # Bi!Idle
    BY <2>1 DEF Bi!Idle
  <2>4. x \in BiTaskType /\ x.job = "seats" /\ x.at = "wait" /\ x.sub = Bi!Current(l)
    BY <2>1 DEF BiTaskType
  <2>5. BiForm(x)
    BY <1>1, <1>4, <2>4 DEF BiForm, BiHeld, BiPast
  <2>6. y.state = state => x = y
    BY <2>1 DEF BiTaskType
  <2>7. BiChoice(w, l, state, y)
    BY <1>1, <1>4, <2>3, <2>4, <2>5, <2>6, <2>1 DEF BiChoice
  <2>. QED BY <2>1, <2>2, <2>7
<1>5. CASE /\ biTask[w].job \in {"trial", "checkout"}
           /\ Bi!Chosen(w, l) = [biTask EXCEPT ![w].at = "act", ![w].sub = Bi!Current(l), ![w].count = biSeats]
  <2>. DEFINE y == [biTask[w] EXCEPT !.at = "act", !.sub = Bi!Current(l), !.count = biSeats]
              x == [y EXCEPT !.state = state]
  <2>1. /\ y \in BiTaskType /\ y.job = biTask[w].job /\ y.at = "act" /\ y.sub = Bi!Current(l)
        /\ y.state = biTask[w].state
    BY <1>1, <1>2, <1>5 DEF BiTaskType, Bi!Steps
  <2>2. Bi!Chosen(w, l) = [biTask EXCEPT ![w] = y]
    BY <1>5 DEF BiTypeInv
  <2>. HIDE DEF y
  <2>3. y # Bi!Idle
    BY <1>5, <2>1 DEF Bi!Idle
  <2>4. /\ x \in BiTaskType /\ x.job = biTask[w].job /\ x.at = "act" /\ x.sub = Bi!Current(l)
        /\ x.state = state
    BY <2>1 DEF BiTaskType
  <2>5. BiForm(x)
    BY <1>5, <2>4 DEF BiForm, BiHeld, BiPast
  <2>6. y.state = state => x = y
    BY <2>1 DEF BiTaskType
  <2>7. BiChoice(w, l, state, y)
    BY <1>1, <1>5, <2>3, <2>4, <2>5, <2>6, <2>1 DEF BiChoice
  <2>. QED BY <2>1, <2>2, <2>7
<1>. QED BY <1>2, <1>3, <1>4, <1>5 DEF Bi!Chosen


\* While no two are live, the live subscription is the one a list shows.
LEMMA BiCurrentIs ==
  ASSUME BiTypeInv, BiLiveInv, ~biAstray, NEW s \in biSubscriptions,
         biSubscription[s].status \in Bi!Live
  PROVE  Bi!Current(Bi!Statuses) = s
<1>1. \A t \in biSubscriptions : Bi!Statuses[t] = biSubscription[t].status
  BY DEF Bi!Statuses
<1>2. {t \in biSubscriptions : Bi!Statuses[t] \in Bi!Live} = {s}
  BY <1>1 DEF BiLiveInv
<1>. QED BY <1>2 DEF Bi!Current

LEMMA BiListKeeps ==
  ASSUME Bi!BillingAssumption, BiIInv, NEW w \in biWorkers, biTask[w].at \in {"list", "asked"},
         NEW l \in BiListType, BiKnown(l), NEW state, NEW y \in BiTaskType, BiChoice(w, l, state, y),
         biTask' = [biTask EXCEPT ![w] = [y EXCEPT !.state = IF y = Bi!Idle THEN None ELSE state]],
         biList' = biList \/ biList' = l, biAstray' = (biAstray \/ Bi!Missed(w, l)),
         UNCHANGED <<biSubscription, biDue, biCheckouts, biMirrored, biPlan, biCustomer, biSeats,
                     biHolder, biLast>>
  PROVE  BiIInv'
<1>. DEFINE x == [y EXCEPT !.state = IF y = Bi!Idle THEN None ELSE state]
<1>1. biTask' = [biTask EXCEPT ![w] = x]
  OBVIOUS
<1>2. /\ x \in BiTaskType /\ BiForm(x) /\ x.at \in {"none", "wait", "act"} /\ (x.sub # None => BiUsed(x.sub))
      /\ x.job = "seats" => x.at = "wait" /\ biTask[w].job = "seats"
      /\ biTask[w].job = "seats" /\ Bi!Current(l) # None => x.job = "seats" /\ x.at = "wait" /\ x.sub = Bi!Current(l)
      /\ x.job # "webhook"
  BY DEF BiChoice
<1>. HIDE DEF x
<1>3. /\ biDue' \in SUBSET biSubscriptions /\ biMirrored' \in SUBSET biPrices
      /\ biSeats' \in 1..biMaxSeats /\ biAstray' \in BOOLEAN
      /\ \A t \in biDue' : BiUsed(t)
  BY DEF BiIInv, BiTypeInv, BiKnownInv
<1>4. /\ x.at \notin BiHeld /\ x.at \notin BiPast /\ biTask[w].at \notin BiHeld
      /\ biTask[w].at \notin BiPast /\ x.at # "asked"
  BY <1>2 DEF BiHeld, BiPast
<1>5. ASSUME NEW s \in biSubscriptions, ~biAstray', biSubscription[s].status \in Bi!Live, BiWill(biTask[w], s) PROVE BiWill(x, s)
  <2>1. Bi!Current(Bi!Statuses) = s
    BY <1>5, BiCurrentIs DEF BiIInv
  <2>2. Bi!Current(l) = s /\ s # None /\ biTask[w].job = "seats"
    BY <1>5, <2>1 DEF Bi!Missed, BiWill, Bi!BillingAssumption
  <2>. QED BY <1>2, <2>2 DEF BiWill
<1>6. biCustomer \/ x.job # "seats"
  BY <1>2 DEF BiIInv, BiCustomerInv
<1>7. \A s \in biSubscriptions : ~BiReads(biTask[w], s)
  BY DEF BiReads
<1>8. biList' = biList \/ (biList' \in BiListType /\ BiKnown(biList'))
  OBVIOUS
<1>. QED BY <1>1, <1>2, <1>3, <1>4, <1>5, <1>6, <1>7, <1>8, BiQuiet

LEMMA BiUseListKeeps ==
  ASSUME Bi!BillingAssumption, BiIInv, NEW w \in biWorkers, Bi!UseList(w)
  PROVE  BiIInv'
<1>1. /\ biTask[w].at = "list" /\ biList # None /\ biTask' = Bi!Chosen(w, biList) /\ biAstray' = (biAstray \/ Bi!Missed(w, biList))
      /\ UNCHANGED <<biSubscription, biDue, biCheckouts, biMirrored, biPlan, biCustomer, biSeats,
                     biHolder, biLast, biList>>
  BY DEF Bi!UseList, Bi!world
<1>. DEFINE state == biTask[w].state
<1>2. biList \in BiListType /\ BiKnown(biList)
  BY <1>1 DEF BiIInv, BiTypeInv, BiKnownInv
<1>3. state \in biPrices \cup {None} /\ (biTask[w].job = "checkout" => state \in biPrices)
  BY <1>1 DEF BiIInv, BiTaskInv, BiForm
<1>4. PICK y \in BiTaskType : Bi!Chosen(w, biList) = [biTask EXCEPT ![w] = y] /\ BiChoice(w, biList, state, y)
  <2>. HIDE DEF state
  <2>. QED BY <1>1, <1>2, <1>3, BiChosenIs DEF BiIInv
<1>5. [y EXCEPT !.state = IF y = Bi!Idle THEN None ELSE state] = y
  BY <1>4 DEF BiChoice
<1>. HIDE DEF state
<1>. QED BY <1>1, <1>2, <1>4, <1>5, BiListKeeps

LEMMA BiListArrivesKeeps ==
  ASSUME Bi!BillingAssumption, BiIInv, NEW w \in biWorkers, Bi!ListArrives(w)
  PROVE  BiIInv'
<1>. DEFINE l == biTask[w].state.asked
            state == biTask[w].state.for
<1>1. /\ biTask[w].at = "asked" /\ biList' = l /\ biAstray' = (biAstray \/ Bi!Missed(w, l))
      /\ biTask' = [Bi!Chosen(w, l) EXCEPT ![w].state = IF Bi!Chosen(w, l)[w] = Bi!Idle THEN None ELSE state]
      /\ UNCHANGED <<biSubscription, biDue, biCheckouts, biMirrored, biPlan, biCustomer, biSeats,
                     biHolder, biLast>>
  BY DEF Bi!ListArrives, Bi!world
<1>2. l \in BiListType /\ BiKnown(l) /\ state \in biPrices \cup {None} /\ (biTask[w].job = "checkout" => state \in biPrices)
  BY <1>1 DEF BiIInv, BiTaskInv, BiForm, BiKnownInv, BiAsked
<1>. HIDE DEF l, state
<1>4. PICK y \in BiTaskType : Bi!Chosen(w, l) = [biTask EXCEPT ![w] = y] /\ BiChoice(w, l, state, y)
  BY <1>1, <1>2, BiChosenIs DEF BiIInv
<1>5. biTask' = [biTask EXCEPT ![w] = [y EXCEPT !.state = IF y = Bi!Idle THEN None ELSE state]]
  BY <1>1, <1>4 DEF BiIInv, BiTypeInv
<1>. QED BY <1>1, <1>2, <1>4, <1>5, BiListKeeps

LEMMA BiAskListKeeps ==
  ASSUME Bi!BillingAssumption, BiIInv, NEW w \in biWorkers, Bi!AskList(w)
  PROVE  BiIInv'
<1>. DEFINE x == [biTask[w] EXCEPT !.at = "asked", !.state = [asked |-> Bi!Statuses, for |-> biTask[w].state]]
<1>1. /\ biTask[w].at = "list" /\ biTask' = [biTask EXCEPT ![w] = x]
      /\ UNCHANGED <<biSubscription, biDue, biCheckouts, biMirrored, biPlan, biCustomer, biSeats,
                     biHolder, biLast, biList, biAstray>>
  BY DEF Bi!AskList, Bi!world, BiIInv, BiTypeInv
<1>2. /\ biTask[w] \in BiTaskType /\ BiForm(biTask[w]) /\ (biTask[w].sub # None => BiUsed(biTask[w].sub))
      /\ biTask[w].state \in biPrices \cup {None}
  BY <1>1 DEF BiIInv, BiTypeInv, BiTaskInv, BiKnownInv, BiForm
<1>3. Bi!Statuses \in BiListType /\ BiKnown(Bi!Statuses)
  BY DEF BiIInv, BiTypeInv, BiListType, BiStock, Bi!Statuses, BiKnown, BiUsed
<1>4. /\ x.job = biTask[w].job /\ x.at = "asked" /\ x.sub = biTask[w].sub
      /\ x.state.asked = Bi!Statuses
      /\ x.state.for = biTask[w].state
  BY <1>2 DEF BiTaskType
<1>5. x \in BiTaskType /\ x.state \in BiAsked
  <2>1. [asked |-> Bi!Statuses, for |-> biTask[w].state] \in BiAsked
    BY <1>2, <1>3 DEF BiAsked
  <2>. QED BY <1>2, <2>1 DEF BiTaskType, Bi!Steps
<1>. HIDE DEF x
<1>6. BiForm(x)
  BY <1>1, <1>2, <1>4, <1>5 DEF BiForm, BiHeld, BiPast
<1>7. /\ biDue' \in SUBSET biSubscriptions /\ biMirrored' \in SUBSET biPrices
      /\ biSeats' \in 1..biMaxSeats /\ biAstray' \in BOOLEAN
      /\ \A t \in biDue' : BiUsed(t)
  BY <1>1 DEF BiIInv, BiTypeInv, BiKnownInv
<1>8. /\ x.at \notin BiHeld /\ x.at \notin BiPast /\ biTask[w].at \notin BiHeld
      /\ biTask[w].at \notin BiPast
  BY <1>1, <1>4 DEF BiHeld, BiPast
<1>9. \A s \in biSubscriptions : ~BiReads(biTask[w], s) /\ (BiWill(biTask[w], s) => BiWill(x, s))
  BY <1>1, <1>4 DEF BiReads, BiWill
<1>10. biCustomer \/ x.job # "seats"
  BY <1>4 DEF BiIInv, BiCustomerInv
<1>. QED BY <1>1, <1>2, <1>3, <1>4, <1>5, <1>6, <1>7, <1>8, <1>9, <1>10, BiQuiet

LEMMA BiTakeLockKeeps ==
  ASSUME Bi!BillingAssumption, BiIInv, NEW w \in biWorkers, Bi!TakeLock(w)
  PROVE  BiIInv'
<1>. DEFINE x == [biTask[w] EXCEPT !.at = "locked"]
<1>1. /\ biTask[w].at = "wait" /\ biHolder = None /\ biHolder' = w
      /\ biTask' = [biTask EXCEPT ![w] = x]
      /\ UNCHANGED <<biSubscription, biDue, biCheckouts, biMirrored, biPlan, biCustomer, biSeats,
                     biLast, biList, biAstray>>
  BY DEF Bi!TakeLock, Bi!To, Bi!world, BiIInv, BiTypeInv
<1>2. biTask[w] \in BiTaskType /\ BiForm(biTask[w]) /\ (biTask[w].sub # None => BiUsed(biTask[w].sub))
  BY DEF BiIInv, BiTypeInv, BiTaskInv, BiKnownInv
<1>3. x.job = biTask[w].job /\ x.at = "locked" /\ x.sub = biTask[w].sub /\ x \in BiTaskType
  BY <1>2 DEF BiTaskType, Bi!Steps
<1>. HIDE DEF x
<1>4. BiForm(x)
  BY <1>1, <1>2, <1>3 DEF BiForm, BiHeld, BiPast
<1>5. /\ biDue' \in SUBSET biSubscriptions /\ biMirrored' \in SUBSET biPrices
      /\ biSeats' \in 1..biMaxSeats /\ biAstray' \in BOOLEAN
      /\ \A t \in biDue' : BiUsed(t)
  BY <1>1 DEF BiIInv, BiTypeInv, BiKnownInv
<1>6. /\ x.at \in BiHeld /\ x.at \notin BiPast /\ biTask[w].at \notin BiHeld
      /\ biTask[w].at \notin BiPast /\ x.at # "asked"
  BY <1>1, <1>3 DEF BiHeld, BiPast
<1>7. \A s \in biSubscriptions : (BiReads(biTask[w], s) => BiReads(x, s)) /\ (BiWill(biTask[w], s) => BiWill(x, s))
  BY <1>1, <1>3 DEF BiReads, BiWill
<1>8. biCustomer \/ x.job # "seats"
  BY <1>3 DEF BiIInv, BiCustomerInv
<1>. QED BY <1>1, <1>2, <1>3, <1>4, <1>5, <1>6, <1>7, <1>8, BiQuiet

LEMMA BiFailKeeps ==
  ASSUME Bi!BillingAssumption, BiIInv, NEW w \in biWorkers, Bi!Fail(w)
  PROVE  BiIInv'
<1>1. /\ biTask' = [biTask EXCEPT ![w] = Bi!Idle] /\ biTask[w] # Bi!Idle
      /\ biDue' = IF biTask[w].job = "webhook" THEN biDue \cup {biTask[w].sub} ELSE biDue
      /\ biHolder' = IF biHolder = w THEN None ELSE biHolder
      /\ biAstray' = (biAstray \/ biTask[w].job = "seats")
      /\ UNCHANGED <<biSubscription, biCheckouts, biMirrored, biPlan, biCustomer, biSeats,
                     biLast, biList>>
  BY DEF Bi!Fail, Bi!Ends, Bi!world
<1>2. biTask[w].at \in BiHeld <=> biHolder = w
  BY DEF BiIInv, BiTaskInv
<1>3. biTask[w].job = "webhook" => biTask[w].sub \in biSubscriptions /\ BiUsed(biTask[w].sub)
  BY DEF BiIInv, BiTaskInv, BiForm, BiKnownInv, Bi!BillingAssumption
<1>4. /\ biDue' \in SUBSET biSubscriptions /\ biMirrored' \in SUBSET biPrices
      /\ biSeats' \in 1..biMaxSeats /\ biAstray' \in BOOLEAN
      /\ \A t \in biDue' : BiUsed(t)
  BY <1>1, <1>3 DEF BiIInv, BiTypeInv, BiKnownInv
<1>5. \/ biHolder' = biHolder /\ (Bi!Idle.at \in BiHeld <=> biTask[w].at \in BiHeld)
      \/ biTask[w].at \in BiHeld /\ biHolder' = None /\ Bi!Idle.at \notin BiHeld
  BY <1>1, <1>2, BiIdleIs
<1>6. \A s \in biSubscriptions : BiReads(biTask[w], s) => s \in biDue'
  BY <1>1 DEF BiReads
<1>7. \A s \in biSubscriptions : ~biAstray' => ~BiWill(biTask[w], s)
  BY <1>1 DEF BiWill
<1>. QED BY <1>1, <1>4, <1>5, <1>6, <1>7, BiIdleIs, BiQuiet

-----------------------------------------------------------------------------
(* The steps at Stripe *)

\* A step at Stripe is announced, and moves only jobs with nothing left to read.
LEMMA BiAnnounced ==
  ASSUME Bi!BillingAssumption, BiIInv, BiTypeInv', BiTaskInv', BiKnownInv', BiLiveInv',
         UNCHANGED <<biPlan, biCustomer, biLast, biSeats>>, biAstray => biAstray', biDue \subseteq biDue',
         \A s \in biSubscriptions :
           \/ biSubscription'[s] = biSubscription[s]
           \/ s \in biDue' /\ (BiUsed(s) => biSubscription'[s].quantity = biSubscription[s].quantity),
         \A v \in biWorkers :
           \/ biTask'[v] = biTask[v]
           \/ biTask[v].at = "act" /\ biTask'[v].at \notin BiPast /\ biTask'[v].job # "seats"
  PROVE  BiIInv'
<1>1. \A v \in biWorkers, s \in biSubscriptions :
        (BiReads(biTask[v], s) => BiReads(biTask'[v], s)) /\ (BiWill(biTask[v], s) => BiWill(biTask'[v], s))
  BY DEF BiReads, BiWill
<1>2. \A s \in biSubscriptions : BiPend(s) => BiPend(s)'
  BY <1>1 DEF BiPend, BiReads
<1>3. \A s \in biSubscriptions : BiAgain(s) => BiAgain(s)'
  BY <1>1, <1>2 DEF BiAgain, BiWill
<1>4. \A v \in biWorkers : biTask'[v].at \in BiPast => biTask'[v] = biTask[v]
  OBVIOUS
<1>5. \A v \in biWorkers : biTask[v].at \in BiPast => biTask'[v] = biTask[v]
  BY DEF BiPast
<1>6. biCustomer \/ \A v \in biWorkers : biTask'[v].job # "seats"
  BY DEF BiIInv, BiCustomerInv
<1>7. BiReadInv' /\ BiStampInv' /\ BiCustomerInv' /\ BiBillInv'
  BY <1>2, <1>3, <1>4, <1>5, <1>6, BiOutside
<1>. QED BY <1>7 DEF BiIInv

\* A step at Stripe that no job takes.
LEMMA BiAbroad ==
  ASSUME Bi!BillingAssumption, BiIInv, biSubscription' \in [biSubscriptions -> BiStock],
         biDue' \in SUBSET biSubscriptions, biCheckouts' \in SUBSET biCheckouts, biAstray' \in BOOLEAN,
         BiLiveInv', UNCHANGED <<biPlan, biCustomer, biLast, biSeats, biMirrored, biHolder,
                                 biTask>>,
         biList' = biList \/ biList' = None, biAstray => biAstray', biDue \subseteq biDue',
         \A s \in biDue' : BiUsed(s)', \A s \in biSubscriptions : BiUsed(s) => BiUsed(s)',
         \A s \in biSubscriptions :
           \/ biSubscription'[s] = biSubscription[s]
           \/ s \in biDue' /\ (BiUsed(s) => biSubscription'[s].quantity = biSubscription[s].quantity)
  PROVE  BiIInv'
<1>1. BiTypeInv'
  BY DEF BiIInv, BiTypeInv
<1>2. BiTaskInv'
  BY DEF BiIInv, BiTaskInv, BiForm
<1>3. ASSUME NEW l, BiKnown(l) PROVE \A s \in biSubscriptions : l[s] # "none" => BiUsed(s)'
  BY <1>3 DEF BiKnown
<1>4. ASSUME NEW v \in biWorkers
      PROVE  /\ biTask[v].sub # None => biSubscription'[biTask[v].sub].status # "none"
             /\ biTask[v].at = "asked" => \A s \in biSubscriptions : biTask[v].state.asked[s] # "none" => BiUsed(s)'
  <2>1. \A s \in biSubscriptions : biSubscription[s].status # "none" => biSubscription'[s].status # "none"
    BY DEF BiUsed
  <2>2. biTask[v].sub \in biSubscriptions \cup {None} /\ (biTask[v].sub # None => biSubscription[biTask[v].sub].status # "none")
    BY DEF BiIInv, BiTypeInv, BiTaskType, BiKnownInv, BiUsed
  <2>3. biTask[v].at = "asked" => BiKnown(biTask[v].state.asked)
    BY DEF BiIInv, BiKnownInv
  <2>. QED BY <1>3, <2>1, <2>2, <2>3
<1>5. biList' # None => \A s \in biSubscriptions : biList'[s] # "none" => BiUsed(s)'
  BY <1>3 DEF BiIInv, BiKnownInv
<1>6. BiKnownInv'
  BY <1>4, <1>5 DEF BiKnownInv, BiKnown, BiUsed
<1>. QED BY <1>1, <1>2, <1>6, BiAnnounced

LEMMA BiRepeatKeeps ==
  ASSUME Bi!BillingAssumption, BiIInv, Bi!Repeat
  PROVE  BiIInv'
<1>1. PICK s \in biSubscriptions \ (biDue \cup Bi!Unused) :
        /\ biDue' = biDue \cup {s}
        /\ UNCHANGED <<Bi!world, biSubscription, biCheckouts, biList, biHolder, biTask, biAstray>>
  BY DEF Bi!Repeat
<1>2. UNCHANGED <<biPlan, biCustomer, biLast, biSeats, biMirrored>>
  BY <1>1 DEF Bi!world
<1>3. \A t : BiUsed(t)' <=> BiUsed(t)
  BY <1>1 DEF BiUsed
<1>4. BiUsed(s)
  BY <1>1 DEF Bi!Unused, BiUsed
<1>5. /\ biSubscription' \in [biSubscriptions -> BiStock] /\ biDue' \in SUBSET biSubscriptions
      /\ biAstray' \in BOOLEAN
      /\ \A t \in biDue' : BiUsed(t)
  BY <1>1, <1>4 DEF BiIInv, BiTypeInv, BiKnownInv
<1>6. BiLiveInv'
  BY <1>1 DEF BiIInv, BiLiveInv
<1>. QED BY <1>1, <1>2, <1>3, <1>5, <1>6, BiAbroad

LEMMA BiForgetListKeeps ==
  ASSUME Bi!BillingAssumption, BiIInv, Bi!ForgetList
  PROVE  BiIInv'
<1>1. /\ biList' = None
      /\ UNCHANGED <<biSubscription, biDue, biCheckouts, biHolder, biTask, biAstray, biPlan,
                     biCustomer, biLast, biSeats, biMirrored>>
  BY DEF Bi!ForgetList, Bi!world
<1>2. \A t : BiUsed(t)' <=> BiUsed(t)
  BY <1>1 DEF BiUsed
<1>3. /\ biSubscription' \in [biSubscriptions -> BiStock] /\ biDue' \in SUBSET biSubscriptions
      /\ biAstray' \in BOOLEAN
      /\ \A t \in biDue' : BiUsed(t)
  BY <1>1 DEF BiIInv, BiTypeInv, BiKnownInv
<1>4. BiLiveInv'
  BY <1>1 DEF BiIInv, BiLiveInv
<1>. QED BY <1>1, <1>2, <1>3, <1>4, BiAbroad

\* A subscription begins: it is the live one, or there are two.
LEMMA BiBegun ==
  ASSUME Bi!BillingAssumption, BiIInv, NEW s \in Bi!Unused, NEW stock \in BiStock,
         stock.status \in Bi!Live,
         biSubscription' = [biSubscription EXCEPT ![s] = stock], biDue' = biDue \cup {s},
         biAstray' = (biAstray \/ Bi!Current(Bi!Statuses) # None)
  PROVE  /\ biSubscription' \in [biSubscriptions -> BiStock] /\ biDue' \in SUBSET biSubscriptions
         /\ biAstray' \in BOOLEAN
         /\ BiLiveInv' /\ biDue \subseteq biDue' /\ s \in biSubscriptions /\ ~BiUsed(s)
         /\ \A t \in biDue' : BiUsed(t)'
         /\ \A t \in biSubscriptions : BiUsed(t) => BiUsed(t)'
         /\ \A t \in biSubscriptions : biSubscription'[t] = biSubscription[t] \/ (t \in biDue' /\ ~BiUsed(t))
<1>1. s \in biSubscriptions /\ ~BiUsed(s) /\ "none" \notin Bi!Live
  BY DEF Bi!Unused, BiUsed, Bi!Live, Bi!Stampable
<1>2. /\ biSubscription' \in [biSubscriptions -> BiStock] /\ biSubscription'[s] = stock
      /\ \A t \in biSubscriptions : t # s => biSubscription'[t] = biSubscription[t]
  BY <1>1 DEF BiIInv, BiTypeInv
<1>3. biDue' \in SUBSET biSubscriptions /\ biAstray' \in BOOLEAN /\ biDue \subseteq biDue'
  BY <1>1 DEF BiIInv, BiTypeInv
<1>4. BiUsed(s)'
  BY <1>1, <1>2 DEF BiUsed
<1>5. \A t \in biSubscriptions : BiUsed(t) => BiUsed(t)'
  BY <1>2, <1>4 DEF BiUsed
<1>6. \A t \in biDue' : BiUsed(t)'
  <2>1. \A t \in biDue : t \in biSubscriptions /\ BiUsed(t)
    BY DEF BiIInv, BiTypeInv, BiKnownInv
  <2>. QED BY <1>4, <1>5, <2>1
<1>7. BiLiveInv'
  <2>1. SUFFICES ASSUME ~biAstray', NEW t \in biSubscriptions, biSubscription'[t].status \in Bi!Live PROVE t = s
    BY <2>1 DEF BiLiveInv
  <2>2. SUFFICES ASSUME t # s PROVE FALSE
    OBVIOUS
  <2>3. biSubscription[t].status \in Bi!Live
    BY <1>2, <2>1, <2>2
  <2>4. Bi!Current(Bi!Statuses) = t
    BY <2>1, <2>3, BiCurrentIs DEF BiIInv
  <2>. QED BY <2>1, <2>4 DEF Bi!BillingAssumption
<1>. QED BY <1>1, <1>2, <1>3, <1>5, <1>6, <1>7

LEMMA BiCompleteCheckoutKeeps ==
  ASSUME Bi!BillingAssumption, BiIInv, Bi!CompleteCheckout
  PROVE  BiIInv'
<1>1. PICK c \in biCheckouts, s \in Bi!Unused :
        /\ biSubscription' = [biSubscription EXCEPT
               ![s] = [status |-> "active", price |-> c.price, quantity |-> c.quantity]]
        /\ biCheckouts' = biCheckouts \ {c} /\ biDue' = biDue \cup {s}
        /\ biAstray' = (biAstray \/ Bi!Current(Bi!Statuses) # None)
        /\ UNCHANGED <<biList, biHolder, biTask, biPlan, biCustomer, biLast, biSeats, biMirrored>>
  BY DEF Bi!CompleteCheckout, Bi!world
<1>. DEFINE stock == [status |-> "active", price |-> c.price, quantity |-> c.quantity]
<1>2. c \in [price : biPrices, quantity : 0..biMaxSeats]
  BY DEF BiIInv, BiTypeInv
<1>3. stock \in BiStock /\ stock.status \in Bi!Live
  BY <1>2 DEF BiStock, Bi!Live, Bi!Stampable
<1>4. biSubscription' = [biSubscription EXCEPT ![s] = stock]
  BY <1>1
<1>. HIDE DEF stock
<1>5. /\ biSubscription' \in [biSubscriptions -> BiStock] /\ biDue' \in SUBSET biSubscriptions
      /\ biAstray' \in BOOLEAN
      /\ BiLiveInv' /\ biDue \subseteq biDue' /\ s \in biSubscriptions /\ ~BiUsed(s)
      /\ \A t \in biDue' : BiUsed(t)'
      /\ \A t \in biSubscriptions : BiUsed(t) => BiUsed(t)'
      /\ \A t \in biSubscriptions : biSubscription'[t] = biSubscription[t] \/ (t \in biDue' /\ ~BiUsed(t))
  BY <1>1, <1>3, <1>4, BiBegun
<1>6. biCheckouts' \in SUBSET biCheckouts /\ (biAstray => biAstray')
  BY <1>1
<1>. QED BY <1>1, <1>5, <1>6, BiAbroad

LEMMA BiStatusChangesKeeps ==
  ASSUME Bi!BillingAssumption, BiIInv, Bi!StatusChanges
  PROVE  BiIInv'
<1>1. PICK s \in biSubscriptions, status \in {"active", "past_due", "canceled"} :
        /\ biSubscription[s].status \in Bi!Live
        /\ biSubscription' = [biSubscription EXCEPT ![s].status = status]
        /\ biDue' = biDue \cup {s}
        /\ UNCHANGED <<biCheckouts, biList, biHolder, biTask, biAstray, biPlan, biCustomer,
                       biLast, biSeats, biMirrored>>
  BY DEF Bi!StatusChanges, Bi!world
<1>2. status \in {"none"} \cup Bi!Live \cup Bi!Terminal /\ status # "none"
  BY DEF Bi!Live, Bi!Stampable, Bi!Terminal
<1>3. biSubscription \in [biSubscriptions -> BiStock]
  BY DEF BiIInv, BiTypeInv
<1>4. /\ biSubscription' \in [biSubscriptions -> BiStock]
      /\ biSubscription'[s].status = status
      /\ biSubscription'[s].quantity = biSubscription[s].quantity
      /\ \A t \in biSubscriptions : t # s => biSubscription'[t] = biSubscription[t]
  BY <1>1, <1>2, <1>3 DEF BiStock
<1>5. BiUsed(s) /\ BiUsed(s)'
  BY <1>1, <1>2, <1>4 DEF BiUsed, Bi!Live, Bi!Stampable
<1>6. \A t \in biSubscriptions : BiUsed(t) => BiUsed(t)'
  BY <1>4, <1>5 DEF BiUsed
<1>7. biDue' \in SUBSET biSubscriptions /\ \A t \in biDue' : BiUsed(t)'
  <2>1. \A t \in biDue : t \in biSubscriptions /\ BiUsed(t)
    BY DEF BiIInv, BiTypeInv, BiKnownInv
  <2>. QED BY <1>1, <1>5, <1>6, <2>1
<1>8. BiLiveInv'
  <2>1. \A t \in biSubscriptions : biSubscription'[t].status \in Bi!Live => biSubscription[t].status \in Bi!Live
    BY <1>1, <1>4
  <2>. QED BY <1>1, <2>1 DEF BiIInv, BiLiveInv
<1>9. biCheckouts' \in SUBSET biCheckouts /\ biAstray' \in BOOLEAN
  BY <1>1 DEF BiIInv, BiTypeInv
<1>. QED BY <1>1, <1>4, <1>6, <1>7, <1>8, <1>9, BiAbroad

LEMMA BiStartTrialKeeps ==
  ASSUME Bi!BillingAssumption, BiIInv, NEW w \in biWorkers, Bi!StartTrial(w)
  PROVE  BiIInv'
<1>1. PICK s \in Bi!Unused, p \in biMirrored :
        /\ biTask[w].job = "trial" /\ biTask[w].at = "act" /\ biList' = None
        /\ biSubscription' = [biSubscription EXCEPT
               ![s] = [status |-> "trialing", price |-> p, quantity |-> biTask[w].count]]
        /\ biDue' = biDue \cup {s} /\ biAstray' = (biAstray \/ Bi!Current(Bi!Statuses) # None)
        /\ biTask' = [biTask EXCEPT ![w].at = "wait", ![w].sub = s]
        /\ UNCHANGED <<biCheckouts, biHolder, biPlan, biCustomer, biLast, biSeats, biMirrored>>
  BY DEF Bi!StartTrial, Bi!world
<1>. DEFINE stock == [status |-> "trialing", price |-> p, quantity |-> biTask[w].count]
            x == [biTask[w] EXCEPT !.at = "wait", !.sub = s]
<1>2. biTask[w] \in BiTaskType /\ p \in biPrices
  BY DEF BiIInv, BiTypeInv
<1>3. stock \in BiStock /\ stock.status \in Bi!Live
  BY <1>2 DEF BiTaskType, BiStock, Bi!Live, Bi!Stampable
<1>4. biSubscription' = [biSubscription EXCEPT ![s] = stock] /\ biTask' = [biTask EXCEPT ![w] = x]
  BY <1>1 DEF BiIInv, BiTypeInv
<1>. HIDE DEF stock
<1>5. /\ biSubscription' \in [biSubscriptions -> BiStock] /\ biDue' \in SUBSET biSubscriptions
      /\ biAstray' \in BOOLEAN
      /\ BiLiveInv' /\ biDue \subseteq biDue' /\ s \in biSubscriptions /\ ~BiUsed(s)
      /\ \A t \in biDue' : BiUsed(t)'
      /\ \A t \in biSubscriptions : BiUsed(t) => BiUsed(t)'
      /\ \A t \in biSubscriptions : biSubscription'[t] = biSubscription[t] \/ (t \in biDue' /\ ~BiUsed(t))
  BY <1>1, <1>3, <1>4, BiBegun
<1>6. PICK y \in BiTaskType :
        biTask' = [biTask EXCEPT ![w] = y] /\ y.job = "trial" /\ y.at = "wait" /\ y.sub = s
  <2>1. x \in BiTaskType /\ x.job = "trial" /\ x.at = "wait" /\ x.sub = s
    BY <1>1, <1>2, <1>5 DEF BiTaskType, Bi!Steps
  <2>. HIDE DEF x
  <2>. QED BY <1>4, <2>1
<1>. HIDE DEF x
<1>7. /\ BiForm(y) /\ y.at \notin BiHeld /\ y.at \notin BiPast /\ biTask[w].at \notin BiHeld
      /\ BiUsed(y.sub)'
  BY <1>1, <1>5, <1>6 DEF BiForm, BiHeld, BiPast
<1>8. /\ biTask' \in [biWorkers -> BiTaskType] /\ biTask'[w] = y
      /\ \A v \in biWorkers : v # w => biTask'[v] = biTask[v]
      /\ BiTaskInv' /\ BiKnownInv'
  BY <1>1, <1>4, <1>5, <1>6, <1>7, BiMoves DEF BiIInv
<1>9. BiTypeInv'
  BY <1>1, <1>5, <1>8 DEF BiIInv, BiTypeInv
<1>. QED BY <1>1, <1>5, <1>6, <1>7, <1>8, <1>9, BiAnnounced

LEMMA BiCheckoutKeeps ==
  ASSUME Bi!BillingAssumption, BiIInv, NEW w \in biWorkers, Bi!Checkout(w)
  PROVE  BiIInv'
<1>1. /\ biTask[w].job = "checkout" /\ biTask[w].at = "act" /\ biList' = None
      /\ biTask' = [biTask EXCEPT ![w] = Bi!Idle]
      /\ IF biTask[w].sub # None
         THEN /\ biSubscription' = [biSubscription EXCEPT ![biTask[w].sub].price = biTask[w].state]
              /\ biDue' = biDue \cup {biTask[w].sub}
              /\ UNCHANGED biCheckouts
         ELSE /\ biCheckouts' = biCheckouts \cup {[price |-> biTask[w].state, quantity |-> biTask[w].count]}
              /\ UNCHANGED <<biSubscription, biDue>>
      /\ UNCHANGED <<biHolder, biAstray, biPlan, biCustomer, biLast, biSeats, biMirrored>>
  BY DEF Bi!Checkout, Bi!Ends, Bi!world
<1>2. /\ biTask[w] \in BiTaskType /\ biTask[w].state \in biPrices
      /\ biTask[w].sub # None => biTask[w].sub \in biSubscriptions /\ BiUsed(biTask[w].sub)
  BY <1>1 DEF BiIInv, BiTypeInv, BiTaskInv, BiForm, BiKnownInv, BiTaskType
<1>3. biSubscription \in [biSubscriptions -> BiStock] /\ biDue \in SUBSET biSubscriptions /\ \A t \in biDue : BiUsed(t)
  BY DEF BiIInv, BiTypeInv, BiKnownInv
<1>5. /\ biSubscription' \in [biSubscriptions -> BiStock] /\ biDue' \in SUBSET biSubscriptions
      /\ biDue \subseteq biDue'
      /\ \A t \in biSubscriptions : biSubscription'[t].status = biSubscription[t].status
      /\ \A t \in biSubscriptions : biSubscription'[t] = biSubscription[t]
                                \/ (t \in biDue' /\ biSubscription'[t].quantity = biSubscription[t].quantity)
      /\ \A t \in biDue' : BiUsed(t)
  <2>1. CASE biTask[w].sub # None
    <3>1. /\ biSubscription' \in [biSubscriptions -> BiStock]
          /\ biSubscription'[biTask[w].sub].quantity = biSubscription[biTask[w].sub].quantity
          /\ \A t \in biSubscriptions : biSubscription'[t].status = biSubscription[t].status
          /\ \A t \in biSubscriptions : t # biTask[w].sub => biSubscription'[t] = biSubscription[t]
      BY <1>1, <1>2, <1>3, <2>1 DEF BiStock
    <3>. QED BY <1>1, <1>2, <1>3, <2>1, <3>1
  <2>2. CASE biTask[w].sub = None
    BY <1>1, <1>3, <2>2
  <2>. QED BY <2>1, <2>2
<1>6. biCheckouts' \in SUBSET [price : biPrices, quantity : 0..biMaxSeats]
  <2>1. [price |-> biTask[w].state, quantity |-> biTask[w].count] \in [price : biPrices, quantity : 0..biMaxSeats]
    BY <1>2 DEF BiTaskType
  <2>. QED BY <1>1, <2>1 DEF BiIInv, BiTypeInv
<1>7. \A t \in biSubscriptions : BiUsed(t) <=> BiUsed(t)'
  BY <1>5 DEF BiUsed
<1>8. \A t \in biDue' : BiUsed(t)'
  BY <1>5, <1>7
<1>9. BiLiveInv'
  BY <1>1, <1>5 DEF BiIInv, BiLiveInv
<1>10. biTask[w].at \notin BiHeld /\ biTask[w].at \notin BiPast /\ Bi!Idle.at # "asked"
  BY <1>1, BiIdleIs DEF BiHeld, BiPast
<1>11. /\ biTask' \in [biWorkers -> BiTaskType] /\ biTask'[w] = Bi!Idle
       /\ \A v \in biWorkers : v # w => biTask'[v] = biTask[v]
       /\ BiTaskInv' /\ BiKnownInv'
  BY <1>1, <1>7, <1>8, <1>10, BiIdleIs, BiMoves DEF BiIInv
<1>12. BiTypeInv'
  BY <1>1, <1>5, <1>6, <1>11 DEF BiIInv, BiTypeInv
<1>. QED BY <1>1, <1>5, <1>9, <1>10, <1>11, <1>12, BiIdleIs, BiAnnounced

-----------------------------------------------------------------------------
(* The steps under the lock *)

\* What the holder of the lock does: nobody else has read or counts.
LEMMA BiAlone ==
  ASSUME Bi!BillingAssumption, BiIInv, NEW w \in biWorkers, biTask[w].at \in BiHeld
  PROVE  /\ biHolder = w /\ biTask[w] \in BiTaskType /\ BiForm(biTask[w])
         /\ biTask[w].sub \in biSubscriptions /\ BiUsed(biTask[w].sub)
         /\ \A v \in biWorkers : v # w => biTask[v].at \notin BiHeld /\ biTask[v].at \notin BiPast
         /\ \A s : \A v \in biWorkers : v # w => ~BiStamps(v, s) /\ ~BiCounts(v, s)
<1>1. biHolder = w /\ \A v \in biWorkers : v # w => biTask[v].at \notin BiHeld
  BY DEF BiIInv, BiTaskInv
<1>2. biTask[w] \in BiTaskType /\ BiForm(biTask[w]) /\ biTask[w].sub \in biSubscriptions
  BY DEF BiIInv, BiTypeInv, BiTaskInv, BiForm
<1>3. BiUsed(biTask[w].sub)
  BY <1>2 DEF BiIInv, BiKnownInv, Bi!BillingAssumption
<1>. QED BY <1>1, <1>2, <1>3 DEF BiHeld, BiPast, BiStamps, BiCounts

\* A step of the holder that keeps the lock and changes nothing at Stripe.
LEMMA BiInside ==
  ASSUME Bi!BillingAssumption, BiIInv, NEW w \in biWorkers, biTask[w].at \in BiHeld,
         NEW x \in BiTaskType, BiForm(x), x.at \in BiHeld, x.sub = biTask[w].sub,
         biTask' = [biTask EXCEPT ![w] = x], UNCHANGED <<biSubscription, biDue, biCheckouts,
                                                         biSeats, biHolder, biAstray>>,
         biMirrored' \in SUBSET biPrices, biPlan' \in biPrices \cup {biFree}, biCustomer' \in BOOLEAN,
         biLast' \in biSubscriptions \cup {None}, biList' = biList \/ biList' = None
  PROVE  /\ biTask'[w] = x /\ \A v \in biWorkers : v # w => biTask'[v] = biTask[v]
         /\ BiTypeInv' /\ BiTaskInv' /\ BiKnownInv' /\ BiLiveInv'
<1>1. \A s : BiUsed(s)' <=> BiUsed(s)
  BY DEF BiUsed
<1>2. /\ \A s \in biDue' : BiUsed(s)'
      /\ biList' = None \/ BiKnown(biList)' \/ biList' = biList
  BY <1>1 DEF BiIInv, BiKnownInv
<1>3. x.at \in BiHeld /\ x.at # "asked" /\ BiUsed(x.sub)'
  BY <1>1, BiAlone DEF BiHeld
<1>4. /\ biTask' \in [biWorkers -> BiTaskType] /\ biTask'[w] = x
      /\ \A v \in biWorkers : v # w => biTask'[v] = biTask[v]
      /\ BiTaskInv' /\ BiKnownInv'
  BY <1>1, <1>2, <1>3, BiMoves DEF BiIInv
<1>5. BiTypeInv'
  BY <1>4 DEF BiIInv, BiTypeInv
<1>6. BiLiveInv'
  BY DEF BiIInv, BiLiveInv
<1>. QED BY <1>4, <1>5, <1>6

LEMMA BiReadStateKeeps ==
  ASSUME Bi!BillingAssumption, BiIInv, NEW w \in biWorkers, Bi!ReadState(w)
  PROVE  BiIInv'
<1>1. PICK s \in biSubscriptions, step \in Bi!Steps :
        /\ s = biTask[w].sub /\ step = IF biTask[w].job = "seats" THEN "seats" ELSE "stamp"
        /\ biTask[w].at = "locked"
        /\ biTask' = [biTask EXCEPT ![w].state = biSubscription[s], ![w].at = step]
        /\ biMirrored' = biMirrored \/ biMirrored' = biPrices
        /\ UNCHANGED <<biSubscription, biDue, biCheckouts, biPlan, biCustomer, biSeats, biList,
                       biHolder, biLast, biAstray>>
  BY BiAlone DEF Bi!ReadState, Bi!Reread, BiHeld, Bi!Steps
<1>2. /\ biHolder = w /\ biTask[w] \in BiTaskType /\ BiForm(biTask[w]) /\ BiUsed(s)
      /\ \A v \in biWorkers : v # w => biTask[v].at \notin BiHeld /\ biTask[v].at \notin BiPast
      /\ \A t : \A v \in biWorkers : v # w => ~BiStamps(v, t) /\ ~BiCounts(v, t)
  BY <1>1, BiAlone DEF BiHeld
<1>3. PICK x \in BiTaskType :
        /\ biTask' = [biTask EXCEPT ![w] = x]
        /\ x.job = biTask[w].job /\ x.sub = s /\ x.at = step /\ x.state = biSubscription[s]
  <2>. DEFINE y == [biTask[w] EXCEPT !.state = biSubscription[s], !.at = step]
  <2>1. biSubscription[s] \in BiStock
    BY DEF BiIInv, BiTypeInv
  <2>2. /\ y \in BiTaskType /\ y.job = biTask[w].job /\ y.sub = s /\ y.at = step
        /\ y.state = biSubscription[s]
    BY <1>1, <1>2, <2>1 DEF BiTaskType
  <2>3. biTask' = [biTask EXCEPT ![w] = y]
    BY <1>1 DEF BiIInv, BiTypeInv
  <2>. HIDE DEF y
  <2>. QED BY <2>2, <2>3
<1>4. BiForm(x) /\ x.at \in BiHeld /\ x.at \in {"seats", "stamp"}
  BY <1>1, <1>2, <1>3 DEF BiForm, BiHeld, BiPast, BiIInv, BiTypeInv
<1>5. /\ biMirrored' \in SUBSET biPrices /\ biPlan' \in biPrices \cup {biFree}
      /\ biCustomer' \in BOOLEAN
      /\ biLast' \in biSubscriptions \cup {None}
  BY <1>1 DEF BiIInv, BiTypeInv
<1>6. /\ biTask'[w] = x /\ \A v \in biWorkers : v # w => biTask'[v] = biTask[v]
      /\ BiTypeInv' /\ BiTaskInv' /\ BiKnownInv' /\ BiLiveInv'
  BY <1>1, <1>3, <1>4, <1>5, BiInside DEF BiHeld
<1>7. ASSUME NEW t PROVE BiPend(t) => BiPend(t)' \/ (t = s /\ BiStamps(w, s)')
  <2>1. ASSUME NEW v \in biWorkers, BiReads(biTask[v], t) PROVE BiPend(t)' \/ (t = s /\ BiStamps(w, s)')
    <3>1. CASE v # w
      BY <1>6, <2>1, <3>1 DEF BiPend, BiReads
    <3>2. CASE v = w
      BY <1>1, <1>3, <1>6, <2>1, <3>2 DEF BiStamps, BiReads
    <3>. QED BY <3>1, <3>2
  <2>. QED BY <1>1, <2>1 DEF BiPend
<1>8. BiAgree(w)'
  BY <1>1, <1>3, <1>6 DEF BiAgree
<1>9. BiReadInv'
  BY <1>1, <1>2, <1>3, <1>6, <1>8 DEF BiReadInv
<1>10. BiStampInv'
  <2>1. SUFFICES ASSUME biLast # None, ~BiRight(biLast)'
                 PROVE  BiPend(biLast)' \/ \E v \in biWorkers : BiStamps(v, biLast)' /\ BiAgree(v)'
    BY <1>1, <2>1 DEF BiStampInv, BiStamps
  <2>2. ~BiRight(biLast)
    BY <1>1, <2>1 DEF BiRight
  <2>3. \A v \in biWorkers : ~BiStamps(v, biLast)
    BY <1>1, <1>2 DEF BiStamps
  <2>4. BiPend(biLast)
    BY <2>1, <2>2, <2>3 DEF BiIInv, BiStampInv
  <2>5. PICK z : z = biLast
    OBVIOUS
  <2>6. BiPend(z)' \/ (z = s /\ BiStamps(w, s)')
    BY <1>7, <2>4, <2>5
  <2>. QED BY <1>1, <1>8, <2>5, <2>6 DEF BiPend, BiReads, BiStamps
<1>11. BiCustomerInv'
  <2>1. SUFFICES ASSUME ~biCustomer
                 PROVE  /\ \A t \in biSubscriptions : BiUsed(t)' => BiPend(t)' \/ \E v \in biWorkers : BiStamps(v, t)'
                        /\ \A v \in biWorkers : biTask'[v].job # "seats" /\ biTask'[v].at \notin {"seats", "report"}
    BY <1>1, <2>1 DEF BiCustomerInv
  <2>2. \A v \in biWorkers : ~(\E t : BiStamps(v, t))
    BY <1>1, <1>2 DEF BiStamps
  <2>3. \A t \in biSubscriptions : BiUsed(t)' => BiPend(t)
    BY <1>1, <2>1, <2>2 DEF BiIInv, BiCustomerInv, BiUsed
  <2>4. \A v \in biWorkers : biTask[v].job # "seats" /\ biTask[v].at \notin {"seats", "report"}
    BY <2>1 DEF BiIInv, BiCustomerInv
  <2>. QED BY <1>1, <1>3, <1>6, <1>7, <2>3, <2>4
<1>12. BiBillInv'
  <2>1. SUFFICES ASSUME ~biAstray, NEW t \in biSubscriptions,
                        biSubscription[t].status \in Bi!Stampable, biSubscription[t].quantity # biSeats
                 PROVE  BiAgain(t)' \/ \E v \in biWorkers : BiCounts(v, t)'
    BY <1>1, <2>1 DEF BiBillInv
  <2>2. \A v \in biWorkers : ~BiCounts(v, t)
    BY <1>1, <1>2 DEF BiCounts
  <2>3. BiAgain(t)
    BY <2>1, <2>2 DEF BiIInv, BiBillInv
  <2>4. BiStamps(w, s)' /\ t = s => BiCounts(w, t)'
    BY <1>1, <1>3, <1>6, <2>1 DEF BiStamps, BiCounts
  <2>5. ASSUME NEW v \in biWorkers, BiWill(biTask[v], t) PROVE BiAgain(t)' \/ BiCounts(w, t)'
    <3>1. CASE v # w
      BY <1>6, <2>5, <3>1 DEF BiAgain, BiWill
    <3>2. CASE v = w
      BY <1>1, <1>3, <1>6, <2>1, <2>5, <3>2 DEF BiCounts, BiWill
    <3>. QED BY <3>1, <3>2
  <2>. QED BY <1>7, <2>3, <2>4, <2>5 DEF BiAgain
<1>. QED BY <1>6, <1>9, <1>10, <1>11, <1>12 DEF BiIInv

LEMMA BiStampKeeps ==
  ASSUME Bi!BillingAssumption, BiIInv, NEW w \in biWorkers, Bi!Stamp(w)
  PROVE  BiIInv'
<1>1. PICK s \in biSubscriptions :
        /\ s = biTask[w].sub /\ biTask[w].at = "stamp"
        /\ biTask' = [biTask EXCEPT ![w].at = "seats"]
        /\ biList' = None /\ biCustomer' = TRUE /\ biPlan' = Bi!StampOf(biTask[w].state)
        /\ biLast' = s
        /\ UNCHANGED <<biSubscription, biDue, biCheckouts, biMirrored, biSeats, biHolder, biAstray>>
  BY BiAlone DEF Bi!Stamp, Bi!To, BiHeld
<1>2. /\ biHolder = w /\ biTask[w] \in BiTaskType /\ BiForm(biTask[w])
      /\ biTask[w].state \in BiStock
      /\ \A v \in biWorkers : v # w => biTask[v].at \notin BiHeld /\ biTask[v].at \notin BiPast
      /\ \A t : \A v \in biWorkers : v # w => ~BiStamps(v, t) /\ ~BiCounts(v, t)
  BY <1>1, BiAlone DEF BiHeld, BiPast, BiForm
<1>3. PICK x \in BiTaskType :
        /\ biTask' = [biTask EXCEPT ![w] = x]
        /\ x.job = biTask[w].job /\ x.sub = s /\ x.at = "seats" /\ x.state = biTask[w].state
  <2>. DEFINE y == [biTask[w] EXCEPT !.at = "seats"]
  <2>1. /\ y \in BiTaskType /\ y.job = biTask[w].job /\ y.sub = s /\ y.at = "seats"
        /\ y.state = biTask[w].state
    BY <1>1, <1>2 DEF BiTaskType, Bi!Steps
  <2>2. biTask' = [biTask EXCEPT ![w] = y]
    BY <1>1 DEF BiIInv, BiTypeInv
  <2>. HIDE DEF y
  <2>. QED BY <2>1, <2>2
<1>4. BiForm(x) /\ x.at \in BiHeld
  BY <1>1, <1>2, <1>3 DEF BiForm, BiHeld, BiPast
<1>5. /\ biMirrored' \in SUBSET biPrices /\ biPlan' \in biPrices \cup {biFree}
      /\ biCustomer' \in BOOLEAN
  BY <1>1, <1>2 DEF BiIInv, BiTypeInv, Bi!StampOf, BiStock
<1>6. /\ biTask'[w] = x /\ \A v \in biWorkers : v # w => biTask'[v] = biTask[v]
      /\ BiTypeInv' /\ BiTaskInv' /\ BiKnownInv' /\ BiLiveInv'
  BY <1>1, <1>3, <1>4, <1>5, BiInside DEF BiHeld
<1>7. ASSUME NEW t PROVE (BiPend(t) => BiPend(t)') /\ (BiAgain(t) => BiAgain(t)')
  <2>1. \A v \in biWorkers : (BiReads(biTask[v], t) => BiReads(biTask'[v], t)) /\ (BiWill(biTask[v], t) => BiWill(biTask'[v], t))
    BY <1>1, <1>6 DEF BiReads, BiWill
  <2>2. BiPend(t) => BiPend(t)'
    BY <1>1, <2>1 DEF BiPend, BiReads
  <2>. QED BY <2>1, <2>2 DEF BiAgain, BiWill
<1>8. /\ BiAgree(w) \/ BiPend(s)
      /\ biTask[w].state.quantity = biSubscription[s].quantity
  BY <1>1 DEF BiIInv, BiReadInv, BiPast
<1>9. BiAgree(w) => BiAgree(w)'
  BY <1>1, <1>3, <1>6 DEF BiAgree
<1>10. BiReadInv'
  BY <1>1, <1>2, <1>3, <1>6, <1>7, <1>8, <1>9 DEF BiReadInv
<1>11. BiStampInv'
  <2>1. BiAgree(w) => BiRight(s)'
    BY <1>1, <1>2 DEF BiAgree, BiRight, Bi!StampOf, Bi!Stampable, Bi!Terminal
  <2>2. BiStampInv' <=> (biLast' # None /\ ~BiRight(biLast)' => BiPend(biLast)' \/ \E v \in biWorkers : BiStamps(v, biLast)' /\ BiAgree(v)')
    BY DEF BiStampInv, BiStamps, BiRight, BiPend, BiReads
  <2>3. BiRight(biLast)' <=> BiRight(s)'
    BY <1>1 DEF BiRight
  <2>4. BiPend(biLast)' <=> BiPend(s)'
    BY <1>1 DEF BiPend, BiReads
  <2>. QED BY <1>7, <1>8, <2>1, <2>2, <2>3, <2>4
<1>12. BiCustomerInv'
  BY <1>1 DEF BiCustomerInv
<1>13. BiBillInv'
  <2>1. SUFFICES ASSUME ~biAstray, NEW t \in biSubscriptions,
                        biSubscription[t].status \in Bi!Stampable, biSubscription[t].quantity # biSeats
                 PROVE  BiAgain(t)' \/ \E v \in biWorkers : BiCounts(v, t)'
    BY <1>1, <2>1 DEF BiBillInv
  <2>2. BiAgain(t) \/ BiCounts(w, t)
    BY <1>2, <2>1 DEF BiIInv, BiBillInv
  <2>3. BiCounts(w, t) => BiCounts(w, t)'
    BY <1>1, <1>3, <1>6 DEF BiCounts
  <2>. QED BY <1>7, <2>2, <2>3
<1>. QED BY <1>6, <1>10, <1>11, <1>12, <1>13 DEF BiIInv

LEMMA BiCountSeatsKeeps ==
  ASSUME Bi!BillingAssumption, BiIInv, NEW w \in biWorkers, Bi!CountSeats(w)
  PROVE  BiIInv'
<1>1. PICK s \in biSubscriptions :
        /\ s = biTask[w].sub /\ biTask[w].at = "seats" /\ biTask[w].state.status \in Bi!Stampable
        /\ biTask' = [biTask EXCEPT ![w].count = biSeats, ![w].at = "report"]
        /\ UNCHANGED <<biSubscription, biDue, biCheckouts, biMirrored, biPlan, biCustomer,
                       biSeats, biList, biHolder, biLast, biAstray>>
  BY BiAlone DEF Bi!CountSeats, Bi!Counted, Bi!world, BiHeld
<1>2. /\ biHolder = w /\ biTask[w] \in BiTaskType /\ BiForm(biTask[w]) /\ biSeats \in 0..biMaxSeats
      /\ \A v \in biWorkers : v # w => biTask[v].at \notin BiHeld /\ biTask[v].at \notin BiPast
      /\ \A t : \A v \in biWorkers : v # w => ~BiStamps(v, t) /\ ~BiCounts(v, t)
  BY <1>1, BiAlone DEF BiHeld, BiIInv, BiTypeInv, Bi!BillingAssumption
<1>3. PICK x \in BiTaskType :
        /\ biTask' = [biTask EXCEPT ![w] = x]
        /\ x.job = biTask[w].job /\ x.sub = s /\ x.at = "report" /\ x.state = biTask[w].state
        /\ x.count = biSeats
  <2>. DEFINE y == [biTask[w] EXCEPT !.count = biSeats, !.at = "report"]
  <2>1. /\ y \in BiTaskType /\ y.job = biTask[w].job /\ y.sub = s /\ y.at = "report"
        /\ y.state = biTask[w].state /\ y.count = biSeats
    BY <1>1, <1>2 DEF BiTaskType, Bi!Steps
  <2>2. biTask' = [biTask EXCEPT ![w] = y]
    BY <1>1 DEF BiIInv, BiTypeInv
  <2>. HIDE DEF y
  <2>. QED BY <2>1, <2>2
<1>4. BiForm(x) /\ x.at \in BiHeld
  BY <1>1, <1>2, <1>3 DEF BiForm, BiHeld, BiPast
<1>5. /\ biMirrored' \in SUBSET biPrices /\ biPlan' \in biPrices \cup {biFree}
      /\ biCustomer' \in BOOLEAN
      /\ biLast' \in biSubscriptions \cup {None}
  BY <1>1 DEF BiIInv, BiTypeInv
<1>6. /\ biTask'[w] = x /\ \A v \in biWorkers : v # w => biTask'[v] = biTask[v]
      /\ BiTypeInv' /\ BiTaskInv' /\ BiKnownInv' /\ BiLiveInv'
  BY <1>1, <1>3, <1>4, <1>5, BiInside DEF BiHeld
<1>7. ASSUME NEW t PROVE (BiPend(t) => BiPend(t)') /\ (BiAgain(t) => BiAgain(t)')
  <2>1. \A v \in biWorkers : (BiReads(biTask[v], t) => BiReads(biTask'[v], t)) /\ (BiWill(biTask[v], t) => BiWill(biTask'[v], t))
    BY <1>1, <1>6 DEF BiReads, BiWill
  <2>2. BiPend(t) => BiPend(t)'
    BY <1>1, <2>1 DEF BiPend, BiReads
  <2>. QED BY <2>1, <2>2 DEF BiAgain, BiWill
<1>8. /\ BiAgree(w) \/ BiPend(s)
      /\ biTask[w].state.quantity = biSubscription[s].quantity
  BY <1>1 DEF BiIInv, BiReadInv, BiPast
<1>9. BiAgree(w) => BiAgree(w)'
  BY <1>1, <1>3, <1>6 DEF BiAgree
<1>10. BiReadInv'
  BY <1>1, <1>2, <1>3, <1>6, <1>7, <1>8, <1>9 DEF BiReadInv
<1>11. BiStampInv'
  <2>1. SUFFICES ASSUME biLast # None, ~BiRight(biLast)' PROVE BiPend(biLast)'
    BY <1>1, <2>1 DEF BiStampInv, BiStamps
  <2>2. ~BiRight(biLast)
    BY <1>1, <2>1 DEF BiRight
  <2>3. \A v \in biWorkers : ~BiStamps(v, biLast)
    BY <1>1, <1>2 DEF BiStamps
  <2>4. PICK z : z = biLast /\ BiPend(z)
    BY <2>1, <2>2, <2>3 DEF BiIInv, BiStampInv
  <2>5. BiPend(z)'
    BY <1>7, <2>4
  <2>. QED BY <1>1, <2>4, <2>5 DEF BiPend, BiReads
<1>12. BiCustomerInv'
  BY <1>1 DEF BiIInv, BiCustomerInv
<1>13. BiBillInv'
  <2>1. SUFFICES ASSUME ~biAstray, NEW t \in biSubscriptions,
                        biSubscription[t].status \in Bi!Stampable, biSubscription[t].quantity # biSeats
                 PROVE  BiAgain(t)' \/ \E v \in biWorkers : BiCounts(v, t)'
    BY <1>1, <2>1 DEF BiBillInv
  <2>2. BiAgain(t) \/ BiCounts(w, t)
    BY <1>2, <2>1 DEF BiIInv, BiBillInv
  <2>3. BiCounts(w, t) => BiCounts(w, t)'
    BY <1>1, <1>3, <1>6 DEF BiCounts
  <2>. QED BY <1>7, <2>2, <2>3
<1>. QED BY <1>6, <1>10, <1>11, <1>12, <1>13 DEF BiIInv

LEMMA BiReportKeeps ==
  ASSUME Bi!BillingAssumption, BiIInv, NEW w \in biWorkers, Bi!Report(w)
  PROVE  BiIInv'
<1>1. PICK s \in biSubscriptions, n \in 0..biMaxSeats :
        /\ s = biTask[w].sub /\ n = biTask[w].count /\ biTask' = [biTask EXCEPT ![w] = Bi!Idle]
        /\ biHolder' = None
        /\ biTask[w].at = "report" \/ (biTask[w].at = "seats" /\ biTask[w].state.status \notin Bi!Stampable)
        /\ IF biTask[w].at = "report" /\ n # biTask[w].state.quantity
           THEN biSubscription' = [biSubscription EXCEPT ![s].quantity = n] /\ biDue' = biDue \cup {s}
           ELSE UNCHANGED <<biSubscription, biDue>>
        /\ UNCHANGED <<biCheckouts, biMirrored, biPlan, biCustomer, biSeats, biList, biLast,
                       biAstray>>
  BY BiAlone DEF Bi!Report, Bi!Ends, Bi!world, BiHeld, BiTaskType
<1>2. /\ biHolder = w /\ biTask[w] \in BiTaskType /\ biTask[w].at \in BiHeld
      /\ biTask[w].at \in BiPast /\ BiUsed(s)
      /\ \A v \in biWorkers : v # w => biTask[v].at \notin BiHeld /\ biTask[v].at \notin BiPast
      /\ \A t : \A v \in biWorkers : v # w => ~BiStamps(v, t) /\ ~BiCounts(v, t)
  BY <1>1, BiAlone DEF BiHeld, BiPast
<1>3. biCustomer /\ biTask[w].state.quantity = biSubscription[s].quantity
  BY <1>1, <1>2 DEF BiIInv, BiCustomerInv, BiReadInv
<1>4. /\ biSubscription' \in [biSubscriptions -> BiStock] /\ biDue' \in SUBSET biSubscriptions
      /\ biDue \subseteq biDue'
      /\ \A t \in biSubscriptions :
           /\ biSubscription'[t].status = biSubscription[t].status
           /\ biSubscription'[t].price = biSubscription[t].price
           /\ t \in biDue' \/ biSubscription'[t] = biSubscription[t]
      /\ \A t \in biDue' : BiUsed(t)
  <2>1. biSubscription \in [biSubscriptions -> BiStock] /\ biDue \in SUBSET biSubscriptions /\ \A t \in biDue : BiUsed(t)
    BY DEF BiIInv, BiTypeInv, BiKnownInv
  <2>. DEFINE changed == [biSubscription EXCEPT ![s].quantity = n]
  <2>2. /\ changed \in [biSubscriptions -> BiStock]
        /\ \A t \in biSubscriptions :
             /\ changed[t].status = biSubscription[t].status
             /\ changed[t].price = biSubscription[t].price
             /\ t # s => changed[t] = biSubscription[t]
    BY <2>1 DEF BiStock
  <2>. HIDE DEF changed
  <2>3. CASE biSubscription' = changed /\ biDue' = biDue \cup {s}
    BY <1>2, <2>1, <2>2, <2>3
  <2>4. CASE UNCHANGED <<biSubscription, biDue>>
    BY <2>1, <2>4
  <2>. QED BY <1>1, <2>3, <2>4 DEF changed
<1>5. \A t \in biSubscriptions : BiUsed(t)' <=> BiUsed(t)
  BY <1>4 DEF BiUsed
<1>6. /\ \A t \in biDue' : BiUsed(t)'
      /\ Bi!Idle.at \notin BiHeld /\ Bi!Idle.at # "asked"
  BY <1>4, <1>5, BiIdleIs
<1>7. /\ biTask' \in [biWorkers -> BiTaskType] /\ biTask'[w] = Bi!Idle
      /\ \A v \in biWorkers : v # w => biTask'[v] = biTask[v]
      /\ BiTaskInv' /\ BiKnownInv'
  BY <1>1, <1>2, <1>5, <1>6, BiIdleIs, BiMoves DEF BiIInv
<1>8. BiTypeInv' /\ BiLiveInv'
  <2>1. BiTypeInv'
    BY <1>1, <1>4, <1>7 DEF BiIInv, BiTypeInv
  <2>. QED BY <1>1, <1>4, <2>1 DEF BiIInv, BiLiveInv
<1>9. \A v \in biWorkers : biTask'[v].at \notin BiPast
  BY <1>2, <1>7, BiIdleIs
<1>10. ASSUME NEW t PROVE (BiPend(t) => BiPend(t)') /\ (BiAgain(t) => BiAgain(t)')
  <2>1. \A v \in biWorkers : (BiReads(biTask[v], t) => BiReads(biTask'[v], t)) /\ (BiWill(biTask[v], t) => BiWill(biTask'[v], t))
    BY <1>1, <1>7 DEF BiReads, BiWill
  <2>2. BiPend(t) => BiPend(t)'
    BY <1>4, <2>1 DEF BiPend, BiReads
  <2>. QED BY <2>1, <2>2 DEF BiAgain, BiWill
<1>11. BiReadInv' /\ BiCustomerInv'
  BY <1>1, <1>3, <1>9 DEF BiReadInv, BiCustomerInv
<1>12. BiStampInv'
  <2>1. SUFFICES ASSUME biLast # None, ~BiRight(biLast)' PROVE BiPend(biLast)'
    BY <1>1, <2>1 DEF BiStampInv, BiStamps
  <2>2. biLast \in biSubscriptions
    BY <2>1 DEF BiIInv, BiTypeInv
  <2>3. ~BiRight(biLast)
    BY <1>1, <1>4, <2>1, <2>2 DEF BiRight
  <2>4. \A v \in biWorkers : ~BiStamps(v, biLast)
    BY <1>1, <1>2 DEF BiStamps
  <2>5. PICK z : z = biLast /\ BiPend(z)
    BY <2>1, <2>3, <2>4 DEF BiIInv, BiStampInv
  <2>6. BiPend(z)'
    BY <1>10, <2>5
  <2>. QED BY <1>1, <2>5, <2>6 DEF BiPend, BiReads
<1>13. BiBillInv'
  <2>1. SUFFICES ASSUME ~biAstray, NEW t \in biSubscriptions,
                        biSubscription'[t].status \in Bi!Stampable, biSubscription'[t].quantity # biSeats
                 PROVE  BiAgain(t)'
    BY <1>1, <2>1 DEF BiBillInv
  <2>2. CASE t \in biDue'
    BY <2>2 DEF BiAgain, BiPend
  <2>3. CASE t \notin biDue'
    <3>1. biSubscription'[t] = biSubscription[t]
      BY <1>4, <2>3
    <3>2. BiAgain(t) \/ BiCounts(w, t)
      BY <1>2, <2>1, <3>1 DEF BiIInv, BiBillInv
    <3>3. ~BiCounts(w, t)
      BY <1>1, <1>3, <2>1, <2>3, <3>1 DEF BiCounts
    <3>. QED BY <1>10, <3>2, <3>3
  <2>. QED BY <2>2, <2>3
<1>. QED BY <1>7, <1>8, <1>11, <1>12, <1>13 DEF BiIInv

LEMMA BiUnchanging ==
  ASSUME Bi!BillingAssumption, BiIInv, UNCHANGED Bi!vars
  PROVE  BiIInv'
<1>1. UNCHANGED <<biSubscription, biDue, biCheckouts, biList, biHolder, biTask, biAstray, biPlan,
                  biCustomer, biLast, biSeats, biMirrored>>
  BY DEF Bi!vars
<1>2. \A t : BiUsed(t)' <=> BiUsed(t)
  BY <1>1 DEF BiUsed
<1>3. /\ biSubscription' \in [biSubscriptions -> BiStock] /\ biDue' \in SUBSET biSubscriptions
      /\ biAstray' \in BOOLEAN
      /\ \A t \in biDue' : BiUsed(t)
  BY <1>1 DEF BiIInv, BiTypeInv, BiKnownInv
<1>4. BiLiveInv'
  BY <1>1 DEF BiIInv, BiLiveInv
<1>. QED BY <1>1, <1>2, <1>3, <1>4, BiAbroad

LEMMA BiInductive ==
  ASSUME Bi!BillingAssumption, BiIInv, [Bi!Next]_(Bi!vars)
  PROVE  BiIInv'
<1>1. CASE UNCHANGED Bi!vars
  BY <1>1, BiUnchanging
<1>2. CASE Bi!CompleteCheckout \/ Bi!StatusChanges \/ Bi!Repeat \/ Bi!ForgetList
  BY <1>2, BiCompleteCheckoutKeeps, BiStatusChangesKeeps, BiRepeatKeeps, BiForgetListKeeps
<1>3. ASSUME NEW w \in biWorkers, Bi!Deliver(w) \/ Bi!ChangeSeats(w) \/ Bi!BeginTrial(w) \/ Bi!BeginCheckout(w) \/ Bi!Fail(w)
      PROVE  BiIInv'
  BY <1>3, BiDeliverKeeps, BiChangeSeatsKeeps, BiBeginKeeps, BiFailKeeps
<1>4. ASSUME NEW w \in biWorkers, Bi!Works(w)
      PROVE  BiIInv'
  <2>1. CASE Bi!UseList(w) \/ Bi!AskList(w) \/ Bi!ListArrives(w) \/ Bi!StartTrial(w) \/ Bi!Checkout(w)
    BY <2>1, BiUseListKeeps, BiAskListKeeps, BiListArrivesKeeps, BiStartTrialKeeps, BiCheckoutKeeps
  <2>2. CASE Bi!TakeLock(w) \/ Bi!ReadState(w) \/ Bi!Stamp(w) \/ Bi!CountSeats(w) \/ Bi!Report(w)
    BY <2>2, BiTakeLockKeeps, BiReadStateKeeps, BiStampKeeps, BiCountSeatsKeeps, BiReportKeeps
  <2>. QED BY <1>4, <2>1, <2>2 DEF Bi!Works
<1>. QED BY <1>1, <1>2, <1>3, <1>4 DEF Bi!Next

LEMMA BiSafe ==
  ASSUME BiIInv
  PROVE  Bi!StampConverges /\ Bi!SeatsAreBilled
<1>1. SUFFICES ASSUME Bi!AtRest PROVE Bi!StampConverges /\ Bi!SeatsAreBilled
  BY DEF Bi!StampConverges, Bi!SeatsAreBilled
<1>2. biDue = {} /\ \A w \in biWorkers : biTask[w].job = "none"
  BY <1>1 DEF Bi!AtRest, Bi!Idle
<1>3. \A s : ~BiPend(s) /\ ~BiAgain(s)
  BY <1>2 DEF BiPend, BiAgain, BiReads, BiWill
<1>4. \A s : \A w \in biWorkers : ~BiStamps(w, s) /\ ~BiCounts(w, s)
  BY <1>2 DEF BiStamps, BiCounts
<1>5. biLast # None => BiRight(biLast)
  BY <1>3, <1>4 DEF BiIInv, BiStampInv
<1>6. Bi!StampConverges
  BY <1>5 DEF Bi!StampConverges, BiRight
<1>7. Bi!SeatsAreBilled
  BY <1>3, <1>4 DEF Bi!SeatsAreBilled, BiIInv, BiBillInv
<1>. QED BY <1>6, <1>7

LEMMA BiTyped ==
  ASSUME BiIInv
  PROVE  Bi!TypeOK
<1>1. \A w \in biWorkers : biTask[w].job \in Bi!Jobs /\ biTask[w].at \in Bi!Steps
  BY DEF BiIInv, BiTypeInv, BiTaskType
<1>2. biHolder # None => biTask[biHolder].at \in {"locked", "stamp", "seats", "report"}
  BY DEF BiIInv, BiTypeInv, BiTaskInv, BiHeld
<1>. QED BY <1>1, <1>2 DEF BiIInv, BiTypeInv, Bi!TypeOK, BiStock

\* However webhooks repeat, overlap and fail and seats change meanwhile: once every event is
\* handled the plan is that of the subscription reconciled last, and Stripe bills the seats
\* there are (billing/index.ts, reconcileSubscriptionEvent, settleSeatQuantity).
THEOREM BiConverges ==
  ASSUME Bi!BillingAssumption
  PROVE  Bi!Spec => [](Bi!TypeOK /\ Bi!StampConverges /\ Bi!SeatsAreBilled)
<1>1. Bi!Init => BiIInv
  BY BiInitially
<1>2. BiIInv /\ [Bi!Next]_(Bi!vars) => BiIInv'
  BY BiInductive
<1>3. BiIInv => Bi!TypeOK /\ Bi!StampConverges /\ Bi!SeatsAreBilled
  BY BiSafe, BiTyped
<1>. QED BY <1>1, <1>2, <1>3, PTL DEF Bi!Spec

=============================================================================
