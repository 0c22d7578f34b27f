-------------------------- MODULE MembershipProofs -------------------------
(***************************************************************************)
(* Theorems about Membership, for any number of people, invitations and    *)
(* requests: ownership changes hands only *)
(* by the owner's own transfer, a spent invitation admits nobody, and a    *)
(* person has one way in unless invitations crossed.                       *)
(***************************************************************************)
EXTENDS Membership, TLAPS

(* An invitation in hand is one; a row made by an invitation used it.       *)
Consistent ==
  /\ \A i \in Invitations : Exists(i) => invitation[i].accepted
  /\ \A i \in Invitations : invitation[i].accepted => invitation[i].sent
  /\ \A q \in Requests : req[q].op \in {"accept", "join"} => req[q].target \in Invitations
  /\ \A q \in Requests : req[q].op = "revoke" => req[q].target \in Invitations

Inv == TypeOK /\ Consistent /\ OneOwner

USE DEF Memberships, Assignable, Roles

-----------------------------------------------------------------------------
LEMMA InitInv == Init => Inv
<1> SUFFICES ASSUME Init PROVE Inv
  OBVIOUS
<1>1. TypeOK
  BY MembershipAssumption DEF Init, TypeOK, NoInvitation, Idle, Ops
<1>2. Consistent
  BY MembershipAssumption DEF Init, Consistent, Exists, NoInvitation, Idle
<1>3. OneOwner
  BY MembershipAssumption DEF Init, OneOwner, OwnedBy
<1> QED BY <1>1, <1>2, <1>3 DEF Inv

(* A request that begins changes nothing but itself.                        *)
LEMMA BeginsInv ==
  ASSUME Inv, NEW q \in Requests, Begins(q)
  PROVE  Inv' /\ UNCHANGED <<role, invitation>>
<1> USE MembershipAssumption
<1>1. /\ UNCHANGED <<role, invitation, active, crossed>>
      /\ requests' = requests + 1
      /\ \E op \in Ops, a, t \in Memberships, p \in People :
           /\ req' = [req EXCEPT ![q] = [op |-> op, actor |-> a, target |-> t, person |-> p]]
           /\ op \in {"accept", "join", "revoke"} => t \in Invitations
  BY DEF Inv, TypeOK, Begins, BeginInvite, BeginRevoke, BeginAccept, BeginSetRole, BeginRemove,
         BeginTransfer, Begin, Count, Ops
<1>2. TypeOK'
  BY <1>1 DEF Inv, TypeOK
<1>3. Consistent'
  BY <1>1 DEF Inv, TypeOK, Consistent, Exists
<1>4. OneOwner'
  BY <1>1 DEF Inv, OneOwner, OwnedBy
<1> QED BY <1>1, <1>2, <1>3, <1>4 DEF Inv

(* What a refused request leaves.                                           *)
LEMMA RefuseInv ==
  ASSUME Inv, NEW q \in Requests, Refuse(q), UNCHANGED <<active, requests>>
  PROVE  Inv'
<1> USE MembershipAssumption
<1>1. TypeOK'
  BY DEF Inv, TypeOK, Refuse, End, Idle, Ops
<1>2. Consistent'
  BY DEF Inv, TypeOK, Consistent, Exists, Refuse, End, Idle
<1>3. OneOwner'
  BY DEF Inv, OneOwner, OwnedBy, Refuse
<1> QED BY <1>1, <1>2, <1>3 DEF Inv

(* A write of the members table by id.                                      *)
LEMMA CommitInv ==
  ASSUME Inv, NEW q \in Requests, NEW written \in SUBSET Memberships,
         NEW rows \in [Memberships -> Roles \cup {"none", "removed"}],
         \A m \in Memberships \ written : rows[m] = role[m],
         Commit(q, written, rows)
  PROVE  Inv' /\ UNCHANGED invitation
<1> USE MembershipAssumption
<1>1. CASE /\ \A m \in written : Exists(m)
           /\ OneOwnerAtCommit(rows)
           /\ role' = rows
           /\ End(q)
           /\ UNCHANGED <<invitation, crossed>>
  <2>1. TypeOK'
    BY <1>1 DEF Inv, TypeOK, Commit, End, Idle, Ops
  <2>2. Consistent'
    BY <1>1 DEF Inv, TypeOK, Consistent, Exists, End, Idle
  <2>3. OneOwner'
    BY <1>1 DEF OneOwner, OneOwnerAtCommit, OwnedBy
  <2> QED BY <1>1, <2>1, <2>2, <2>3 DEF Inv
<1>2. CASE Refuse(q)
  BY <1>2, RefuseInv DEF Commit, Refuse
<1> QED BY <1>1, <1>2 DEF Commit

LEMMA CreateInvitationInv ==
  ASSUME Inv, NEW q \in Requests, NEW i \in Invitations, NEW r \in Assignable,
         CreateInvitation(q, i, r)
  PROVE  Inv' /\ UNCHANGED role
<1> USE MembershipAssumption
<1> DEFINE new == [NoInvitation EXCEPT !.to = req[q].person, !.role = r, !.sent = TRUE]
<1>1. /\ WithRevoked(req[q].target) \in
           [Invitations -> [to : People, role : Assignable, sent : BOOLEAN,
                            accepted : BOOLEAN, revoked : BOOLEAN, expired : BOOLEAN]]
      /\ \A j \in Invitations :
           /\ WithRevoked(req[q].target)[j].accepted = invitation[j].accepted
           /\ WithRevoked(req[q].target)[j].sent = invitation[j].sent
  <2>1. CASE req[q].target = Founding
    BY <2>1 DEF Inv, TypeOK, WithRevoked
  <2>2. CASE req[q].target # Founding
    <3>1. WithRevoked(req[q].target) = [invitation EXCEPT ![req[q].target].revoked = TRUE]
      BY <2>2 DEF WithRevoked
    <3>2. req[q].target \in Invitations
      BY <2>2 DEF Inv, TypeOK
    <3> DEFINE t == req[q].target
               old == invitation[t]
               row == [old EXCEPT !.revoked = TRUE]
               Rows == [to : People, role : Assignable, sent : BOOLEAN, accepted : BOOLEAN,
                        revoked : BOOLEAN, expired : BOOLEAN]
    <3>3. old \in Rows /\ invitation \in [Invitations -> Rows]
      BY <3>2 DEF Inv, TypeOK
    <3>4. WithRevoked(t) = [invitation EXCEPT ![t] = row]
      BY <3>1
    <3>5. t \in Invitations
      BY <3>2
    <3> HIDE DEF old, t
    <3>6. row \in Rows /\ row.accepted = old.accepted /\ row.sent = old.sent
      BY <3>3
    <3> HIDE DEF row, Rows
    <3>7. /\ WithRevoked(t) \in [Invitations -> Rows]
          /\ \A j \in Invitations : WithRevoked(t)[j] = IF j = t THEN row ELSE invitation[j]
      BY <3>3, <3>4, <3>5, <3>6
    <3> QED BY <3>6, <3>7 DEF old, t, Rows
  <2> QED BY <2>1, <2>2
<1>2. new \in [to : People, role : Assignable, sent : BOOLEAN, accepted : BOOLEAN,
               revoked : BOOLEAN, expired : BOOLEAN]
      /\ new.accepted = FALSE /\ new.sent = TRUE
  BY DEF Inv, TypeOK, NoInvitation
<1>3. /\ invitation' = [WithRevoked(req[q].target) EXCEPT ![i] = new]
      /\ ~invitation[i].sent
      /\ UNCHANGED <<role, active, crossed, requests>>
      /\ req' = [req EXCEPT ![q] = Idle]
  BY DEF CreateInvitation, End
<1> HIDE DEF new
<1>4. TypeOK'
  BY <1>1, <1>2, <1>3 DEF Inv, TypeOK, Idle, Ops
<1>5. Consistent'
  <2>1. \A j \in Invitations : Exists(j)' => invitation'[j].accepted
    BY <1>1, <1>2, <1>3 DEF Inv, TypeOK, Consistent, Exists
  <2>2. \A j \in Invitations : invitation'[j].accepted => invitation'[j].sent
    BY <1>1, <1>2, <1>3 DEF Inv, TypeOK, Consistent
  <2> QED BY <1>3, <2>1, <2>2 DEF Inv, TypeOK, Consistent, Idle
<1>6. OneOwner'
  BY <1>3 DEF Inv, OneOwner, OwnedBy
<1> QED BY <1>3, <1>4, <1>5, <1>6 DEF Inv

LEMMA RevokeInvitationInv ==
  ASSUME Inv, NEW q \in Requests, RevokeInvitation(q)
  PROVE  Inv' /\ UNCHANGED role
<1> USE MembershipAssumption
<1>1. req[q].target \in Invitations
  BY DEF Inv, Consistent, RevokeInvitation
<1>2. /\ invitation' = [invitation EXCEPT ![req[q].target].revoked = TRUE]
      /\ UNCHANGED <<role, active, crossed, requests>>
      /\ req' = [req EXCEPT ![q] = Idle]
  BY <1>1 DEF RevokeInvitation, WithRevoked, End
<1>3. TypeOK'
  BY <1>1, <1>2 DEF Inv, TypeOK, Idle, Ops
<1>4. Consistent'
  BY <1>1, <1>2 DEF Inv, TypeOK, Consistent, Exists, Idle
<1>5. OneOwner'
  BY <1>2 DEF Inv, OneOwner, OwnedBy
<1> QED BY <1>2, <1>3, <1>4, <1>5 DEF Inv

(* The invitation that admits was open, so its row was not there before.    *)
LEMMA AcceptInvitationInv ==
  ASSUME Inv, NEW q \in Requests, AcceptInvitation(q)
  PROVE  Inv'
<1> USE MembershipAssumption
<1> DEFINE i == req[q].target
<1>1. CASE /\ StillOpen(i)
           /\ invitation' = [invitation EXCEPT ![i].accepted = TRUE]
           /\ role' = [role EXCEPT ![i] = invitation[i].role]
           /\ crossed' = crossed \cup {x \in {req[q].person} : Inviting(req[q].person) # {}}
           /\ End(q)
  <2>1. i \in Invitations /\ i # Founding
    BY DEF Inv, Consistent, AcceptInvitation
  <2>2. role[i] # "OWNER" /\ invitation[i].role # "OWNER" /\ invitation[i].sent
    BY <1>1, <2>1 DEF Inv, TypeOK, Consistent, Exists, StillOpen, Open
  <2>3. TypeOK'
    BY <1>1, <2>1 DEF Inv, TypeOK, AcceptInvitation, End, Idle, Ops
  <2>4. Consistent'
    BY <1>1, <2>1, <2>2 DEF Inv, TypeOK, Consistent, Exists, End, Idle
  <2>5. OneOwner'
    BY <1>1, <2>1, <2>2 DEF Inv, TypeOK, OneOwner, OwnedBy
  <2> QED BY <2>3, <2>4, <2>5 DEF Inv
<1>2. CASE Refuse(q)
  BY <1>2, RefuseInv DEF AcceptInvitation
<1> QED BY <1>1, <1>2 DEF AcceptInvitation

(* The writes of the members' handlers are commits.                         *)
LEMMA MembersInv ==
  ASSUME Inv, NEW q \in Requests,
         RemoveMember(q) \/ TransferOwnership(q) \/ \E r \in Assignable : UpdateMemberRole(q, r)
  PROVE  Inv' /\ UNCHANGED invitation
<1> DEFINE m == req[q].target
           a == req[q].actor
<1>1. m \in Memberships /\ a \in Memberships
  BY DEF Inv, TypeOK
<1>2. CASE RemoveMember(q)
  <2> DEFINE rows == [role EXCEPT ![m] = "removed"]
  <2>1. /\ rows \in [Memberships -> Roles \cup {"none", "removed"}]
        /\ \A x \in Memberships \ {m} : rows[x] = role[x]
    BY <1>1 DEF Inv, TypeOK
  <2>2. Commit(q, {m}, rows)
    BY <1>2 DEF RemoveMember
  <2> HIDE DEF rows, m
  <2> QED BY <1>1, <2>1, <2>2, CommitInv
<1>3. CASE TransferOwnership(q)
  <2> DEFINE rows == [role EXCEPT ![a] = "ADMIN", ![m] = "OWNER"]
  <2>1. /\ rows \in [Memberships -> Roles \cup {"none", "removed"}]
        /\ \A x \in Memberships \ {a, m} : rows[x] = role[x]
    BY <1>1 DEF Inv, TypeOK
  <2>2. Commit(q, {a, m}, rows)
    BY <1>3 DEF TransferOwnership, Demoted
  <2> HIDE DEF rows, m, a
  <2> QED BY <1>1, <2>1, <2>2, CommitInv
<1>4. ASSUME NEW r \in Assignable, UpdateMemberRole(q, r)
      PROVE  Inv' /\ UNCHANGED invitation
  <2> DEFINE rows == [role EXCEPT ![m] = r]
  <2>1. /\ rows \in [Memberships -> Roles \cup {"none", "removed"}]
        /\ \A x \in Memberships \ {m} : rows[x] = role[x]
    BY <1>1 DEF Inv, TypeOK
  <2>2. Commit(q, {m}, rows)
    BY <1>4 DEF UpdateMemberRole
  <2> HIDE DEF rows, m
  <2> QED BY <1>1, <2>1, <2>2, CommitInv
<1> QED BY <1>2, <1>3, <1>4

LEMMA CheckInv ==
  ASSUME Inv, NEW q \in Requests, FindMember(q) \/ FindInvitation(q) \/ CheckLimit(q)
  PROVE  Inv' /\ UNCHANGED <<role, invitation>>
<1> USE MembershipAssumption
<1>1. CASE Refuse(q) /\ UNCHANGED <<active, requests>>
  BY <1>1, RefuseInv DEF Refuse
<1>2. ASSUME NEW op \in {"join", "vacant"}, op = "join" => req[q].op = "accept", GoTo(q, op),
             UNCHANGED <<role, invitation, active, requests>>, crossed' \subseteq People
      PROVE  Inv' /\ UNCHANGED <<role, invitation>>
  <2>1. TypeOK'
    <3>1. req[q] \in [op : Ops, actor : Memberships, target : Memberships, person : People]
      BY DEF Inv, TypeOK
    <3>2. [req[q] EXCEPT !.op = op]
            \in [op : Ops, actor : Memberships, target : Memberships, person : People]
      BY <3>1 DEF Ops
    <3>3. req' = [req EXCEPT ![q] = [req[q] EXCEPT !.op = op]]
      BY <1>2 DEF Inv, TypeOK, GoTo
    <3>4. req' \in [Requests -> [op : Ops, actor : Memberships, target : Memberships,
                                 person : People]]
      BY <3>2, <3>3 DEF Inv, TypeOK
    <3> QED BY <1>2, <3>4 DEF Inv, TypeOK
  <2>2. Consistent'
    BY <1>2 DEF Inv, TypeOK, Consistent, Exists, GoTo
  <2>3. OneOwner'
    BY <1>2 DEF Inv, OneOwner, OwnedBy
  <2> QED BY <1>2, <2>1, <2>2, <2>3 DEF Inv
<1>3. ASSUME NEW t \in Memberships,
             req' = [req EXCEPT ![q].op = "create", ![q].target = t],
             UNCHANGED <<role, invitation, active, requests>>, crossed' \subseteq People
      PROVE  Inv' /\ UNCHANGED <<role, invitation>>
  <2>1. TypeOK'
    <3>1. req[q] \in [op : Ops, actor : Memberships, target : Memberships, person : People]
      BY DEF Inv, TypeOK
    <3>2. [[req[q] EXCEPT !.op = "create"] EXCEPT !.target = t]
            \in [op : Ops, actor : Memberships, target : Memberships, person : People]
      BY <3>1 DEF Ops
    <3>3. req' = [req EXCEPT ![q] = [[req[q] EXCEPT !.op = "create"] EXCEPT !.target = t]]
      BY <1>3 DEF Inv, TypeOK
    <3>4. req' \in [Requests -> [op : Ops, actor : Memberships, target : Memberships,
                                 person : People]]
      BY <3>2, <3>3 DEF Inv, TypeOK
    <3> QED BY <1>3, <3>4 DEF Inv, TypeOK
  <2>2. Consistent'
    BY <1>3 DEF Inv, TypeOK, Consistent, Exists
  <2>3. OneOwner'
    BY <1>3 DEF Inv, OneOwner, OwnedBy
  <2> QED BY <1>3, <2>1, <2>2, <2>3 DEF Inv
<1>4. CASE FindMember(q)
  BY <1>1, <1>2, <1>4 DEF FindMember, Inv, TypeOK
<1>5. CASE FindInvitation(q)
  BY <1>1, <1>3, <1>5 DEF FindInvitation, OpenFor, Inv, TypeOK
<1>6. CASE CheckLimit(q)
  BY <1>1, <1>2, <1>6 DEF CheckLimit, Inv, TypeOK
<1> QED BY <1>4, <1>5, <1>6

LEMMA OthersInv ==
  ASSUME Inv, UpdateTenantStatus \/ \E i \in Invitations : InvitationExpires(i)
  PROVE  Inv' /\ UNCHANGED role
<1>1. CASE UpdateTenantStatus
  <2>1. TypeOK'
    BY <1>1 DEF Inv, TypeOK, UpdateTenantStatus, Count
  <2>2. Consistent'
    BY <1>1 DEF Inv, Consistent, Exists, UpdateTenantStatus
  <2> QED BY <1>1, <2>1, <2>2 DEF Inv, OneOwner, OwnedBy, UpdateTenantStatus
<1>2. ASSUME NEW i \in Invitations, InvitationExpires(i)
      PROVE  Inv' /\ UNCHANGED role
  <2>1. TypeOK'
    <3>1. /\ invitation' = [invitation EXCEPT ![i] = [invitation[i] EXCEPT !.expired = TRUE]]
          /\ requests' = requests + 1
          /\ UNCHANGED <<role, active, req, crossed>>
      BY <1>2 DEF InvitationExpires, Count
    <3>2. [invitation[i] EXCEPT !.expired = TRUE]
            \in [to : People, role : Assignable, sent : BOOLEAN, accepted : BOOLEAN,
                revoked : BOOLEAN, expired : BOOLEAN]
      BY DEF Inv, TypeOK
    <3> HIDE DEF Memberships, Roles, Assignable
    <3> QED BY <3>1, <3>2 DEF Inv, TypeOK
  <2>2. Consistent'
    BY <1>2 DEF Inv, TypeOK, Consistent, Exists, InvitationExpires
  <2> QED BY <1>2, <2>1, <2>2 DEF Inv, OneOwner, OwnedBy, InvitationExpires
<1> QED BY <1>1, <1>2

LEMMA NextInv == Inv /\ [Next]_vars => Inv'
<1> SUFFICES ASSUME Inv, [Next]_vars PROVE Inv'
  OBVIOUS
<1>1. ASSUME NEW q \in Requests, Begins(q) PROVE Inv'
  BY <1>1, BeginsInv
<1>2. ASSUME NEW q \in Requests, Continues(q) PROVE Inv'
  BY <1>2, CheckInv, CreateInvitationInv, RevokeInvitationInv, AcceptInvitationInv, MembersInv
     DEF Continues
<1>3. CASE UNCHANGED vars
  BY <1>3 DEF Inv, TypeOK, Consistent, Exists, OneOwner, OwnedBy, vars
<1> QED BY <1>1, <1>2, <1>3, OthersInv DEF Next

LEMMA InvAlways == Spec => []Inv
BY InitInv, NextInv, PTL DEF Spec

(* Every reachable state has its type.                                      *)
THEOREM TypeCorrect == Spec => []TypeOK
BY InvAlways, PTL DEF Inv

-----------------------------------------------------------------------------
(* Action properties                                                        *)

(* An invitation that was used or revoked admits nobody.                    *)
LEMMA SpentStep ==
  ASSUME Inv, [Next]_vars, NEW i \in Invitations,
         invitation[i].accepted \/ invitation[i].revoked, ~Exists(i)
  PROVE  role'[i] \notin Roles
<1> USE MembershipAssumption
<1>1. CASE UNCHANGED role
  BY <1>1 DEF Exists
<1>2. ASSUME NEW q \in Requests, AcceptInvitation(q) PROVE role'[i] \notin Roles
  BY <1>2 DEF AcceptInvitation, Refuse, StillOpen, Open, Exists, Inv, TypeOK
<1>3. ASSUME NEW q \in Requests,
             RemoveMember(q) \/ TransferOwnership(q)
               \/ \E r \in Assignable : UpdateMemberRole(q, r)
      PROVE  role'[i] \notin Roles
  BY <1>3 DEF RemoveMember, TransferOwnership, UpdateMemberRole, Commit, Refuse, Demoted, Exists,
              Inv, TypeOK
<1>4. ASSUME NEW q \in Requests, Begins(q) PROVE UNCHANGED role
  BY <1>4, BeginsInv
<1>5. ASSUME NEW q \in Requests, FindMember(q) \/ FindInvitation(q) \/ CheckLimit(q) PROVE UNCHANGED role
  BY <1>5, CheckInv
<1>6. ASSUME NEW q \in Requests,
             RevokeInvitation(q)
               \/ \E j \in Invitations, r \in Assignable : CreateInvitation(q, j, r)
      PROVE  UNCHANGED role
  BY <1>6 DEF RevokeInvitation, CreateInvitation
<1>7. CASE UNCHANGED vars
  BY <1>7, <1>1 DEF vars
<1> QED BY <1>1, <1>2, <1>3, <1>4, <1>5, <1>6, <1>7, OthersInv DEF Next, Continues

(* acceptInvitation's guarded consumption                                   *)
THEOREM SpentAdmitsNobody == Spec => SpentInvitationAdmitsNobody
<1>1. Inv /\ [Next]_vars =>
        [\A i \in Invitations :
           (invitation[i].accepted \/ invitation[i].revoked) /\ ~Exists(i) =>
             role'[i] \notin Roles]_vars
  BY SpentStep
<1> QED BY <1>1, InvAlways, PTL DEF Spec, SpentInvitationAdmitsNobody

(* Who becomes the owner was named in a transfer by the owner.              *)
LEMMA OwnershipStep ==
  ASSUME Inv, [Next]_vars, NEW m \in Memberships, role[m] # "OWNER", role'[m] = "OWNER"
  PROVE  \E q \in Requests : /\ req[q].op = "transfer" /\ req[q].target = m
                             /\ role[req[q].actor] = "OWNER"
<1> USE MembershipAssumption
<1>1. UNCHANGED role => FALSE
  OBVIOUS
<1>2. ASSUME NEW q \in Requests, AcceptInvitation(q) PROVE FALSE
  BY <1>2, <1>1 DEF AcceptInvitation, Refuse, Inv, TypeOK, Consistent
<1>3. ASSUME NEW q \in Requests, RemoveMember(q) PROVE FALSE
  BY <1>3, <1>1 DEF RemoveMember, Commit, Refuse, Inv, TypeOK
<1>4. ASSUME NEW q \in Requests, NEW r \in Assignable, UpdateMemberRole(q, r) PROVE FALSE
  BY <1>4, <1>1 DEF UpdateMemberRole, Commit, Refuse, Inv, TypeOK
<1>5. ASSUME NEW q \in Requests, TransferOwnership(q)
      PROVE  /\ req[q].op = "transfer" /\ req[q].target = m
             /\ role[req[q].actor] = "OWNER"
  <2> DEFINE a == req[q].actor
             t == req[q].target
  <2>1. a \in Memberships /\ t \in Memberships
    BY DEF Inv, TypeOK
  <2>2. /\ role' = [role EXCEPT ![a] = "ADMIN", ![t] = "OWNER"]
        /\ OneOwnerAtCommit(role')
    BY <1>5, <1>1 DEF TransferOwnership, Commit, Refuse, Demoted
  <2>3. t = m
    BY <2>1, <2>2 DEF Inv, TypeOK
  <2>4. PICK o \in Memberships : role[o] = "OWNER"
    BY DEF Inv, OneOwner, OwnedBy
  <2>5. role'[o] # "OWNER"
    BY <2>2, <2>3, <2>4 DEF OneOwnerAtCommit, OwnedBy
  <2>6. o = a
    BY <2>1, <2>2, <2>4, <2>5 DEF Inv, TypeOK
  <2> QED BY <1>5, <2>3, <2>4, <2>6 DEF TransferOwnership
<1>6. ASSUME NEW q \in Requests, Begins(q) PROVE FALSE
  BY <1>6, <1>1, BeginsInv
<1>7. ASSUME NEW q \in Requests, FindMember(q) \/ FindInvitation(q) \/ CheckLimit(q) PROVE FALSE
  BY <1>7, <1>1, CheckInv
<1>8. ASSUME NEW q \in Requests,
             RevokeInvitation(q)
               \/ \E j \in Invitations, r \in Assignable : CreateInvitation(q, j, r)
      PROVE  FALSE
  BY <1>8, <1>1 DEF RevokeInvitation, CreateInvitation
<1>9. CASE UNCHANGED vars
  BY <1>9, <1>1 DEF vars
<1> QED BY <1>1, <1>2, <1>3, <1>4, <1>5, <1>6, <1>7, <1>8, <1>9, OthersInv DEF Next, Continues

(* transferOwnership, the only way to another owner                         *)
THEOREM OwnershipPasses == Spec => OwnershipPassesFromOwner
<1>1. Inv /\ [Next]_vars =>
        [\A m \in Memberships :
           role[m] # "OWNER" /\ role'[m] = "OWNER" =>
             \E q \in Requests : /\ req[q].op = "transfer" /\ req[q].target = m
                                 /\ role[req[q].actor] = "OWNER"]_vars
  BY OwnershipStep
<1> QED BY <1>1, InvAlways, PTL DEF Spec, OwnershipPassesFromOwner
-----------------------------------------------------------------------------
(* One way in                                                               *)

(* Whoever accepts an invitation is the person it was sent to.              *)
AcceptsOwn ==
  \A q \in Requests : req[q].op \in {"accept", "join"} =>
    /\ invitation[req[q].target].sent
    /\ invitation[req[q].target].to = req[q].person

(* Expired or not, an invitation that is open is the person's only one, and *)
(* the person is not a member; whoever is inviting that person is alone and *)
(* has found the open one, if there is one, before creating another.  All   *)
(* unless they crossed.                                                     *)
OpenTo(i, p) == Open(i) /\ invitation[i].to = p

OneOpen ==
  \A p \in People \ crossed : \A i \in Invitations : OpenTo(i, p) =>
    /\ ~Belongs(p)
    /\ \A j \in Invitations : OpenTo(j, p) => j = i

InvitingAlone ==
  \A p \in People \ crossed : \A q \in Inviting(p) :
    /\ ~Belongs(p)
    /\ req[q].op = "create" => \A i \in Invitations : OpenTo(i, p) => i = req[q].target
    /\ Inviting(p) = {q}

Ways == AcceptsOwn /\ OneOpen /\ InvitingAlone

(* A step that adds no member, opens no invitation and creates none keeps   *)
(* what is said of them.                                                    *)
LEMMA WaysFrame ==
  ASSUME Inv, Ways, crossed \subseteq crossed',
         \A m \in Memberships : Exists(m)' => Exists(m),
         \A i \in Invitations : /\ Open(i)' => Open(i)
                                /\ invitation'[i].to = invitation[i].to,
         \A q \in Requests : req'[q].op \in {"vacant", "create"} => req'[q] = req[q]
  PROVE  OneOpen' /\ InvitingAlone'
<1>1. \A p \in People : Belongs(p)' => Belongs(p)
  BY DEF Belongs, Members, PersonOf
<1>2. \A p \in People, i \in Invitations : OpenTo(i, p)' => OpenTo(i, p)
  BY DEF OpenTo
<1>3. \A p \in People : /\ Inviting(p)' \subseteq Inviting(p)
                        /\ \A q \in Inviting(p)' : req'[q] = req[q]
  BY DEF Inviting
<1>4. OneOpen'
  BY <1>1, <1>2 DEF Ways, OneOpen
<1>5. InvitingAlone'
  BY <1>1, <1>2, <1>3 DEF Ways, InvitingAlone
<1> QED BY <1>4, <1>5

LEMMA BeginsWays ==
  ASSUME Inv, Ways, NEW q \in Requests, Begins(q)
  PROVE  Ways'
<1> USE MembershipAssumption
<1>1. /\ UNCHANGED <<role, invitation, active, crossed>>
      /\ \E op \in Ops \ {"vacant", "create"}, a, t \in Memberships, p \in People :
           /\ req' = [req EXCEPT ![q] = [op |-> op, actor |-> a, target |-> t, person |-> p]]
           /\ op \in {"accept", "join"} => invitation[t].sent /\ invitation[t].to = p
  BY DEF Inv, TypeOK, Begins, BeginInvite, BeginRevoke, BeginAccept, BeginSetRole, BeginRemove,
         BeginTransfer, Begin, Count, Ops, Usable, Open
<1>2. AcceptsOwn'
  BY <1>1 DEF Inv, TypeOK, Ways, AcceptsOwn
<1>3. \A x \in Requests : req'[x].op \in {"vacant", "create"} => req'[x] = req[x]
  BY <1>1 DEF Inv, TypeOK
<1> QED BY <1>1, <1>2, <1>3, WaysFrame DEF Ways, Exists, Open

LEMMA EndWays ==
  ASSUME Inv, Ways, NEW q \in Requests, End(q), crossed \subseteq crossed',
         \A m \in Memberships : Exists(m)' => Exists(m),
         \A i \in Invitations : /\ Open(i)' => Open(i)
                                /\ invitation'[i].to = invitation[i].to
                                /\ invitation'[i].sent = invitation[i].sent
  PROVE  Ways'
<1>1. \A x \in Requests : x # q => req'[x] = req[x]
  BY DEF Inv, TypeOK, End
<1>2. req'[q].op = "none"
  BY DEF Inv, TypeOK, End, Idle
<1>3. AcceptsOwn'
  BY <1>1, <1>2 DEF Inv, Consistent, Ways, AcceptsOwn
<1> QED BY <1>1, <1>2, <1>3, WaysFrame DEF Ways

LEMMA RefuseWays ==
  ASSUME Inv, Ways, NEW q \in Requests, Refuse(q)
  PROVE  Ways'
BY EndWays DEF Refuse, Exists, Open

(* Whoever is found to be no member, by one request alone, may be invited.  *)
LEMMA FindMemberWays ==
  ASSUME Inv, Ways, NEW q \in Requests, FindMember(q)
  PROVE  Ways'
<1> USE MembershipAssumption
<1>0. PICK p \in People : p = req[q].person
  BY DEF Inv, TypeOK
<1>1. CASE Refuse(q)
  BY <1>1, RefuseWays
<1>2. CASE /\ ~Belongs(p)
           /\ GoTo(q, "vacant")
           /\ crossed' = crossed \cup {x \in {p} : Inviting(p) # {}}
           /\ UNCHANGED <<role, invitation>>
  <2>1. /\ \A x \in Requests : x # q => req'[x] = req[x]
        /\ req'[q].op = "vacant" /\ req'[q].person = p
    BY <1>0, <1>2 DEF Inv, TypeOK, GoTo
  <2>2. AcceptsOwn'
    BY <1>2, <2>1 DEF Ways, AcceptsOwn
  <2>3. \A x \in People : /\ Belongs(x)' = Belongs(x)
                          /\ \A i \in Invitations : OpenTo(i, x)' = OpenTo(i, x)
    BY <1>2 DEF Belongs, Members, PersonOf, Exists, OpenTo, Open
  <2>4. OneOpen'
    BY <1>2, <2>3 DEF Ways, OneOpen
  <2>5. InvitingAlone'
    <3> SUFFICES ASSUME NEW x \in People, x \notin crossed', NEW z \in Inviting(x)'
                 PROVE  /\ ~Belongs(x)
                        /\ req'[z].op = "create" =>
                             \A i \in Invitations : OpenTo(i, x) => i = req'[z].target
                        /\ Inviting(x)' = {z}
      BY <2>3 DEF InvitingAlone
    <3>1. CASE x = p
      <4>1. Inviting(p) = {}
        BY <1>2, <3>1
      <4>2. Inviting(p)' = {q} /\ z = q
        BY <2>1, <3>1, <4>1 DEF Inviting
      <4> QED BY <1>2, <2>1, <3>1, <4>2
    <3>2. CASE x # p
      <4>1. /\ Inviting(x)' = Inviting(x) /\ z # q /\ z \in Requests
            /\ x \notin crossed /\ req[q].op = "invite"
        BY <1>0, <1>2, <2>1, <3>2 DEF Inviting, FindMember
      <4> QED BY <2>1, <4>1 DEF Ways, InvitingAlone
    <3> QED BY <3>1, <3>2
  <2> QED BY <2>2, <2>4, <2>5 DEF Ways
<1> QED BY <1>0, <1>1, <1>2 DEF FindMember, Vacant

(* Whoever may be invited has no open invitation but an expired one, which  *)
(* the request keeps to revoke it.                                          *)
LEMMA FindInvitationWays ==
  ASSUME Inv, Ways, NEW q \in Requests, FindInvitation(q)
  PROVE  Ways'
<1> USE MembershipAssumption
<1>0. PICK p \in People : p = req[q].person
  BY DEF Inv, TypeOK
<1> DEFINE found == OpenFor(p)
<1>1. CASE Refuse(q)
  BY <1>1, RefuseWays
<1>2. ASSUME NEW t \in IF found = {} THEN {Founding} ELSE {i \in found : ~Usable(i)},
             req' = [req EXCEPT ![q].op = "create", ![q].target = t],
             UNCHANGED <<role, invitation, crossed>>
      PROVE  Ways'
  <2>1. /\ \A x \in Requests : x # q => req'[x] = req[x]
        /\ req'[q].op = "create" /\ req'[q].target = t /\ req'[q].person = p
        /\ req[q].op = "vacant"
    BY <1>0, <1>2 DEF Inv, TypeOK, FindInvitation
  <2>2. AcceptsOwn'
    BY <1>2, <2>1 DEF Ways, AcceptsOwn
  <2>3. \A x \in People : /\ Belongs(x)' = Belongs(x)
                          /\ \A i \in Invitations : OpenTo(i, x)' = OpenTo(i, x)
    BY <1>2 DEF Belongs, Members, PersonOf, Exists, OpenTo, Open
  <2>4. OneOpen'
    BY <1>2, <2>3 DEF Ways, OneOpen
  <2>5. InvitingAlone'
    <3> SUFFICES ASSUME NEW x \in People, x \notin crossed, NEW z \in Inviting(x)'
                 PROVE  /\ ~Belongs(x)
                        /\ req'[z].op = "create" =>
                             \A i \in Invitations : OpenTo(i, x) => i = req'[z].target
                        /\ Inviting(x)' = {z}
      BY <1>2, <2>3 DEF InvitingAlone
    <3>1. /\ Inviting(x)' = Inviting(x) /\ z \in Inviting(x)
      BY <1>0, <2>1 DEF Inviting
    <3>2. ~Belongs(x) /\ Inviting(x) = {z}
      BY <3>1 DEF Ways, InvitingAlone
    <3>3. CASE z = q
      <4>1. x = p
        BY <1>0, <3>1, <3>3 DEF Inviting
      <4>2. ASSUME NEW i \in Invitations, OpenTo(i, p)
            PROVE  i = t
        <5>1. i \in found
          BY <4>2 DEF OpenFor, OpenTo
        <5>2. t \in Invitations /\ OpenTo(t, p)
          BY <1>2, <5>1 DEF OpenFor, OpenTo
        <5> QED BY <4>1, <4>2, <5>2 DEF Ways, OneOpen
      <4> QED BY <2>1, <3>1, <3>2, <3>3, <4>1, <4>2
    <3>4. CASE z # q
      BY <2>1, <3>1, <3>2, <3>4 DEF Ways, InvitingAlone, Inviting
    <3> QED BY <3>3, <3>4
  <2> QED BY <2>2, <2>4, <2>5 DEF Ways
<1> QED BY <1>0, <1>1, <1>2 DEF FindInvitation

(* The new invitation is the only open one: the one found before is revoked.*)
LEMMA CreateWays ==
  ASSUME Inv, Ways, NEW q \in Requests, NEW i \in Invitations, NEW r \in Assignable,
         CreateInvitation(q, i, r)
  PROVE  Ways'
<1> USE MembershipAssumption
<1>0. PICK p \in People : p = req[q].person
  BY DEF Inv, TypeOK
<1> DEFINE t == req[q].target
           rows == WithRevoked(t)
<1>1. /\ rows \in [Invitations -> [to : People, role : Assignable, sent : BOOLEAN,
                                   accepted : BOOLEAN, revoked : BOOLEAN, expired : BOOLEAN]]
      /\ \A j \in Invitations : /\ rows[j].to = invitation[j].to
                                /\ rows[j].sent = invitation[j].sent
                                /\ rows[j].accepted = invitation[j].accepted
                                /\ invitation[j].revoked => rows[j].revoked
                                /\ j = t => rows[j].revoked
  <2>1. CASE t = Founding
    BY <2>1 DEF Inv, TypeOK, WithRevoked
  <2>2. CASE t # Founding
    <3>1. t \in Invitations
      BY <2>2 DEF Inv, TypeOK
    <3> DEFINE old == invitation[t]
               row == [old EXCEPT !.revoked = TRUE]
               Rows == [to : People, role : Assignable, sent : BOOLEAN, accepted : BOOLEAN,
                        revoked : BOOLEAN, expired : BOOLEAN]
    <3>2. rows = [invitation EXCEPT ![t] = row]
      BY <2>2, <3>1 DEF WithRevoked, Inv, TypeOK
    <3>3. old \in Rows /\ invitation \in [Invitations -> Rows]
      BY <3>1 DEF Inv, TypeOK
    <3> HIDE DEF old, t, rows
    <3>4. /\ row \in Rows /\ row.to = old.to /\ row.sent = old.sent
          /\ row.accepted = old.accepted /\ row.revoked
      BY <3>3
    <3> HIDE DEF row, Rows
    <3>5. /\ rows \in [Invitations -> Rows]
          /\ \A j \in Invitations : rows[j] = IF j = t THEN row ELSE invitation[j]
      BY <3>1, <3>2, <3>3, <3>4
    <3> QED BY <3>4, <3>5 DEF old, Rows
  <2> QED BY <2>1, <2>2
<1>2. /\ req[q].op = "create" /\ ~invitation[i].sent
      /\ End(q)
      /\ UNCHANGED <<role, crossed>>
  BY DEF CreateInvitation
<1> DEFINE new == [NoInvitation EXCEPT !.to = p, !.role = r, !.sent = TRUE]
<1>3. invitation' = [rows EXCEPT ![i] = new] /\ new.to = p /\ new.sent
  BY <1>0 DEF CreateInvitation, NoInvitation, Inv, TypeOK
<1>4. invitation'[i].to = p /\ invitation'[i].sent
  <2> HIDE DEF new, rows
  <2> QED BY <1>1, <1>3
<1>5. \A j \in Invitations : j # i => invitation'[j] = rows[j]
  <2> HIDE DEF new, rows
  <2> QED BY <1>1, <1>3
<1> HIDE DEF new, rows
<1>6. \A j \in Invitations : j # i /\ Open(j)' => Open(j) /\ j # t
  BY <1>1, <1>5 DEF Open
<1>7. \A x \in People : Belongs(x)' = Belongs(x)
  <2>1. ~Exists(i) /\ i # Founding
    BY <1>2 DEF Inv, Consistent
  <2>2. \A m \in Members : PersonOf(m)' = PersonOf(m)
    BY <1>1, <1>5, <2>1 DEF Members, PersonOf
  <2>3. Members' = Members
    BY <1>2 DEF Members, Exists
  <2> QED BY <2>2, <2>3 DEF Belongs
<1>8. /\ \A x \in Requests : x # q => req'[x] = req[x]
      /\ req'[q].op = "none"
  BY <1>2 DEF End, Idle, Inv, TypeOK
<1>9. AcceptsOwn'
  <2> SUFFICES ASSUME NEW x \in Requests, req'[x].op \in {"accept", "join"}
               PROVE  /\ invitation'[req'[x].target].sent
                      /\ invitation'[req'[x].target].to = req'[x].person
    BY DEF AcceptsOwn
  <2>1. /\ req'[x] = req[x] /\ req[x].target \in Invitations
        /\ invitation[req[x].target].sent
        /\ invitation[req[x].target].to = req[x].person
    BY <1>8 DEF Ways, AcceptsOwn, Inv, Consistent
  <2> QED BY <1>1, <1>2, <1>5, <2>1
<1>10. \A j \in Invitations : OpenTo(j, p)' /\ j # i => OpenTo(j, p) /\ j # t
  BY <1>1, <1>5, <1>6 DEF OpenTo
<1>11. \A x \in People, j \in Invitations : x # p /\ OpenTo(j, x)' => OpenTo(j, x)
  BY <1>1, <1>4, <1>5, <1>6 DEF OpenTo
<1>12. q \in Inviting(p)
  BY <1>0, <1>2 DEF Inviting
<1>13. OneOpen'
  <2> SUFFICES ASSUME NEW x \in People, x \notin crossed, NEW j \in Invitations, OpenTo(j, x)'
               PROVE  ~Belongs(x) /\ \A k \in Invitations : OpenTo(k, x)' => k = j
    BY <1>2, <1>7 DEF OneOpen
  <2>1. CASE x = p
    <3>1. ~Belongs(p) /\ \A k \in Invitations : OpenTo(k, p) => k = t
      BY <1>2, <1>12, <2>1 DEF Ways, InvitingAlone
    <3> QED BY <1>10, <2>1, <3>1
  <2>2. CASE x # p
    BY <1>11, <2>2 DEF Ways, OneOpen
  <2> QED BY <2>1, <2>2
<1>14. InvitingAlone'
  <2> SUFFICES ASSUME NEW x \in People, x \notin crossed, NEW z \in Inviting(x)'
               PROVE  /\ ~Belongs(x)
                      /\ req'[z].op = "create" =>
                           \A k \in Invitations : OpenTo(k, x)' => k = req'[z].target
                      /\ Inviting(x)' = {z}
    BY <1>2, <1>7 DEF InvitingAlone
  <2>1. z # q /\ req'[z] = req[z] /\ z \in Inviting(x)
    BY <1>8 DEF Inviting
  <2>2. /\ ~Belongs(x)
        /\ req[z].op = "create" => \A k \in Invitations : OpenTo(k, x) => k = req[z].target
        /\ Inviting(x) = {z}
    BY <2>1 DEF Ways, InvitingAlone
  <2>3. x # p
    BY <1>12, <2>1, <2>2
  <2>4. Inviting(x)' = {z}
    BY <1>8, <2>1, <2>2 DEF Inviting
  <2> QED BY <1>11, <2>1, <2>2, <2>3, <2>4
<1> QED BY <1>9, <1>13, <1>14 DEF Ways

(* The invitation that is used was the only open one of its person.         *)
LEMMA AcceptWays ==
  ASSUME Inv, Ways, NEW q \in Requests, AcceptInvitation(q)
  PROVE  Ways'
<1> USE MembershipAssumption
<1>0. PICK p \in People : p = req[q].person
  BY DEF Inv, TypeOK
<1> DEFINE i == req[q].target
<1>1. CASE Refuse(q)
  BY <1>1, RefuseWays
<1>2. CASE /\ StillOpen(i)
           /\ invitation' = [invitation EXCEPT ![i].accepted = TRUE]
           /\ role' = [role EXCEPT ![i] = invitation[i].role]
           /\ crossed' = crossed \cup {x \in {p} : Inviting(p) # {}}
           /\ End(q)
  <2>1. /\ i \in Invitations /\ i # Founding
        /\ invitation[i].to = p /\ Open(i)
    BY <1>0, <1>2 DEF Inv, TypeOK, Consistent, AcceptInvitation, Ways, AcceptsOwn, StillOpen
  <2>2. \A j \in Invitations : /\ invitation'[j].to = invitation[j].to
                               /\ invitation'[j].sent = invitation[j].sent
                               /\ Open(j)' => Open(j) /\ j # i
    BY <1>2, <2>1 DEF Inv, TypeOK, Open
  <2>3. /\ \A x \in Requests : x # q => req'[x] = req[x]
        /\ req'[q].op = "none"
    BY <1>2 DEF End, Idle, Inv, TypeOK
  <2>4. \A x \in People : x # p /\ Belongs(x)' => Belongs(x)
    <3>1. \A m \in Memberships : m # i /\ Exists(m)' => Exists(m)
      BY <1>2, <2>1 DEF Inv, TypeOK, Exists
    <3>2. \A m \in Memberships : PersonOf(m)' = PersonOf(m)
      BY <2>2 DEF PersonOf
    <3>3. PersonOf(i) = p
      BY <2>1 DEF PersonOf
    <3> QED BY <3>1, <3>2, <3>3 DEF Belongs, Members
  <2>5. AcceptsOwn'
    BY <2>2, <2>3 DEF Ways, AcceptsOwn, Inv, Consistent
  <2>6. \A x \in People, j \in Invitations : OpenTo(j, x)' => OpenTo(j, x) /\ j # i
    BY <2>2 DEF OpenTo
  <2>7. OneOpen'
    <3> SUFFICES ASSUME NEW x \in People, x \notin crossed', NEW j \in Invitations,
                        OpenTo(j, x)'
                 PROVE  ~Belongs(x)' /\ \A k \in Invitations : OpenTo(k, x)' => k = j
      BY DEF OneOpen
    <3>1. OpenTo(j, x) /\ j # i /\ x \notin crossed
      BY <1>2, <2>6
    <3>2. x # p
      BY <2>1, <3>1 DEF Ways, OneOpen, OpenTo
    <3> QED BY <2>4, <2>6, <3>1, <3>2 DEF Ways, OneOpen
  <2>8. InvitingAlone'
    <3> SUFFICES ASSUME NEW x \in People, x \notin crossed', NEW z \in Inviting(x)'
                 PROVE  /\ ~Belongs(x)'
                        /\ req'[z].op = "create" =>
                             \A k \in Invitations : OpenTo(k, x)' => k = req'[z].target
                        /\ Inviting(x)' = {z}
      BY DEF InvitingAlone
    <3>1. z # q /\ req'[z] = req[z] /\ z \in Inviting(x) /\ x \notin crossed
      BY <1>2, <2>3 DEF Inviting
    <3>2. x # p
      BY <1>2, <3>1
    <3>3. /\ ~Belongs(x)
          /\ req[z].op = "create" =>
               \A k \in Invitations : OpenTo(k, x) => k = req[z].target
          /\ Inviting(x) = {z}
      BY <3>1 DEF Ways, InvitingAlone
    <3>4. Inviting(x)' = {z}
      BY <2>3, <3>1, <3>3 DEF Inviting
    <3> QED BY <2>4, <2>6, <3>1, <3>2, <3>3, <3>4
  <2> QED BY <2>5, <2>7, <2>8 DEF Ways
<1> QED BY <1>0, <1>1, <1>2 DEF AcceptInvitation

(* Removals and role changes make no member.                                *)
LEMMA MembersWays ==
  ASSUME Inv, Ways, NEW q \in Requests,
         RemoveMember(q) \/ TransferOwnership(q) \/ \E r \in Assignable : UpdateMemberRole(q, r)
  PROVE  Ways'
<1>1. CASE Refuse(q)
  BY <1>1, RefuseWays
<1>2. CASE ~Refuse(q)
  <2>1. End(q) /\ UNCHANGED <<invitation, crossed>>
    BY <1>2 DEF RemoveMember, TransferOwnership, UpdateMemberRole, Commit
  <2>2. \A m \in Memberships : Exists(m)' => Exists(m)
    BY <1>2 DEF RemoveMember, TransferOwnership, UpdateMemberRole, Commit, Exists, Demoted,
                Inv, TypeOK
  <2> QED BY <2>1, <2>2, EndWays DEF Open
<1> QED BY <1>1, <1>2

LEMMA WaysStep == Inv /\ Ways /\ [Next]_vars => Ways'
<1> SUFFICES ASSUME Inv, Ways, [Next]_vars PROVE Ways'
  OBVIOUS
<1> USE MembershipAssumption
<1>1. ASSUME NEW q \in Requests, Begins(q) PROVE Ways'
  BY <1>1, BeginsWays
<1>2. ASSUME NEW q \in Requests, FindMember(q) \/ FindInvitation(q) PROVE Ways'
  BY <1>2, FindMemberWays, FindInvitationWays
<1>3. ASSUME NEW q \in Requests, NEW i \in Invitations, NEW r \in Assignable,
             CreateInvitation(q, i, r)
      PROVE  Ways'
  BY <1>3, CreateWays
<1>4. ASSUME NEW q \in Requests, RevokeInvitation(q) PROVE Ways'
  <2>1. req[q].target \in Invitations
    BY <1>4 DEF Inv, Consistent, RevokeInvitation
  <2>2. /\ invitation' = [invitation EXCEPT ![req[q].target].revoked = TRUE]
        /\ UNCHANGED <<role, crossed>> /\ End(q)
    BY <1>4, <2>1 DEF RevokeInvitation, WithRevoked
  <2>3. \A i \in Invitations : /\ Open(i)' => Open(i)
                               /\ invitation'[i].to = invitation[i].to
                               /\ invitation'[i].sent = invitation[i].sent
    BY <2>1, <2>2 DEF Inv, TypeOK, Open
  <2> QED BY <2>2, <2>3, EndWays DEF Exists
<1>5. ASSUME NEW q \in Requests, CheckLimit(q) PROVE Ways'
  <2>1. CASE Refuse(q)
    BY <2>1, RefuseWays
  <2>2. CASE GoTo(q, "join") /\ UNCHANGED <<role, invitation, crossed>>
    <3>1. /\ \A x \in Requests : x # q => req'[x] = req[x]
          /\ req'[q].op = "join" /\ req[q].op = "accept"
          /\ req'[q].target = req[q].target /\ req'[q].person = req[q].person
      BY <1>5, <2>2 DEF GoTo, CheckLimit, Inv, TypeOK
    <3>2. AcceptsOwn'
      BY <2>2, <3>1 DEF Ways, AcceptsOwn
    <3> QED BY <2>2, <3>1, <3>2, WaysFrame DEF Ways, Exists, Open
  <2> QED BY <1>5, <2>1, <2>2 DEF CheckLimit
<1>6. ASSUME NEW q \in Requests, AcceptInvitation(q) PROVE Ways'
  BY <1>6, AcceptWays
<1>7. ASSUME NEW q \in Requests,
             RemoveMember(q) \/ TransferOwnership(q)
               \/ \E r \in Assignable : UpdateMemberRole(q, r)
      PROVE  Ways'
  BY <1>7, MembersWays
<1>8. CASE UpdateTenantStatus
  BY <1>8, WaysFrame DEF UpdateTenantStatus, Ways, AcceptsOwn, Exists, Open
<1>9. ASSUME NEW i \in Invitations, InvitationExpires(i) PROVE Ways'
  <2>1. /\ invitation' = [invitation EXCEPT ![i].expired = TRUE]
        /\ UNCHANGED <<role, req, crossed>>
    BY <1>9 DEF InvitationExpires
  <2>2. \A j \in Invitations : /\ Open(j)' => Open(j)
                               /\ invitation'[j].to = invitation[j].to
                               /\ invitation'[j].sent = invitation[j].sent
    BY <2>1 DEF Inv, TypeOK, Open
  <2>3. AcceptsOwn'
    BY <2>1, <2>2 DEF Ways, AcceptsOwn, Inv, Consistent
  <2> QED BY <2>1, <2>2, <2>3, WaysFrame DEF Ways, Exists
<1>10. CASE UNCHANGED vars
  BY <1>10, WaysFrame DEF vars, Ways, AcceptsOwn, Exists, Open
<1> QED
  BY <1>1, <1>2, <1>3, <1>4, <1>5, <1>6, <1>7, <1>8, <1>9, <1>10 DEF Next, Continues

(* A person has one way in at most, unless requests about that person       *)
(* crossed (inviteMember, acceptInvitation).                                *)
THEOREM OneWayInAlways == Spec => []OneWayIn
<1>1. Init => Ways
  BY DEF Init, Ways, AcceptsOwn, OneOpen, InvitingAlone, Inviting, OpenTo, Open, NoInvitation,
         Idle
<1>2. Inv /\ Ways => OneWayIn
  <2> SUFFICES ASSUME Inv, Ways, NEW i \in Invitations, Usable(i),
                      invitation[i].to \notin crossed
               PROVE  /\ ~Belongs(invitation[i].to)
                      /\ \A j \in Invitations :
                           Usable(j) /\ invitation[j].to = invitation[i].to => j = i
    BY DEF OneWayIn
  <2>1. invitation[i].to \in People
    BY DEF Inv, TypeOK
  <2> QED BY <2>1 DEF Ways, OneOpen, OpenTo, Usable
<1> QED BY <1>1, <1>2, InvAlways, WaysStep, PTL DEF Spec
=============================================================================
