----------------------------- MODULE Membership ----------------------------
(***************************************************************************)
(* Who belongs to a tenant and who owns it: members, invitations and the   *)
(* transfer of ownership.                                                  *)
(*                                                                         *)
(* A handler of MembersService reads, and later writes by id, at READ      *)
(* COMMITTED.  Rows lock when they are written, so the writes of one       *)
(* transaction are one step here; what was read before may be stale by     *)
(* then.  The guards read the actor's role with the handler's first read.  *)
(* A membership row is named after the invitation that made it.            *)
(***************************************************************************)
EXTENDS Integers, FiniteSets

CONSTANTS
  People,       \* users, by e-mail address
  Founder,      \* who registered the tenant
  Founding,     \* the membership that registration made
  Invitations,
  Requests,     \* requests in flight at once
  UserLimit,    \* plan.limits.users
  MaxRequests   \* bound: requests, suspensions and expirations

ASSUME MembershipAssumption ==
  /\ Founder \in People
  /\ Founding \notin Invitations
  /\ UserLimit \in Nat \ {0} /\ MaxRequests \in Nat

Memberships == Invitations \cup {Founding}
Assignable == {"ADMIN", "VIEWER"}   \* OPERATOR is to these handlers a VIEWER
Roles == Assignable \cup {"OWNER"}

VARIABLES
  role,        \* [Memberships -> role, or that the row is not there]
  invitation,  \* [Invitations -> row]
  active,      \* tenant.status = ACTIVE
  req,         \* [Requests -> local state of a handler]
  crossed,     \* history: people whose invitations have crossed
  requests     \* what was done so far

vars == <<role, invitation, active, req, crossed, requests>>

-----------------------------------------------------------------------------
(* Types *)

NoInvitation == [to |-> Founder, role |-> "VIEWER", sent |-> FALSE, accepted |-> FALSE,
                 revoked |-> FALSE, expired |-> FALSE]
Idle == [op |-> "none", actor |-> Founding, target |-> Founding, person |-> Founder]

Ops == {"none", "invite", "vacant", "create", "revoke", "setRole", "remove", "transfer",
        "accept", "join"}

TypeOK ==
  /\ role \in [Memberships -> Roles \cup {"none", "removed"}]
  /\ invitation \in [Invitations -> [to : People, role : Assignable, sent : BOOLEAN,
                                     accepted : BOOLEAN, revoked : BOOLEAN, expired : BOOLEAN]]
  /\ active \in BOOLEAN
  /\ req \in [Requests -> [op : Ops, actor : Memberships, target : Memberships,
                           person : People]]
  /\ crossed \subseteq People
  /\ requests \in Nat

Init ==
  /\ role = [m \in Memberships |-> IF m = Founding THEN "OWNER" ELSE "none"]
  /\ invitation = [i \in Invitations |-> NoInvitation]
  /\ active = TRUE
  /\ req = [q \in Requests |-> Idle]
  /\ crossed = {}
  /\ requests = 0

-----------------------------------------------------------------------------
(* The tables *)

Exists(m) == role[m] \in Roles
Members == {m \in Memberships : Exists(m)}
PersonOf(m) == IF m = Founding THEN Founder ELSE invitation[m].to
Belongs(p) == \E m \in Members : PersonOf(m) = p

(* Neither accepted nor revoked: findFirst looks at these.                  *)
Open(i) == invitation[i].sent /\ ~invitation[i].accepted /\ ~invitation[i].revoked
Usable(i) == Open(i) /\ ~invitation[i].expired

OwnedBy(o, rows) == \A m \in Memberships : rows[m] = "OWNER" <=> m = o

(* The unique index and, at commit, the constraint trigger.                 *)
OneOwnerAtCommit(rows) == \E o \in Memberships : OwnedBy(o, rows)

WithinUserLimit == Cardinality(Members) < UserLimit

-----------------------------------------------------------------------------
(* Requests *)

Count == requests < MaxRequests /\ requests' = requests + 1

Begin(q, op, actor, target, person) ==
  /\ req[q].op = "none"
  /\ req' = [req EXCEPT ![q] = [op |-> op, actor |-> actor, target |-> target,
                                 person |-> person]]
  /\ Count

(* TenantGuard and RolesGuard                                               *)
Admitted(actor, roles) == active /\ role[actor] \in roles
Administers == {"OWNER", "ADMIN"}

GoTo(q, op) == req' = [req EXCEPT ![q].op = op]
End(q) == req' = [req EXCEPT ![q] = Idle]

(* Any error rolls the transaction back.                                    *)
Refuse(q) == End(q) /\ UNCHANGED <<role, invitation, crossed>>

-----------------------------------------------------------------------------
(* Invitations *)

BeginInvite(q, actor, person) ==
  /\ Admitted(actor, Administers)
  /\ WithinUserLimit
  /\ Begin(q, "invite", actor, Founding, person)
  /\ UNCHANGED <<role, invitation, active, crossed>>

(* Requests that found the person to be no member and have not written yet. *)
Inviting(p) == {q \in Requests : req[q].op \in {"vacant", "create"} /\ req[q].person = p}

(* A mutant: a member may be invited again.                                 *)
VacantAnyway(p) == TRUE

Vacant(p) == ~Belongs(p)

FindMember(q) ==
  LET p == req[q].person
  IN  /\ req[q].op = "invite"
      /\ \/ /\ Vacant(p)
            /\ GoTo(q, "vacant")
            /\ crossed' = crossed \cup {x \in {p} : Inviting(p) # {}}
            /\ UNCHANGED <<role, invitation>>
         \/ ~Vacant(p) /\ Refuse(q)
      /\ UNCHANGED <<active, requests>>

OpenFor(p) == {i \in Invitations : Open(i) /\ invitation[i].to = p}

(* findFirst: any open invitation; an expired one is kept, to revoke it.    *)
FindInvitation(q) ==
  LET found == OpenFor(req[q].person)
  IN  /\ req[q].op = "vacant"
      /\ \/ /\ \E t \in IF found = {} THEN {Founding} ELSE {i \in found : ~Usable(i)} :
                 req' = [req EXCEPT ![q].op = "create", ![q].target = t]
            /\ UNCHANGED <<role, invitation, crossed>>
         \/ (\E i \in found : Usable(i)) /\ Refuse(q)
      /\ UNCHANGED <<active, requests>>

(* update .. WHERE id: whatever became of the expired one.                  *)
WithRevoked(i) ==
  IF i = Founding THEN invitation ELSE [invitation EXCEPT ![i].revoked = TRUE]

CreateInvitation(q, i, r) ==
  /\ req[q].op = "create"
  /\ ~invitation[i].sent
  /\ invitation' = [WithRevoked(req[q].target) EXCEPT
                      ![i] = [NoInvitation EXCEPT !.to = req[q].person, !.role = r,
                                                  !.sent = TRUE]]
  /\ End(q)
  /\ UNCHANGED <<role, active, crossed, requests>>

BeginRevoke(q, actor, i) ==
  /\ Admitted(actor, Administers)
  /\ Open(i)
  /\ Begin(q, "revoke", actor, i, Founder)
  /\ UNCHANGED <<role, invitation, active, crossed>>

RevokeInvitation(q) ==
  /\ req[q].op = "revoke"
  /\ invitation' = WithRevoked(req[q].target)
  /\ End(q)
  /\ UNCHANGED <<role, active, crossed, requests>>

(* findValidInvitation: whoever has the token                               *)
BeginAccept(q, i) ==
  /\ Usable(i) /\ active
  /\ Begin(q, "accept", Founding, i, invitation[i].to)
  /\ UNCHANGED <<role, invitation, active, crossed>>

CheckLimit(q) ==
  /\ req[q].op = "accept"
  /\ \/ /\ WithinUserLimit
        /\ GoTo(q, "join")
        /\ UNCHANGED <<role, invitation, crossed>>
     \/ ~WithinUserLimit /\ Refuse(q)
  /\ UNCHANGED <<active, requests>>

(* A mutant: what the token said when it was read.                          *)
OpenWhenRead(i) == TRUE

(* updateMany .. WHERE acceptedAt IS NULL AND revokedAt IS NULL             *)
StillOpen(i) == Open(i)

AcceptInvitation(q) ==
  LET i == req[q].target
      p == req[q].person
  IN  /\ req[q].op = "join"
      /\ \/ /\ ~Belongs(p) /\ StillOpen(i)
            /\ invitation' = [invitation EXCEPT ![i].accepted = TRUE]
            /\ role' = [role EXCEPT ![i] = invitation[i].role]
            /\ crossed' = crossed \cup {x \in {p} : Inviting(p) # {}}
            /\ End(q)
         \/ (Belongs(p) \/ ~StillOpen(i)) /\ Refuse(q)
      /\ UNCHANGED <<active, requests>>

-----------------------------------------------------------------------------
(* Members *)

BeginSetRole(q, actor, m) ==
  /\ Admitted(actor, {"OWNER"})
  /\ m # actor
  /\ role[m] \in Assignable
  /\ Begin(q, "setRole", actor, m, Founder)
  /\ UNCHANGED <<role, invitation, active, crossed>>

BeginRemove(q, actor, m) ==
  /\ Admitted(actor, Administers)
  /\ role[m] \in Assignable
  /\ Begin(q, "remove", actor, m, Founder)
  /\ UNCHANGED <<role, invitation, active, crossed>>

BeginTransfer(q, actor, m) ==
  /\ Admitted(actor, {"OWNER"})
  /\ m # actor /\ Exists(m)
  /\ Begin(q, "transfer", actor, m, Founder)
  /\ UNCHANGED <<role, invitation, active, crossed>>

(* Commits, unless a row it names is gone or the owner is not one.          *)
Commit(q, written, rows) ==
  /\ \/ /\ \A m \in written : Exists(m)
        /\ OneOwnerAtCommit(rows)
        /\ role' = rows
        /\ End(q)
        /\ UNCHANGED <<invitation, crossed>>
     \/ (~OneOwnerAtCommit(rows) \/ \E m \in written : ~Exists(m)) /\ Refuse(q)
  /\ UNCHANGED <<active, requests>>

UpdateMemberRole(q, r) ==
  LET m == req[q].target
  IN  /\ req[q].op = "setRole"
      /\ Commit(q, {m}, [role EXCEPT ![m] = r])

RemoveMember(q) ==
  LET m == req[q].target
  IN  /\ req[q].op = "remove"
      /\ Commit(q, {m}, [role EXCEPT ![m] = "removed"])

(* A mutant: whoever owns the tenant by then.                               *)
DemotesTheOwner(q) == CHOOSE m \in Memberships : role[m] = "OWNER"

(* The row read as the owner's.                                             *)
Demoted(q) == req[q].actor

TransferOwnership(q) ==
  LET m == req[q].target
  IN  /\ req[q].op = "transfer"
      /\ Commit(q, {Demoted(q), m}, [role EXCEPT ![Demoted(q)] = "ADMIN", ![m] = "OWNER"])

-----------------------------------------------------------------------------
(* The platform and time *)

UpdateTenantStatus ==
  /\ active' = ~active
  /\ Count
  /\ UNCHANGED <<role, invitation, req, crossed>>

InvitationExpires(i) ==
  /\ Usable(i)
  /\ invitation' = [invitation EXCEPT ![i].expired = TRUE]
  /\ Count
  /\ UNCHANGED <<role, active, req, crossed>>

-----------------------------------------------------------------------------
Begins(q) ==
  \/ \E a \in Memberships, p \in People : BeginInvite(q, a, p)
  \/ \E a \in Memberships, i \in Invitations : BeginRevoke(q, a, i)
  \/ \E i \in Invitations : BeginAccept(q, i)
  \/ \E a, m \in Memberships :
       BeginSetRole(q, a, m) \/ BeginRemove(q, a, m) \/ BeginTransfer(q, a, m)

Continues(q) ==
  \/ FindMember(q)
  \/ FindInvitation(q)
  \/ \E i \in Invitations, r \in Assignable : CreateInvitation(q, i, r)
  \/ RevokeInvitation(q)
  \/ CheckLimit(q)
  \/ AcceptInvitation(q)
  \/ \E r \in Assignable : UpdateMemberRole(q, r)
  \/ RemoveMember(q)
  \/ TransferOwnership(q)

Next ==
  \/ \E q \in Requests : Begins(q) \/ Continues(q)
  \/ UpdateTenantStatus
  \/ \E i \in Invitations : InvitationExpires(i)

Spec == Init /\ [][Next]_vars

-----------------------------------------------------------------------------
(* Properties *)

(* "todo negocio tiene exactamente un propietario", whatever role changes,  *)
(* removals and transfers cross on the rows they read: it is the database's *)
(* guard (memberships_single_owner), stated for the proofs.                 *)
OneOwner == \E o \in Memberships : OwnedBy(o, role)

(* Ownership passes to another member only in a transfer that the owner of  *)
(* that moment asked for (transferOwnership).                               *)
OwnershipPassesFromOwner ==
  [][\A m \in Memberships :
       role[m] # "OWNER" /\ role'[m] = "OWNER" =>
         \E q \in Requests : /\ req[q].op = "transfer" /\ req[q].target = m
                             /\ role[req[q].actor] = "OWNER"]_vars

(* An invitation lets one person in once: not after it was used, even if    *)
(* the member was removed since, nor after it was revoked                   *)
(* (acceptInvitation's guarded consumption).                                *)
SpentInvitationAdmitsNobody ==
  [][\A i \in Invitations :
       (invitation[i].accepted \/ invitation[i].revoked) /\ ~Exists(i) =>
         role'[i] \notin Roles]_vars

(* Unless two invitations, or an invitation and an acceptance, crossed, a   *)
(* person holds at most one valid invitation, and a member none             *)
(* (inviteMember).                                                          *)
OneWayIn ==
  \A i \in Invitations :
    Usable(i) /\ invitation[i].to \notin crossed =>
      /\ ~Belongs(invitation[i].to)
      /\ \A j \in Invitations : Usable(j) /\ invitation[j].to = invitation[i].to => j = i

(* "La invitacion ya no esta pendiente."                                    *)
RevokedIsNotAccepted ==
  \A i \in Invitations : ~(invitation[i].accepted /\ invitation[i].revoked)
=============================================================================
