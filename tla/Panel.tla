------------------------------- MODULE Panel -------------------------------
(* The pages of the dashboard on which a member administers a tenant:         *)
(* devices, wallets, team, invitations, API keys, webhooks and deliveries.    *)
(* They are built alike: a list loaded by the query library, buttons offered  *)
(* by the role and the status the page knows, a request whose guard rereads   *)
(* the membership and whose handler reads the row and writes it by id later,  *)
(* and a list that is loaded again after a success.  Their differences are    *)
(* the table OpsOf.  Around them is the session: a member of several tenants  *)
(* switches between them, and the session is renewed in the background.       *)
(* Left out: dialogs that create (their limits are those of DevicePairing),   *)
(* and the activation of a wallet on a list of another tenant, which names    *)
(* the wallet and not the row.                                                *)
EXTENDS Integers, FiniteSets

CONSTANTS
    Tenants,     \* the tenants the user may be a member of
    Rows,        \* the rows of the page, in the database of all tenants
    HomeOf,      \* the tenant of each row
    Presses,     \* requests of this page
    Others,      \* requests of other members
    None,        \* no value
    MaxChanges   \* for each page: changes of the user's own roles, suspensions of tenants,
                 \* switches, renewals and lost answers, in all

Pages == {"dispositivos", "billeteras", "equipo", "invitaciones", "claves-api", "webhooks",
          "entregas"}

Calls == Presses \union Others

Roles == {"OWNER", "ADMIN", "VIEWER"}

\* Of devices, wallets, members, invitations, API keys, endpoints and deliveries.
Statuses ==
    {"ACTIVE", "PAUSED", "REVOKED", "NEW", "ENABLED", "DISABLED", "OWNER", "ADMIN", "VIEWER",
     "GONE", "PENDING", "ACCEPTED", "LIVE", "DELETED", "IN_PROGRESS", "FAILED", "ABANDONED",
     "DELIVERED"}

\* A session and a load of the list, with what the API answered.
Sessions == [tenant : Tenants, roles : [Tenants -> Roles \union {None}]]
Answers == [ok : BOOLEAN, rows : SUBSET [row : Rows, status : Statuses]]
Loads == [tenant : Tenants, answer : Answers \union {None}, joined : BOOLEAN]

\* Assumed by Dashboard, which gives the constants their values.
ConstantsAssumption ==
    /\ HomeOf \in [Rows -> Tenants]
    /\ MaxChanges \in [Pages -> Nat]
    /\ Presses \intersect Others = {}
    /\ None \notin Tenants /\ None \notin Rows /\ None \notin Presses /\ None \notin Roles
    /\ None \notin Sessions /\ None \notin Loads

VARIABLES
    page,      \* the page that is open
    status,    \* of each row, as the page's table reads it
    role,      \* the user's membership in each tenant, or None
    suspended, \* the tenants that are not ACTIVE
    call,      \* each request's way through its handler; "held" says of a rotation
               \* that the secret it read is still the one in use
    last,      \* the request that wrote the row last, or None
    session,   \* what the browser holds: the active tenant and its roles, or None
    feed,      \* the list the page shows: rows with their status
    load,      \* the load of the list under way, or None
    dialog,    \* the dialog that asks for a confirmation, or None
    renewal,   \* the renewal of the session under way, or None
    switching, \* the change of tenant under way, or None
    moved,     \* a renewal changed the active tenant under the loaded list
    cut,       \* a change of tenant that failed had cancelled a load, or a success had
               \* joined a first load that was answered before it
    changes    \* the changes so far

database == <<status, role, suspended, last>>
lists == <<feed, load, moved, cut>>
browser == <<session, lists, dialog, renewal, switching>>
vars == <<page, database, call, browser, changes>>

----------------------------------------------------------------------------
(* The pages.                                                                 *)

Rank(r) == CASE r = "OWNER" -> 4 [] r = "ADMIN" -> 3 [] r = "VIEWER" -> 1 [] OTHER -> 0

Satisfies(r, required) == Rank(r) >= Rank(required)

\* Mutant of Can: who may look may manage.
CanLook(r, permission) ==
    CASE permission = "manage"   -> r \in {"OWNER", "ADMIN", "VIEWER"}
      [] permission = "own"      -> r = "OWNER"

\* TENANT_PERMISSIONS: who may do what; "manage" stands for those of devices,
\* wallets, members, API keys and webhooks, which have the same roles.
Can(r, permission) ==
    CASE permission = "manage"   -> r \in {"OWNER", "ADMIN"}
      [] permission = "own"      -> r = "OWNER"

\* A button: its name, the permission the page asks for it, the statuses it is
\* offered at, the role the controller asks for, the statuses the handler
\* refuses, and the status it writes ("same" when it leaves it).
Op(name, permission, offered, needs, refused, becomes) ==
    [name |-> name, permission |-> permission, offered |-> offered, needs |-> needs,
     refused |-> refused, becomes |-> becomes]

Admin(name, offered, refused, becomes) == Op(name, "manage", offered, "ADMIN", refused, becomes)

Staff == {"ADMIN", "VIEWER"}  \* of the three roles that may be assigned, two

DeviceOps ==
    {Admin("pause", {"ACTIVE"}, {"REVOKED"}, "PAUSED"),
     Admin("resume", {"PAUSED"}, {"REVOKED"}, "ACTIVE"),
     Admin("revoke", {"ACTIVE", "PAUSED"}, {}, "REVOKED")}

WalletOps ==
    {Admin("activate", {"NEW"}, {"ENABLED"}, "ENABLED"),
     Admin("update", {"ENABLED", "DISABLED"}, {"NEW"}, "ENABLED"),
     Admin("deactivate", {"ENABLED"}, {"NEW"}, "DISABLED")}

MemberOps ==
    {Op("assign", "own", Staff \ {r}, "OWNER", {"OWNER", "GONE"}, r) : r \in Staff}
    \union {Admin("remove", Staff, {"OWNER", "GONE"}, "GONE"),
            Op("transfer", "own", Staff, "OWNER", {"GONE"}, "OWNER")}

InvitationOps == {Admin("revoke", {"PENDING"}, {"REVOKED", "ACCEPTED"}, "REVOKED")}

ApiKeyOps == {Admin("revoke", {"LIVE"}, {"REVOKED"}, "REVOKED")}

EndpointOps ==
    {Admin("disable", {"ENABLED"}, {"DELETED"}, "DISABLED"),
     Admin("enable", {"DISABLED"}, {"DELETED"}, "ENABLED"),
     Admin("rotate", {"ENABLED", "DISABLED"}, {"DELETED"}, "same"),
     Admin("test", {"ENABLED"}, {"DELETED"}, "same"),
     Admin("delete", {"ENABLED", "DISABLED"}, {"DELETED"}, "DELETED")}

DeliveryOps ==
    {Admin("retry", {"FAILED", "ABANDONED"}, {"IN_PROGRESS", "DELIVERED"}, "PENDING")}

OpsOf(p) ==
    CASE p = "dispositivos" -> DeviceOps [] p = "billeteras" -> WalletOps
      [] p = "equipo" -> MemberOps       [] p = "invitaciones" -> InvitationOps
      [] p = "claves-api" -> ApiKeyOps   [] p = "webhooks" -> EndpointOps
      [] p = "entregas" -> DeliveryOps

\* What happens to rows besides: an invitation is accepted, an endpoint that
\* keeps failing is turned off, a delivery is attempted.
Moves(p) ==
    CASE p = "invitaciones" -> {<<"PENDING", "ACCEPTED">>}
      [] p = "webhooks" -> {<<"ENABLED", "DISABLED">>}
      [] p = "entregas" -> {<<"PENDING", "IN_PROGRESS">>, <<"IN_PROGRESS", "FAILED">>,
                            <<"IN_PROGRESS", "DELIVERED">>, <<"FAILED", "ABANDONED">>}
      [] OTHER -> {}

FirstStatuses(p) ==
    CASE p = "dispositivos" -> {"ACTIVE", "PAUSED"}
      [] p = "billeteras" -> {"NEW", "DISABLED"}
      [] p = "equipo" -> Staff
      [] p = "invitaciones" -> {"PENDING"}
      [] p = "claves-api" -> {"LIVE"}
      [] p = "webhooks" -> {"ENABLED", "DISABLED"}
      [] p = "entregas" -> {"FAILED", "PENDING"}

\* The rows a list leaves out: revoked keys, deleted endpoints, removed members.
Hidden(p) ==
    CASE p = "claves-api" -> {"REVOKED"} [] p = "webhooks" -> {"DELETED"}
      [] p = "equipo" -> {"GONE"} [] OTHER -> {}

\* The role the controller asks of who lists.
ListNeeds(p) ==
    IF p \in {"dispositivos", "billeteras", "equipo"} THEN "VIEWER" ELSE "ADMIN"

----------------------------------------------------------------------------
(* The API.                                                                   *)

Idle == [phase |-> "idle", op |-> None, row |-> None, tenant |-> None, shown |-> None,
         known |-> None, held |-> FALSE]

Rotates(op) == op.name = "rotate"

\* TenantGuard rereads the membership and its tenant, which must be ACTIVE, and
\* RolesGuard compares the role: neither looks at the role in the token or at
\* the one the page knows.
Active == {t \in Tenants : role[t] # None /\ t \notin suspended}

Admitted(t, needs) == t \in Active /\ Satisfies(role[t], needs)

Guard(c) ==
    /\ call[c].phase = "sent"
    /\ call' = [call EXCEPT ![c].phase =
                  IF Admitted(call[c].tenant, call[c].op.needs) THEN "admitted" ELSE "refused"]
    /\ UNCHANGED <<page, database, browser, changes>>

\* The handler reads the row, of its own tenant, and refuses some statuses.
\* A transfer reads the role of who asks for it once more.
Refuses(c) ==
    \/ HomeOf[call[c].row] # call[c].tenant
    \/ status[call[c].row] \in call[c].op.refused
    \/ call[c].op.name = "transfer" /\ role[call[c].tenant] # "OWNER"

ReadRow(c) ==
    /\ call[c].phase = "admitted"
    /\ call' = [call EXCEPT ![c].phase = IF Refuses(c) THEN "refused" ELSE "read",
                            ![c].held = Rotates(call[c].op)]
    /\ UNCHANGED <<page, database, browser, changes>>

\* A wallet that is not enabled is counted against the plan's limit.
LimitReached(c) ==
    /\ call[c].phase = "admitted" /\ page = "billeteras"
    /\ call[c].op.becomes = "ENABLED" /\ status[call[c].row] # "ENABLED"
    /\ call' = [call EXCEPT ![c].phase = "limited"]
    /\ UNCHANGED <<page, database, browser, changes>>

\* The write names the row by its id.  A membership that is gone fails it, and
\* the triggers of the table refuse to leave a tenant without its one owner.
WriteFails(c) ==
    /\ page = "equipo"
    /\ \/ status[call[c].row] = "GONE"
       \/ call[c].op.name # "transfer" /\ status[call[c].row] = "OWNER"
       \/ call[c].op.name = "transfer" /\ role[call[c].tenant] # "OWNER"

\* A rotation keeps the secret it had read as the one that goes on working: what
\* another rotation wrote in the meantime is lost.
Stale(d, c) == d # c /\ call[d].row = call[c].row /\ Rotates(call[c].op)

AfterWrite(c) ==
    [d \in Calls |->
       CASE d = c /\ c \in Presses -> [call[c] EXCEPT !.phase = "done"]
         [] d = c /\ c \notin Presses -> [Idle EXCEPT !.phase = "over"]
         [] d # c -> [call[d] EXCEPT !.held = @ /\ ~Stale(d, c)]]

Writes(c) == call[c].op.name # "test"

Written(c, r) ==
    /\ status' = [status EXCEPT ![r] = IF call[c].op.becomes = "same" THEN @
                                       ELSE call[c].op.becomes]
    /\ role' = IF call[c].op.name = "transfer" /\ c \in Presses
               THEN [role EXCEPT ![call[c].tenant] = "ADMIN"] ELSE role
    /\ last' = IF Writes(c) THEN [last EXCEPT ![r] = c] ELSE last
    /\ UNCHANGED suspended

WriteRow(c) ==
    /\ call[c].phase = "read"
    /\ \/ /\ WriteFails(c)
          /\ call' = [call EXCEPT ![c].phase = "refused"]
          /\ UNCHANGED database
       \/ /\ ~WriteFails(c)
          /\ Written(c, call[c].row)
          /\ call' = AfterWrite(c)
    /\ UNCHANGED <<page, browser, changes>>

\* The same request of another member, from the read of its handler on: what is
\* refused leaves nothing behind.  Transfers of others are those of Membership.
ReadForOther(c, r, op) ==
    /\ call[c].phase = "idle"
    /\ op.name # "transfer"
    /\ op.needs = "OWNER" => role[HomeOf[r]] # "OWNER"
    /\ status[r] \notin op.refused
    /\ call' = [call EXCEPT ![c] = [phase |-> "read", op |-> op, row |-> r,
                                    tenant |-> HomeOf[r], shown |-> None, known |-> None,
                                    held |-> Rotates(op)]]
    /\ UNCHANGED <<page, database, browser, changes>>

Move(r, m) ==
    /\ m[1] = status[r]
    /\ status' = [status EXCEPT ![r] = m[2]]
    /\ last' = [last EXCEPT ![r] = None]
    /\ UNCHANGED <<page, role, suspended, call, browser, changes>>

Change ==
    /\ changes < MaxChanges[page]
    /\ changes' = changes + 1

\* An owner gives the user another role, or removes the user from the tenant.
ChangeRole(t, r) ==
    /\ role[t] \in Staff
    /\ r \in (Staff \union {None}) \ {role[t]}
    /\ Change
    /\ role' = [role EXCEPT ![t] = r]
    /\ UNCHANGED <<page, status, suspended, last, call, browser>>

\* The platform suspends a tenant, or activates it again.
ChangeStatus(t) ==
    /\ Change
    /\ suspended' = IF t \in suspended THEN suspended \ {t} ELSE suspended \union {t}
    /\ UNCHANGED <<page, status, role, last, call, browser>>

----------------------------------------------------------------------------
(* The list, as the query library keeps it.  Its key does not name a tenant.  *)

NoList == [loaded |-> FALSE, error |-> FALSE, rows |-> {}]

Load(t) == [tenant |-> t, answer |-> None, joined |-> FALSE]

\* On an interval, or when the window comes back to the front.
StartLoad ==
    /\ session # None /\ load = None
    /\ load' = Load(session.tenant)
    /\ UNCHANGED <<page, database, call, session, feed, moved, cut, dialog, renewal, switching,
                   changes>>

\* Mutant of Invalidated: the load under way is joined, though the list holds data.
Joined == IF load # None \/ session = None THEN load ELSE Load(session.tenant)

\* invalidateQueries: a list that holds data drops the load under way and starts
\* another; one still at its first load goes on with it, as it was answered.
Invalidated ==
    IF session = None THEN None
    ELSE IF feed.loaded \/ load = None THEN Load(session.tenant)
    ELSE [load EXCEPT !.joined = load.answer # None]

Listed(t) == {[row |-> r, status |-> status[r]] :
                r \in {q \in Rows : HomeOf[q] = t /\ status[q] \notin Hidden(page)}}

ServeList ==
    /\ load # None
    /\ load.answer = None
    /\ load' = [load EXCEPT !.answer = [ok |-> Admitted(load.tenant, ListNeeds(page)),
                                        rows |-> Listed(load.tenant)]]
    /\ UNCHANGED <<page, database, call, session, feed, moved, cut, dialog, renewal, switching,
                   changes>>

TakeList ==
    /\ load # None
    /\ load.answer # None
    /\ feed' = IF load.answer.ok
               THEN [loaded |-> TRUE, error |-> FALSE, rows |-> load.answer.rows]
               ELSE [feed EXCEPT !.error = TRUE]
    /\ load' = None
    /\ cut' = load.joined
    /\ UNCHANGED <<page, database, call, session, moved, dialog, renewal, switching, changes>>

----------------------------------------------------------------------------
(* The page.                                                                  *)

Shown == IF feed.loaded /\ ~feed.error THEN feed.rows ELSE {}

\* What the role the session knows and the status of the row make the page offer.
Offered(entry) ==
    {op \in OpsOf(page) : /\ Can(session.roles[session.tenant], op.permission)
                          /\ entry.status \in op.offered}

Confirmed == {"revoke", "remove", "transfer", "rotate", "delete"}

\* The dialog keeps the row as it was when it was opened.
OpenDialog(entry, op) ==
    /\ session # None /\ dialog = None
    /\ entry \in Shown /\ op \in Offered(entry) /\ op.name \in Confirmed
    /\ dialog' = [entry |-> entry, op |-> op, known |-> session.roles[session.tenant]]
    /\ UNCHANGED <<page, database, call, session, lists, renewal, switching, changes>>

Busy == \E c \in Presses : call[c].phase \notin {"idle", "told", "over"}

CloseDialog ==
    /\ dialog # None /\ ~Busy
    /\ dialog' = None
    /\ UNCHANGED <<page, database, call, session, lists, renewal, switching, changes>>

Press(c, entry, op) ==
    /\ session # None
    /\ call[c].phase = "idle" /\ ~Busy
    /\ \E known \in {"OWNER"} \union Staff :
          /\ \/ /\ dialog # None
                /\ dialog = [entry |-> entry, op |-> op, known |-> known]
             \/ /\ dialog = None /\ known = session.roles[session.tenant]
                /\ entry \in Shown /\ op \in Offered(entry) /\ op.name \notin Confirmed
          /\ call' = [call EXCEPT ![c] = [phase |-> "sent", op |-> op, row |-> entry.row,
                                          tenant |-> session.tenant, shown |-> entry.status,
                                          known |-> known, held |-> FALSE]]
    /\ UNCHANGED <<page, database, browser, changes>>

\* After a success the list is loaded again (a test event changes none), and a
\* transfer renews the session besides.  An error is shown and changes nothing.
Answered(c) ==
    /\ call[c].phase \in {"done", "refused", "limited"}
    /\ call' = [call EXCEPT ![c].phase = IF @ = "done" THEN "told" ELSE "over"]
    /\ IF call[c].phase = "done"
       THEN /\ dialog' = None
            /\ load' = IF Writes(c) THEN Invalidated ELSE load
            /\ renewal' = IF call[c].op.name = "transfer" /\ session # None /\ renewal = None
                          THEN [asks |-> session.tenant, answer |-> None] ELSE renewal
       ELSE UNCHANGED <<dialog, load, renewal>>
    /\ UNCHANGED <<page, database, session, feed, moved, cut, switching, changes>>

\* A request whose answer is lost: for the page it failed.
LoseAnswer(c) ==
    /\ call[c].phase = "done"
    /\ Change
    /\ call' = [call EXCEPT ![c].phase = "over"]
    /\ UNCHANGED <<page, database, browser>>

----------------------------------------------------------------------------
(* The session: renewed a minute before its token expires, or switched.       *)

\* The session names the tenants that are ACTIVE, with the user's role in each.
Memberships == [t \in Tenants |-> IF t \in Active THEN role[t] ELSE None]

StartRenewal ==
    /\ session # None /\ renewal = None
    /\ Change
    /\ renewal' = [asks |-> session.tenant, answer |-> None]
    /\ UNCHANGED <<page, database, call, session, lists, dialog, switching>>

\* refresh: the tenant that was asked for, or another the user belongs to.
ServeRenewal ==
    /\ renewal # None
    /\ renewal.answer = None
    /\ \/ /\ Active = {}
          /\ renewal' = [renewal EXCEPT !.answer = [tenant |-> None, roles |-> Memberships]]
       \/ \E t \in Active :
             /\ renewal.asks \in Active => t = renewal.asks
             /\ renewal' = [renewal EXCEPT !.answer = [tenant |-> t, roles |-> Memberships]]
    /\ UNCHANGED <<page, database, call, session, lists, dialog, switching, changes>>

\* applySession: the answer replaces the session, and the cache is left alone.
TakeRenewal ==
    /\ renewal # None
    /\ renewal.answer # None
    /\ renewal' = None
    /\ \/ /\ renewal.answer.tenant = None
          /\ session' = None /\ load' = None /\ feed' = NoList
          /\ UNCHANGED <<moved, cut>>
       \/ /\ renewal.answer.tenant # None
          /\ session' = renewal.answer
          /\ moved' = (moved \/ renewal.answer.tenant # session.tenant)
          /\ UNCHANGED <<load, feed, cut>>
    /\ UNCHANGED <<page, database, call, dialog, switching, changes>>

\* TenantSwitcher: the loads under way are cancelled, then the API is asked.
Switch(t) ==
    /\ session # None /\ switching = None /\ dialog = None
    /\ t # session.tenant /\ session.roles[t] # None
    /\ Change
    /\ switching' = [to |-> t, answer |-> None]
    /\ load' = None
    /\ cut' = (cut \/ load # None)
    /\ UNCHANGED <<page, database, call, session, feed, moved, dialog, renewal>>

ServeSwitch ==
    /\ switching # None
    /\ switching.answer = None
    /\ switching' = [switching EXCEPT !.answer = IF switching.to \in Active THEN "yes" ELSE "no"]
    /\ UNCHANGED <<page, database, call, session, lists, dialog, renewal, changes>>

\* Mutant of ListAfterSwitch: the cache is not cleared.
ListKept == feed

\* queryClient.clear(): the page starts its list again, for the new tenant.
ListAfterSwitch == NoList

TakeSwitch ==
    /\ switching # None
    /\ switching.answer # None
    /\ switching' = None
    /\ IF switching.answer = "yes" /\ session # None
       THEN /\ session' = [session EXCEPT !.tenant = switching.to]
            /\ feed' = ListAfterSwitch
            /\ load' = Load(switching.to)
            /\ moved' = FALSE /\ cut' = FALSE
       ELSE UNCHANGED <<session, lists>>
    /\ UNCHANGED <<page, database, call, dialog, renewal, changes>>

----------------------------------------------------------------------------
Init ==
    /\ page \in Pages
    /\ status \in [Rows -> FirstStatuses(page)]
    /\ role \in [Tenants -> Staff \union {"OWNER", None}]
    /\ suspended \in SUBSET Tenants
    /\ call = [c \in Calls |-> Idle]
    /\ last = [r \in Rows |-> None]
    /\ \E t \in Active : session = [tenant |-> t, roles |-> Memberships] /\ load = Load(t)
    /\ feed = NoList
    /\ dialog = None /\ renewal = None /\ switching = None
    /\ moved = FALSE /\ cut = FALSE
    /\ changes = 0

Entries == UNION {[row : Rows, status : op.offered] : op \in OpsOf(page)}

Handle ==
    \/ \E c \in Calls : WriteRow(c)
    \/ \E c \in Presses : Guard(c) \/ ReadRow(c) \/ LimitReached(c) \/ Answered(c) \/ LoseAnswer(c)
    \/ \E c \in Others, r \in Rows, op \in OpsOf(page) : ReadForOther(c, r, op)
    \/ \E r \in Rows, m \in Moves(page) : Move(r, m)

Browse ==
    \/ StartLoad \/ ServeList \/ TakeList
    \/ \E entry \in Entries, op \in OpsOf(page) : OpenDialog(entry, op)
    \/ CloseDialog
    \/ \E c \in Presses, entry \in Entries, op \in OpsOf(page) : Press(c, entry, op)

Renew == StartRenewal \/ ServeRenewal \/ TakeRenewal

ChangeTenant == (\E t \in Tenants : Switch(t)) \/ ServeSwitch \/ TakeSwitch

Next ==
    \/ Handle
    \/ \E t \in Tenants, r \in Staff \union {None} : ChangeRole(t, r)
    \/ \E t \in Tenants : ChangeStatus(t)
    \/ Browse \/ Renew \/ ChangeTenant

Spec == Init /\ [][Next]_vars

----------------------------------------------------------------------------
(* Properties; Dashboard checks them, the action formulas as [][..]_vars.     *)

\* The list shows rows of the active tenant: whatever loads, requests and
\* switches cross, nothing loaded for one tenant is shown under another.  The
\* exception is a renewal that changed the tenant (see KeepsSelectedTenant).
ShownRowsAreOfTheTenant ==
    session # None /\ ~moved => \A entry \in feed.rows : HomeOf[entry.row] = session.tenant

\* What the page offers is refused only because the row or the user's role is
\* no longer as the page knew it, or the tenant has been suspended since: the
\* permissions of the page, the roles of the controllers and the statuses the
\* handlers refuse agree.  A row of another tenant is on the page only after a
\* renewal changed the tenant.
RefusesOnlyChanged ==
    \A c \in Presses :
       call[c].phase # "refused" /\ call'[c].phase = "refused"
          => \/ status[call[c].row] # call[c].shown
             \/ role[call[c].tenant] # call[c].known
             \/ call[c].tenant \in suspended
             \/ HomeOf[call[c].row] # call[c].tenant

\* A list at rest shows what the page's own requests did, though a load that had
\* read the rows before may still have been under way when they were answered,
\* unless it was the first load after a change of tenant (Invalidated's join).
OwnActionsAreShown ==
    session # None /\ feed.loaded /\ ~feed.error /\ load = None /\ ~moved /\ ~cut =>
       \A r \in Rows :
          /\ HomeOf[r] = session.tenant
          /\ last[r] \in Presses /\ call[last[r]].phase = "told"
          => {e \in feed.rows : e.row = r} = {e \in Listed(session.tenant) : e.row = r}

\* docs/10_PLAN_DESARROLLO.md says that the dashboard keeps the selected business
\* while the session is renewed: only a switch changes it, while the user
\* belongs to it.
KeepsSelectedTenant ==
    session # None /\ session' # None /\ session'.tenant # session.tenant
       => switching # None \/ session.tenant \notin Active

\* The dialog that asks to rotate a secret says that the value before it goes on
\* working for 24 hours (ConfirmWebhookActionDialog).
KeepsPreviousSecret ==
    \A c \in Calls :
       call[c].phase = "read" /\ Rotates(call[c].op) /\ call'[c].phase \in {"done", "over"}
          => call[c].held

TypeOK ==
    /\ page \in Pages /\ changes \in 0 .. MaxChanges[page]
    /\ role \in [Tenants -> Staff \union {"OWNER", None}] /\ suspended \subseteq Tenants
    /\ session # None => session.tenant \in Tenants
    /\ feed.loaded \in BOOLEAN /\ moved \in BOOLEAN /\ cut \in BOOLEAN
    /\ \A c \in Calls : call[c].row \in Rows \union {None}
=============================================================================
