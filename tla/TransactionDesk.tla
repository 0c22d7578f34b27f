-------------------------- MODULE TransactionDesk --------------------------
(* The desk where a merchant reviews its payments: the page "Transacciones"   *)
(* of the dashboard (a list loaded page by page, a strip of totals and a      *)
(* socket that says when to load them again), the gateway that speaks on that *)
(* socket, and the handlers that list, add up, confirm and dispute the        *)
(* transactions of one tenant.  Transactions are committed by the workers of  *)
(* IngestPipeline; here they simply appear.                                   *)
(*                                                                            *)
(* A handler reads the row and writes it by id later in a transaction at READ *)
(* COMMITTED, so each is a step of its own; it speaks on the event bus after  *)
(* the commit.  The query library keeps its own rules (see Invalidate and     *)
(* LoadMore): they are modelled from how the page uses it.                    *)
EXTENDS Integers, Sequences, FiniteSets

CONSTANTS
    Rows,        \* the transactions that may come to exist: their ids, naturals
    At,          \* when each occurred: what the list is sorted by
    PageSize,    \* rows of a page of the list
    Presses,     \* requests of this page to confirm or to dispute
    Others,      \* the same, of other members and of integrations
    None,        \* no value
    MaxNew,      \* transactions that come while the page is open
    MaxTroubles  \* sockets lost, restarts of the API, failed loads, and changes and
                 \* renewals of what the member may do, in all

\* Assumed by Dashboard, which gives the constants their values.
ConstantsAssumption ==
    /\ Rows \subseteq Nat /\ IsFiniteSet(Rows) /\ None \notin Rows
    /\ At \in [Rows -> Nat]
    /\ PageSize \in Nat \ {0} /\ MaxNew \in Nat /\ MaxTroubles \in Nat

Calls == Presses \union Others

VARIABLES
    status,    \* of each transaction, "NONE" until it is committed
    unsaid,    \* committed transactions the workers have not announced yet
    call,      \* each request's way through its handler
    socket,    \* the page's socket: its state, and how many messages are on their
               \* way (all of them have the same effect)
    feed,      \* the list the page holds: its rows, pages, and whether it goes on
    load,      \* the load of the list under way, or None
    strip,     \* the totals the page holds, or None
    sums,      \* the load of the totals under way, or None
    follows,   \* which of the page's two queries this behaviour follows: they
               \* share the messages and nothing else
    cut,       \* a load a message asked for was not run to its end, nor shown as an
               \* error
    member,    \* who has the page open: the role in the tenant; whether the person is
               \* still inside (a member, of a tenant that is ACTIVE); the role the
               \* session knows
    troubles   \* what went wrong so far

server == <<status, unsaid, call>>
list == <<feed, load>>
totals == <<strip, sums>>
queries == <<list, totals, cut, follows>>
vars == <<server, socket, queries, member, troubles>>

Statuses == {"NONE", "CAPTURED", "CONFIRMED", "DISPUTED"}
Entries == [row : Rows, status : Statuses \ {"NONE"}]
Ops == {"confirm", "dispute"}
Roles == {"OPERATOR", "VIEWER"}  \* owners and admins may do here what an operator may

----------------------------------------------------------------------------
(* The API: the list by keyset, the totals, and the two operations.           *)

Committed == {r \in Rows : status[r] # "NONE"}

Entry(r) == [row |-> r, status |-> status[r]]

\* ORDER BY occurred_at DESC, id DESC
Before(r, s) == At[r] > At[s] \/ (At[r] = At[s] /\ r > s)

\* Each row at the place that so many others come before it.
Sorted(S) ==
    [i \in 1 .. Cardinality(S) |->
       CHOOSE r \in S : Cardinality({q \in S : Before(q, r)}) = i - 1]

\* The cursor names the last row of a page: at or before its time, and not a
\* row of that very time whose id is not smaller.
PastCursor(cursor, r) ==
    \/ cursor = None
    \/ /\ At[r] <= At[cursor]
       /\ ~(At[r] = At[cursor] /\ r >= cursor)

Page(cursor) ==
    LET found == Sorted({r \in Committed : PastCursor(cursor, r)})
        n == IF Len(found) > PageSize THEN PageSize ELSE Len(found)
    IN  [rows |-> [i \in 1 .. n |-> Entry(found[i])], more |-> Len(found) > PageSize]

\* Mutant of AllowedFrom: a dispute may be taken back by a confirmation.
AllowedFromAny(op) ==
    IF op = "confirm" THEN {"CAPTURED", "DISPUTED"} ELSE {"CAPTURED", "CONFIRMED"}

\* CONFIRMABLE_STATUSES and DISPUTABLE_STATUSES
AllowedFrom(op) == IF op = "confirm" THEN {"CAPTURED"} ELSE {"CAPTURED", "CONFIRMED"}

Becomes(op) == IF op = "confirm" THEN "CONFIRMED" ELSE "DISPUTED"

InRoom == socket.state \in {"joined", "on"}

\* Said in the room of the tenant: whoever has joined it gets the message.
Say ==
    socket' = IF InRoom THEN [socket EXCEPT !.inbox = @ + 1] ELSE socket

\* A worker commits the transaction it parsed out of a notification ...
Capture(r) ==
    /\ status[r] = "NONE"
    /\ status' = [status EXCEPT ![r] = "CAPTURED"]
    /\ unsaid' = unsaid \union {r}
    /\ UNCHANGED <<call, socket, queries, member, troubles>>

\* ... and announces it after the commit.
SayCreated(r) ==
    /\ r \in unsaid
    /\ unsaid' = unsaid \ {r}
    /\ Say
    /\ UNCHANGED <<status, call, queries, member, troubles>>

Idle ==
    [phase |-> "idle", op |-> None, row |-> None, shown |-> None, known |-> None, seen |-> None]

Over == [Idle EXCEPT !.phase = "over"]

\* ROLE_RANK: a role does for every lower one.
Satisfies(r, required) == r = required \/ r = "OPERATOR"

\* PublicApiAuthGuard rereads the membership and its tenant for each request, and
\* AccessPolicyGuard compares the role with what the controller asks.
Admitted(needs) == member.inside /\ Satisfies(member.role, needs)

Guard(c) ==
    /\ call[c].phase = "sent"
    /\ call' = [call EXCEPT ![c].phase = IF Admitted("OPERATOR") THEN "admitted" ELSE "refused"]
    /\ UNCHANGED <<status, unsaid, socket, queries, member, troubles>>

\* transition: the row is read, and its status must allow the operation.
Refuses(c) == status[call[c].row] \notin AllowedFrom(call[c].op)

ReadRow(c) ==
    /\ call[c].phase = "admitted"
    /\ call' = [call EXCEPT ![c].phase = IF Refuses(c) THEN "refused" ELSE "read",
                            ![c].seen = status[call[c].row]]
    /\ UNCHANGED <<status, unsaid, socket, queries, member, troubles>>

\* The update names the row by its id alone.
WriteRow(c) ==
    /\ call[c].phase = "read"
    /\ status' = [status EXCEPT ![call[c].row] = Becomes(call[c].op)]
    /\ call' = [call EXCEPT ![c].phase = "written"]
    /\ UNCHANGED <<unsaid, socket, queries, member, troubles>>

\* Only a confirmation is told to the room; a dispute goes to webhooks.
SayWritten(c) ==
    /\ call[c].phase = "written"
    /\ IF call[c].op = "confirm" THEN Say ELSE UNCHANGED socket
    /\ call' = [call EXCEPT ![c] = IF c \in Presses THEN [@ EXCEPT !.phase = "done"] ELSE Over]
    /\ UNCHANGED <<status, unsaid, queries, member, troubles>>

\* The same request of another member or of an integration with an API key:
\* a refused one leaves nothing behind.
ReadForOther(c, r, op) ==
    /\ call[c].phase = "idle"
    /\ r \in Committed /\ status[r] \in AllowedFrom(op)
    /\ call' = [call EXCEPT ![c] = [phase |-> "read", op |-> op, row |-> r,
                                    shown |-> None, known |-> None, seen |-> status[r]]]
    /\ UNCHANGED <<status, unsaid, socket, queries, member, troubles>>

----------------------------------------------------------------------------
(* The query library, as the page uses it.                                    *)

Load(kind, want, got, cursor) ==
    [kind |-> kind, want |-> want, got |-> got, n |-> 0, cursor |-> cursor,
     answer |-> None]

Again == Load("again", feed.pages, <<>>, None)

FirstSums == [step |-> "totals", total |-> 0, confirmed |-> 0, disputed |-> 0]

\* invalidateQueries: a list that holds data drops the load under way and loads
\* its pages again from the first; one still at its first load only goes on
\* with it.  The totals follow the same rule.
InvalidateList ==
    IF feed.loaded \/ load = None
    THEN load' = Again /\ cut' = FALSE
    ELSE load' = load /\ cut' = (load.n > 0 \/ load.answer # None)

InvalidateTotals ==
    IF strip # None \/ sums = None
    THEN sums' = FirstSums /\ cut' = FALSE
    ELSE sums' = sums /\ cut' = (sums.step # "totals")

Invalidate ==
    /\ \/ follows = "list" /\ InvalidateList /\ UNCHANGED sums
       \/ follows = "totals" /\ InvalidateTotals /\ UNCHANGED load
    /\ UNCHANGED <<feed, strip, follows>>

\* What goes wrong on the way: each action that names it is one trouble.
Trouble ==
    /\ troubles < MaxTroubles
    /\ troubles' = troubles + 1

\* The API answers one page.
ServePage ==
    /\ load # None
    /\ load.answer = None
    /\ Admitted("VIEWER")
    /\ load' = [load EXCEPT !.answer = Page(load.cursor)]
    /\ UNCHANGED <<server, socket, feed, cut, totals, follows, member, troubles>>

NextCursor(rows) == rows[Len(rows)].row

\* The page arrives: the next one is asked for while the load wants more of
\* them, and then the list is replaced as a whole.
TakePage ==
    /\ load # None
    /\ load.answer # None
    /\ LET got == load.got \o load.answer.rows
           n == load.n + 1
       IN  IF n < load.want /\ load.answer.more
           THEN /\ load' = [load EXCEPT !.got = got, !.n = n, !.answer = None,
                                        !.cursor = NextCursor(got)]
                /\ UNCHANGED feed
           ELSE /\ load' = None
                /\ feed' = [loaded |-> TRUE, error |-> FALSE, rows |-> got,
                            pages |-> IF load.kind = "more" THEN feed.pages + 1 ELSE n,
                            more |-> load.answer.more]
    /\ UNCHANGED <<server, socket, cut, totals, follows, member, troubles>>

\* A load fails when its second try fails too, and the page shows the error.
LoadEnds ==
    /\ load # None
    /\ load' = None
    /\ feed' = [feed EXCEPT !.error = TRUE]
    /\ UNCHANGED <<server, socket, cut, totals, follows, member>>

LoadFails == Trouble /\ LoadEnds

PageRefused ==
    /\ load # None /\ load.answer = None
    /\ ~Admitted("VIEWER")
    /\ LoadEnds
    /\ UNCHANGED troubles

\* "Reintentar".  The window that comes back to the front with old data loads
\* again too, which the desk must not depend on: that is left out.
Reload ==
    /\ feed.error /\ load = None
    /\ load' = Again
    /\ UNCHANGED <<server, socket, feed, cut, totals, follows, member, troubles>>

\* "Cargar mas cobros" is disabled only while it loads itself: pressed during a
\* load that a message asked for it takes that load's place, and pressed after
\* one that failed it hides the error.
LoadMore ==
    /\ feed.more
    /\ load # None => load.kind = "again"
    /\ cut' = (cut \/ load # None \/ feed.error)
    /\ load' = Load("more", 1, feed.rows, NextCursor(feed.rows))
    /\ UNCHANGED <<server, socket, feed, totals, follows, member, troubles>>

\* summary: three of the statements of one transaction, each of which sees what
\* is committed when it runs.
CountOf(s) == Cardinality({r \in Rows : status[r] = s})

ServeSums ==
    /\ sums # None
    /\ \/ /\ sums.step = "totals" /\ Admitted("VIEWER")
          /\ sums' = [sums EXCEPT !.step = "confirmed", !.total = Cardinality(Committed)]
       \/ /\ sums.step = "confirmed"
          /\ sums' = [sums EXCEPT !.step = "by_status", !.confirmed = CountOf("CONFIRMED")]
       \/ /\ sums.step = "by_status"
          /\ sums' = [sums EXCEPT !.step = "answered", !.disputed = CountOf("DISPUTED")]
    /\ UNCHANGED <<server, socket, list, strip, cut, follows, member, troubles>>

\* The strip does not show an error: it keeps what it has.
SumsRefused ==
    /\ sums # None
    /\ sums.step = "totals" /\ ~Admitted("VIEWER")
    /\ sums' = None
    /\ cut' = TRUE
    /\ UNCHANGED <<server, socket, list, strip, follows, member, troubles>>

TakeSums ==
    /\ sums # None
    /\ sums.step = "answered"
    /\ strip' = [total |-> sums.total, confirmed |-> sums.confirmed, disputed |-> sums.disputed]
    /\ sums' = None
    /\ UNCHANGED <<server, socket, list, cut, follows, member, troubles>>

----------------------------------------------------------------------------
(* The page: what it offers, and what the answers and the messages do.        *)

\* TENANT_PERMISSIONS: who may review.
CanReview(r) == r = "OPERATOR"

\* The buttons of a card and of the panel, by the role that the session knows.
Offered(entry) ==
    {op \in Ops : /\ CanReview(member.known)
                  /\ IF op = "confirm" THEN entry.status = "CAPTURED"
                                       ELSE entry.status # "DISPUTED"}

Busy == \E c \in Presses : call[c].phase \notin {"idle", "over"}

Shown == IF feed.loaded /\ ~feed.error THEN {feed.rows[i] : i \in DOMAIN feed.rows} ELSE {}

\* The detail panel keeps the row as it was when it was opened.  Only the rows
\* opened while they were captured matter, for they offer everything; which of
\* them the panel holds is left open.
InPanel == IF feed.loaded THEN {[row |-> r, status |-> "CAPTURED"] : r \in Committed} ELSE {}

\* A button of a row of the list, or of the panel when it is open.
Press(c, entry, op) ==
    /\ call[c].phase = "idle"
    /\ ~Busy
    /\ entry \in Shown \union InPanel
    /\ op \in Offered(entry)
    /\ call' = [call EXCEPT ![c] = [phase |-> "sent", op |-> op, row |-> entry.row,
                                    shown |-> entry.status, known |-> member.known,
                                    seen |-> None]]
    /\ UNCHANGED <<status, unsaid, socket, queries, member, troubles>>

\* Only a success invalidates what the page holds; a refusal is not shown.
Answered(c) ==
    /\ call[c].phase \in {"done", "refused"}
    /\ call' = [call EXCEPT ![c] = Over]
    /\ IF call[c].phase = "done"
       THEN Invalidate
       ELSE UNCHANGED queries
    /\ UNCHANGED <<status, unsaid, socket, member, troubles>>

\* handleConnection: the room first, and then the word that it is joined.
Join ==
    /\ socket.state = "off"
    /\ socket' = [state |-> "joined", inbox |-> 0]
    /\ UNCHANGED <<server, queries, member, troubles>>

\* Mutant of SayConnected: a socket that connects again says nothing.
ConnectInSilence ==
    /\ socket.state = "joined"
    /\ socket' = [socket EXCEPT !.state = "on"]
    /\ UNCHANGED <<server, queries, member, troubles>>

SayConnected ==
    /\ socket.state = "joined"
    /\ socket' = [state |-> "on", inbox |-> socket.inbox + 1]
    /\ UNCHANGED <<server, queries, member, troubles>>

\* "transaction.created", "transaction.confirmed" and "connected" alike.
Hear ==
    /\ socket.inbox > 0
    /\ socket' = [socket EXCEPT !.inbox = @ - 1]
    /\ Invalidate
    /\ UNCHANGED <<server, member, troubles>>

\* The connection is lost.
Drop ==
    /\ socket.state # "off"
    /\ Trouble
    /\ socket' = [state |-> "off", inbox |-> 0]
    /\ UNCHANGED <<server, queries, member>>

\* The API restarts: requests end, what it had not said yet is never said, and
\* every socket is lost.
Restart ==
    /\ Trouble
    /\ call' = [c \in Calls |-> IF call[c].phase = "idle" THEN call[c]
                                ELSE Over]
    /\ unsaid' = {}
    /\ socket' = [state |-> "off", inbox |-> 0]
    /\ UNCHANGED <<status, queries, member>>

\* An owner gives the member another role.
ChangeRole(r) ==
    /\ member.role # r
    /\ Trouble
    /\ member' = [member EXCEPT !.role = r]
    /\ UNCHANGED <<server, socket, queries>>

\* The platform suspends the tenant and activates it again; an owner removes the
\* member, who may be invited again.
ChangeInside ==
    /\ Trouble
    /\ member' = [member EXCEPT !.inside = ~@]
    /\ UNCHANGED <<server, socket, queries>>

\* The session is renewed: it knows the role, and its new access token opens
\* another socket.  Who is outside leaves the desk by it, which is left out.
Renew ==
    /\ member.inside
    /\ Trouble
    /\ member' = [member EXCEPT !.known = member.role]
    /\ socket' = [state |-> "off", inbox |-> 0]
    /\ UNCHANGED <<server, queries>>

----------------------------------------------------------------------------
Init ==
    /\ \E new \in SUBSET Rows :
          /\ Cardinality(new) = MaxNew
          /\ status = [r \in Rows |-> IF r \in new THEN "NONE" ELSE "CAPTURED"]
    /\ unsaid = {}
    /\ call = [c \in Calls |-> Idle]
    /\ socket = [state |-> "off", inbox |-> 0]
    /\ feed = [loaded |-> FALSE, error |-> FALSE, rows |-> <<>>, pages |-> 1, more |-> FALSE]
    /\ \/ follows = "list" /\ load = Load("first", 1, <<>>, None) /\ sums = None
       \/ follows = "totals" /\ load = None /\ sums = FirstSums
    /\ strip = None
    /\ cut = FALSE
    /\ \E r \in Roles : member = [role |-> r, inside |-> TRUE, known |-> r]
    /\ troubles = 0

Handle ==
    \/ \E r \in Rows : SayCreated(r)
    \/ \E c \in Calls : Guard(c) \/ ReadRow(c) \/ WriteRow(c) \/ SayWritten(c) \/ Answered(c)

Fetch == ServePage \/ PageRefused \/ TakePage \/ ServeSums \/ SumsRefused \/ TakeSums

Listen == Join \/ SayConnected \/ Hear

Next ==
    \/ \E r \in Rows : Capture(r)
    \/ Handle
    \/ \E c \in Others, r \in Rows, op \in Ops : ReadForOther(c, r, op)
    \/ \E c \in Presses, entry \in Entries, op \in Ops : Press(c, entry, op)
    \/ Fetch \/ LoadFails \/ Reload \/ LoadMore
    \/ Listen \/ Drop \/ Restart
    \/ (\E r \in Roles : ChangeRole(r)) \/ ChangeInside \/ Renew

Spec == Init /\ [][Next]_vars

\* What has begun goes on: the API serves, the network delivers, and the socket
\* library connects again for ever.  Nobody has to press anything.
GoesOn == Handle \/ Fetch \/ Listen

Fairness == WF_vars(GoesOn)

FairSpec == Spec /\ Fairness

----------------------------------------------------------------------------
(* Properties; Dashboard checks them, the action formulas as [][..]_vars.     *)

TypeOK ==
    /\ status \in [Rows -> Statuses]
    /\ unsaid \subseteq Committed
    /\ \A c \in Calls :
          /\ call[c].phase \in {"idle", "sent", "admitted", "read", "written", "done", "refused", "over"}
          /\ call[c].op \in Ops \union {None} /\ call[c].row \in Rows \union {None}
    /\ socket.state \in {"off", "joined", "on"} /\ socket.inbox \in Nat
    /\ feed.rows \in Seq(Entries) /\ feed.pages \in Nat
    /\ member \in [role : Roles, inside : BOOLEAN, known : Roles]
    /\ troubles \in 0 .. MaxTroubles

\* The list never shows a transaction twice: its pages are loaded one after the
\* other while transactions arrive, some of them of an earlier time than those
\* already shown, and a page may be added to older ones (buildWhere's cursor).
NoRowTwice == \A i, j \in DOMAIN feed.rows : feed.rows[i].row = feed.rows[j].row => i = j

\* A button the page offers is refused by the API only when the transaction or
\* the member's role is no longer as the page knew it, or the member has been
\* removed or the tenant suspended since: the card and the panel offer nothing
\* that the controller's role, CONFIRMABLE_STATUSES and DISPUTABLE_STATUSES
\* exclude.
RefusesOnlyChanged ==
    \A c \in Presses :
       call[c].phase # "refused" /\ call'[c].phase = "refused"
          => \/ status[call[c].row] # call[c].shown
             \/ member.role # call[c].known
             \/ ~member.inside

\* A dispute stays: only a request that had read the transaction before it was
\* disputed can still take it back (see OnlyCapturedIsConfirmed), and no request
\* that reads it afterwards (transition's allowedFrom).
LeavesDisputeByCrossing ==
    \A r \in Rows :
       status[r] = "DISPUTED" /\ status'[r] # "DISPUTED"
          => \E c \in Calls : /\ call[c].row = r /\ call[c].seen = "CAPTURED"
                              /\ call[c].phase = "read" /\ call'[c].phase = "written"

\* The answer to a refused confirmation says "Solo una transaccion capturada puede
\* confirmarse" (confirm's conflictMessage): no other one is ever confirmed.
ConfirmsOnlyCaptured ==
    \A r \in Rows : status'[r] = "CONFIRMED" /\ status[r] # "CONFIRMED"
                       => status[r] = "CAPTURED"

\* The list is what the tenant's transactions say it is: the newest ones, as
\* many as its pages hold, with their status.  A dispute is told to nobody.
Newest ==
    LET sorted == Sorted(Committed)
        n == feed.pages * PageSize
    IN  IF Len(sorted) > n THEN SubSeq(sorted, 1, n) ELSE sorted

UpToDate ==
    /\ Len(feed.rows) = Len(Newest)
    /\ \A i \in DOMAIN feed.rows :
          /\ feed.rows[i].row = Newest[i]
          /\ status[Newest[i]] \in {feed.rows[i].status, "DISPUTED"}

StripUpToDate ==
    /\ strip # None
    /\ strip.total = Cardinality(Committed)
    /\ strip.confirmed - CountOf("CONFIRMED") \in 0 .. CountOf("DISPUTED")
    /\ strip.disputed <= CountOf("DISPUTED")

\* The desk catches up by itself: whatever is lost with a socket or a restart,
\* the list and the strip end up as the transactions are, except after an error
\* the page shows, or when a load was cut (the button pressed over it, or a
\* message that came while the first load was still on its way).
CaughtUp ==
    \/ follows = "list" /\ (feed.error \/ (feed.loaded /\ UpToDate))
    \/ follows = "totals" /\ StripUpToDate

CatchesUp == <>[](cut \/ CaughtUp)
=============================================================================
