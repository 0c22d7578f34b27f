----------------------------- MODULE Dashboard -----------------------------
(* The dashboard a person has open: the desk where payments are reviewed      *)
(* (TransactionDesk), one of the pages where a tenant is administered (Panel) *)
(* or one of the forms a person gets in with (Access), with the handlers of   *)
(* the API behind it.  A behaviour has one of the three: they keep nothing of *)
(* each other but the session, and what another window does to the data is    *)
(* among the requests of others in each module.                               *)
(* The variables of the same name are those of the page that is open.         *)
EXTENDS Integers, Sequences, FiniteSets

CONSTANTS
    Transactions,  \* of TransactionDesk
    At, PageSize, MaxNew, MaxTroubles,
    Tenants,       \* of Panel
    Rows, HomeOf, MaxChanges,
    Links,         \* of Access
    MaxAttempts, Window, LockTime, MaxTime, MaxAsks,
    Presses, Person, Others, None

VARIABLES
    open,                            \* "desk", "panel" or "access"
    status, call, feed, load, cut,   \* of the page that is open
    unsaid, socket, strip, sums, follows, member,
    troubles,                                         \* of the desk
    page, role, suspended, last, session, dialog, renewal, switching, moved,
    changes,                                          \* of the panel
    kind, account, link, mailed, lost, form, now, asks, fails, turns,
    carried                                           \* of the forms

Desk == INSTANCE TransactionDesk WITH Rows <- Transactions
Panels == INSTANCE Panel
Forms == INSTANCE Access

ASSUME DeskAssumption == Desk!ConstantsAssumption
ASSUME PanelAssumption == Panels!ConstantsAssumption
ASSUME FormsAssumption == Forms!ConstantsAssumption

deskVars == <<unsaid, socket, strip, sums, follows, member, troubles>>
panelVars ==
    <<page, role, suspended, last, session, dialog, renewal, switching, moved, changes>>
formVars == <<kind, account, link, mailed, lost, form, now, asks, fails, turns, carried>>
vars == <<open, status, call, feed, load, cut, deskVars, panelVars, formVars>>

\* The variables of what is not open.
DeskAway ==
    /\ unsaid = None /\ socket = None /\ strip = None /\ sums = None
    /\ follows = None /\ member = None /\ troubles = None

PanelAway ==
    /\ page = None /\ role = None /\ suspended = None /\ last = None /\ session = None
    /\ dialog = None /\ renewal = None /\ switching = None /\ moved = None /\ changes = None

FormsAway ==
    /\ kind = None /\ account = None /\ link = None /\ mailed = None /\ lost = None
    /\ form = None /\ now = None /\ asks = None /\ fails = None /\ turns = None
    /\ carried = None

NoList == status = None /\ feed = None /\ load = None /\ cut = None

Init ==
    \/ open = "desk" /\ Desk!Init /\ PanelAway /\ FormsAway
    \/ open = "panel" /\ Panels!Init /\ DeskAway /\ FormsAway
    \/ open = "access" /\ Forms!Init /\ DeskAway /\ PanelAway /\ NoList

RestOfDesk == UNCHANGED <<open, panelVars, formVars>>

Next ==
    \/ open = "desk" /\ Desk!Next /\ RestOfDesk
    \/ open = "panel" /\ Panels!Next /\ UNCHANGED <<open, deskVars, formVars>>
    \/ open = "access" /\ Forms!Next
          /\ UNCHANGED <<open, status, feed, load, cut, deskVars, panelVars>>

\* The fairness of the desk; the properties of the others need none.
Fairness == WF_vars(open = "desk" /\ Desk!GoesOn /\ RestOfDesk)

Spec == Init /\ [][Next]_vars

FairSpec == Spec /\ Fairness

----------------------------------------------------------------------------
(* Properties: those of the three modules, of the page that is open.            *)

\* What the page offers is refused only because the row or the user's role is no
\* longer as the page knew it, or the tenant has been suspended since: the rules
\* of every page, of the guards, of the controllers and of the handlers agree.
RefusedOnlyIfChanged ==
    [][/\ open = "desk" => Desk!RefusesOnlyChanged
       /\ open = "panel" => Panels!RefusesOnlyChanged]_vars

\* Only a request that crossed with a dispute takes it back (transition).
DisputeHoldsUnlessCrossed == [][open = "desk" => Desk!LeavesDisputeByCrossing]_vars

\* The desk catches up by itself with what the socket and restarts lost, unless
\* a load was cut or an error is shown (useRealtimeTransactions).
DeskCatchesUp == <>[](open = "desk" => cut \/ Desk!CaughtUp)

\* A list of the panel shows nothing of another tenant than the active one,
\* whatever crosses but a renewal that moved the session (TenantSwitcher), and
\* the list of the desk shows no transaction twice (buildWhere's cursor).
NothingForeignOrTwice ==
    /\ open = "panel" => Panels!ShownRowsAreOfTheTenant
    /\ open = "desk" => Desk!NoRowTwice

\* A list at rest shows what the page's own requests did, unless their success
\* came while the first load after a change of tenant, answered before it, was on
\* its way (the mutations' invalidateQueries).
OwnActionsAreShown == open = "panel" => Panels!OwnActionsAreShown

\* A link that was followed or superseded does nothing any more, whatever request
\* had read it before (verifyEmail, resetPassword).
SpentLinkDoesNothing == [][open = "access" => Forms!SpentLinkDoesNothing]_vars

\* Who is not verified has a link that works, or a mail that failed
\* (resendVerificationEmail).
UnverifiedHasLink == open = "access" => Forms!UnverifiedHasLink

\* An account is locked only after MAX_FAILED_ATTEMPTS wrong passwords in one
\* window since the last success (recordFailedLogin).
LockedOnlyAfterMax == open = "access" => Forms!LockedOnlyAfterMax

----------------------------------------------------------------------------
(* What the documents say and the code does not keep: see the README.         *)

\* Only a captured transaction is confirmed (confirm's conflictMessage).
OnlyCapturedIsConfirmed == [][open = "desk" => Desk!ConfirmsOnlyCaptured]_vars

\* The desk catches up without exception (RF-TXN-007).
DeskAlwaysCatchesUp == <>[](open = "desk" => Desk!CaughtUp)

\* Only a switch changes the selected business (docs/10_PLAN_DESARROLLO.md).
SelectedTenantIsKept == [][open = "panel" => Panels!KeepsSelectedTenant]_vars

\* A rotated secret goes on working for a day (the dialog that asks for it).
PreviousSecretWorks == [][open = "panel" => Panels!KeepsPreviousSecret]_vars

\* Who is told to try the registration again can get a link (register).
AnotherTryHelps == [][open = "access" => Forms!HelpsWhoTriesAgain]_vars

=============================================================================
