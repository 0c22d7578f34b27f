------------------------------- MODULE Access -------------------------------
(* How a person gets into an account: registration, the links mailed to       *)
(* verify the address and to choose a new password, the login with its        *)
(* lockout, the forms of the dashboard that ask for them, and requests of     *)
(* other windows and of API clients at the same time.  The account of a       *)
(* platform administrator has the same lockout and none of the links.  What   *)
(* a login gives, the session, is the subject of Sessions.                    *)
(*                                                                            *)
(* A handler reads a row and writes it by id after the password was hashed or *)
(* checked, which takes long: the two are steps of their own.                 *)
EXTENDS Integers, FiniteSets, Sequences

CONSTANTS
    Person,      \* the request of the form that is open
    Others,      \* requests of other windows and of API clients
    Links,       \* the links that may be mailed
    None,        \* no value
    MaxAttempts, \* MAX_FAILED_ATTEMPTS
    Window,      \* LOGIN_WINDOW_MS, in ticks of the clock
    LockTime,    \* LOCK_DURATION_MS, the same
    MaxTime,     \* ticks of the clock
    MaxAsks      \* requests, in all

\* Assumed by Dashboard, which gives the constants their values.
ConstantsAssumption ==
    /\ MaxAttempts \in Nat \ {0}
    /\ {Window, LockTime, MaxTime, MaxAsks} \subseteq Nat
    /\ Person \notin Others
    /\ None \notin Links \union Nat

Calls == {Person} \union Others

VARIABLES
    kind,     \* whose account it is: of a "user" or of the "platform"
    account,  \* its row
    link,     \* of each link: what it is for, and whether it was consumed
    mailed,   \* links that reached the mailbox
    lost,     \* links whose mail could not be sent
    call,     \* each request's way through its handler
    form,     \* the form that is open
    now,      \* the clock
    asks,     \* requests so far
    fails,    \* when each wrong password was recorded, since the last success
    turns,    \* successful logins and resets so far
    carried   \* a wrong password begun before the last of them was recorded after

mailbox == <<link, mailed, lost>>
history == <<fails, turns, carried>>
vars == <<kind, account, mailbox, call, form, now, asks, history>>

NoAccount == [exists |-> FALSE, verified |-> FALSE, password |-> 0, attempts |-> 0,
              started |-> None, locked |-> None]

Idle == [phase |-> "idle", op |-> None, password |-> 0, link |-> None, seen |-> NoAccount,
         turn |-> 0, rows |-> {}]

Ends(c, phase) == call' = [call EXCEPT ![c] = [Idle EXCEPT !.phase = phase, !.op = call[c].op]]

Continues(c, phase) == call' = [call EXCEPT ![c].phase = phase]

Live(purpose) == {t \in Links : link[t].for = purpose /\ link[t].state = "live"}

Fresh == CHOOSE t \in Links : link[t].state = "none"

IsFresh == \E t \in Links : link[t].state = "none"

----------------------------------------------------------------------------
(* Registration, and the mails.                                               *)

\* One transaction writes the account, its tenant, its trial and the first link;
\* the unique index on the address refuses a second account.
Register(c) ==
    /\ call[c].op = "register" /\ call[c].phase = "sent"
    /\ \/ /\ account.exists
          /\ Ends(c, "refused")
          /\ UNCHANGED <<account, link>>
       \/ /\ ~account.exists /\ IsFresh
          /\ account' = [NoAccount EXCEPT !.exists = TRUE, !.password = call[c].password]
          /\ link' = [link EXCEPT ![Fresh] = [for |-> "verify", state |-> "live"]]
          /\ call' = [call EXCEPT ![c].phase = "mail", ![c].link = Fresh]
    /\ UNCHANGED <<kind, mailed, lost, form, now, asks, history>>

\* resendVerificationEmail, forgotPassword: whom there is nothing to mail to
\* gets the same answer.
Purpose(op) == IF op = "resend" THEN "verify" ELSE "reset"

ReadForLink(c) ==
    /\ call[c].op \in {"resend", "forgot"} /\ call[c].phase = "sent"
    /\ IF account.exists /\ (call[c].op = "resend" => ~account.verified)
       THEN Continues(c, "supersede")
       ELSE Ends(c, "ok")
    /\ UNCHANGED <<kind, account, mailbox, form, now, asks, history>>

\* The links before it are consumed in the transaction that makes the new one:
\* those that its UPDATE sees ...
SeeEarlier(c) ==
    /\ call[c].phase = "supersede"
    /\ call' = [call EXCEPT ![c].phase = "issue", ![c].rows = Live(Purpose(call[c].op))]
    /\ UNCHANGED <<kind, account, mailbox, form, now, asks, history>>

\* Mutant of Superseded: the new link is written first.
SupersededToo(c) == call[c].rows \union {Fresh}

Superseded(c) == call[c].rows

\* ... whatever was committed meanwhile.
Issue(c) ==
    /\ call[c].phase = "issue" /\ IsFresh
    /\ link' = [t \in Links |->
                  IF t \in Superseded(c) THEN [for |-> Purpose(call[c].op), state |-> "spent"]
                  ELSE IF t = Fresh THEN [for |-> Purpose(call[c].op), state |-> "live"]
                  ELSE link[t]]
    /\ call' = [call EXCEPT ![c].phase = "mail", ![c].link = Fresh]
    /\ UNCHANGED <<kind, account, mailed, lost, form, now, asks, history>>

\* The mail is sent after the commit; when it cannot be, the request fails.
Mail(c) ==
    /\ call[c].phase = "mail"
    /\ \/ mailed' = mailed \union {call[c].link} /\ Ends(c, "ok") /\ UNCHANGED lost
       \/ lost' = lost \union {call[c].link} /\ Ends(c, "refused") /\ UNCHANGED mailed
    /\ UNCHANGED <<kind, account, link, form, now, asks, history>>

----------------------------------------------------------------------------
(* Following a link.                                                          *)

PurposeOf(op) == IF op = "verify" THEN "verify" ELSE "reset"

\* A link is refused when it was consumed, and from some time on anyway.
ReadLink(c) ==
    /\ call[c].op \in {"verify", "reset"} /\ call[c].phase = "sent"
    /\ \/ call[c].link \in Live(PurposeOf(call[c].op)) /\ Continues(c, "follow")
       \/ Ends(c, "refused")
    /\ UNCHANGED <<kind, account, mailbox, form, now, asks, history>>

\* Mutant of StillUnused: the link is consumed by its id alone.
UnusedWhenRead(t) == TRUE

\* updateMany .. WHERE consumedAt IS NULL; its time is compared with the clock of
\* the read.
StillUnused(t) == link[t].state = "live"

\* A success starts the counting of wrong passwords anew.
StartsAnew ==
    /\ fails' = <<>>
    /\ turns' = turns + 1
    /\ carried' = FALSE

Unlocked(row) == [row EXCEPT !.attempts = 0, !.started = None, !.locked = None]

FollowLink(c) ==
    /\ call[c].phase = "follow"
    /\ \/ /\ ~StillUnused(call[c].link)
          /\ Ends(c, "refused")
          /\ UNCHANGED <<account, link, history>>
       \/ /\ StillUnused(call[c].link)
          /\ link' = [link EXCEPT ![call[c].link].state = "spent"]
          /\ \/ /\ call[c].op = "verify"
                /\ account' = [account EXCEPT !.verified = TRUE]
                /\ UNCHANGED history
             \/ /\ call[c].op = "reset"
                /\ account' = [Unlocked(account) EXCEPT !.password = call[c].password]
                /\ StartsAnew
          /\ Ends(c, "ok")
    /\ UNCHANGED <<kind, mailed, lost, form, now, asks>>

----------------------------------------------------------------------------
(* The login, of a user and of a platform administrator.                      *)

ReadForLogin(c) ==
    /\ call[c].op = "login" /\ call[c].phase = "sent"
    /\ IF ~account.exists \/ (account.locked # None /\ account.locked > now)
       THEN Ends(c, "refused")
       ELSE call' = [call EXCEPT ![c].phase = "check", ![c].seen = account, ![c].turn = turns]
    /\ UNCHANGED <<kind, account, mailbox, form, now, asks, history>>

\* Mutant of WindowOver: the window never ends.
WindowNeverOver(row) == row.started = None

WindowOver(row) == row.started = None \/ now - row.started > Window

\* recordFailedLogin: all of it from the row that was read before.
AfterFailure(row) ==
    LET n == IF WindowOver(row) THEN 1 ELSE row.attempts + 1
    IN  [account EXCEPT !.attempts = n,
                        !.started = IF WindowOver(row) THEN now ELSE row.started,
                        !.locked = IF n >= MaxAttempts THEN now + LockTime ELSE None]

WrongPassword(c) ==
    /\ call[c].phase = "check"
    /\ call[c].password # call[c].seen.password
    /\ account' = AfterFailure(call[c].seen)
    /\ fails' = Append(fails, now)
    /\ carried' = (carried \/ call[c].turn # turns)
    /\ Ends(c, "refused")
    /\ UNCHANGED <<kind, mailbox, form, now, asks, turns>>

\* A platform administrator has a second factor in place of the verified
\* address; a wrong code counts as a wrong password.
MayEnter(row) == kind = "platform" \/ row.verified

RightPassword(c) ==
    /\ call[c].phase = "check"
    /\ call[c].password = call[c].seen.password
    /\ \/ /\ ~MayEnter(call[c].seen)
          /\ Ends(c, "refused")
          /\ UNCHANGED <<account, history>>
       \/ /\ MayEnter(call[c].seen)
          /\ account' = Unlocked(account)
          /\ StartsAnew
          /\ Ends(c, "ok")
    /\ UNCHANGED <<kind, mailbox, form, now, asks>>

----------------------------------------------------------------------------
(* The forms.                                                                 *)

OpOf(page) ==
    CASE page = "registro" -> "register" [] page = "verificar-correo" -> "verify"
      [] page = "login" -> "login" [] page = "recuperar-clave" -> "forgot"
      [] page = "restablecer-clave" -> "reset"

Pages == IF kind = "platform" THEN {"login"}
         ELSE {"registro", "verificar-correo", "login", "recuperar-clave", "restablecer-clave"}

\* A link opens its page; a page that is left forgets its request.
Visit(page, t) ==
    /\ page # form.page \/ t # form.link
    /\ IF page \in {"verificar-correo", "restablecer-clave"}
       THEN t \in mailed /\ link[t].for = PurposeOf(OpOf(page))
       ELSE t = None
    /\ form' = [page |-> page, link |-> t, state |-> "open"]
    /\ UNCHANGED <<kind, account, mailbox, call, now, asks, history>>

Asks(c, op, password, t) ==
    /\ call[c].phase = "idle"
    /\ password # 0 <=> op \in {"register", "login", "reset"}
    /\ asks < MaxAsks
    /\ asks' = asks + 1
    /\ call' = [call EXCEPT ![c] = [Idle EXCEPT !.phase = "sent", !.op = op, !.link = t,
                                                !.password = password]]
    /\ UNCHANGED <<kind, account, mailbox, now, history>>

\* A form that failed may be sent again.  The page that verifies the address
\* asks by itself, once, and has no button.
Submit(password) ==
    /\ \/ form.state = "open"
       \/ form.state = "error" /\ form.page # "verificar-correo"
    /\ form' = [form EXCEPT !.state = "busy"]
    /\ Asks(Person, OpOf(form.page), password, form.link)

\* The page says that it is done, or shows an error: the answer's, or that none
\* came.
Answered ==
    /\ call[Person].phase \in {"ok", "refused"}
    /\ call' = [call EXCEPT ![Person] = Idle]
    /\ form' = IF form.state = "busy" /\ OpOf(form.page) = call[Person].op
               THEN [form EXCEPT !.state = IF call[Person].phase = "ok" THEN "done" ELSE "error"]
               ELSE form
    /\ UNCHANGED <<kind, account, mailbox, now, asks, history>>

LoseAnswer ==
    /\ call[Person].phase = "ok" /\ form.state = "busy"
    /\ call' = [call EXCEPT ![Person] = Idle]
    /\ form' = [form EXCEPT !.state = "error"]
    /\ UNCHANGED <<kind, account, mailbox, now, asks, history>>

\* The same requests from elsewhere; only an API client asks for the mail again.
Elsewhere(c, op, password, t) ==
    /\ kind = "platform" => op = "login"
    /\ op \in {"verify", "reset"} => t \in mailed /\ link[t].for = PurposeOf(op)
    /\ op \notin {"verify", "reset"} => t = None
    /\ Asks(c, op, password, t)
    /\ UNCHANGED form

Forget(c) ==
    /\ c # Person /\ call[c].phase \in {"ok", "refused"}
    /\ call' = [call EXCEPT ![c] = Idle]
    /\ UNCHANGED <<kind, account, mailbox, form, now, asks, history>>

Tick ==
    /\ now < MaxTime
    /\ now' = now + 1
    /\ UNCHANGED <<kind, account, mailbox, call, form, asks, history>>

----------------------------------------------------------------------------
Passwords == {1, 2}  \* the right one and another, which a reset may make the right one

Init ==
    /\ kind \in {"user", "platform"}
    /\ \/ kind = "user" /\ account = NoAccount
       \/ account = [NoAccount EXCEPT !.exists = TRUE, !.verified = (kind = "user"),
                                      !.password = 1]
    /\ link = [t \in Links |-> [for |-> None, state |-> "none"]]
    /\ mailed = {} /\ lost = {}
    /\ call = [c \in Calls |-> Idle]
    /\ form = [page |-> "login", link |-> None, state |-> "open"]
    /\ now = 0 /\ asks = 0
    /\ fails = <<>> /\ turns = 0 /\ carried = FALSE

Handle ==
    \E c \in Calls :
        \/ Register(c) \/ ReadForLink(c) \/ SeeEarlier(c) \/ Issue(c) \/ Mail(c)
        \/ ReadLink(c) \/ FollowLink(c)
        \/ ReadForLogin(c) \/ WrongPassword(c) \/ RightPassword(c)
        \/ Forget(c)

Browse ==
    \/ \E page \in Pages, t \in Links \union {None} : Visit(page, t)
    \/ \E password \in Passwords \union {0} : Submit(password)
    \/ Answered \/ LoseAnswer

Ops == {"register", "resend", "forgot", "verify", "reset", "login"}

Next ==
    \/ Handle \/ Browse \/ Tick
    \/ \E c \in Others, op \in Ops, password \in Passwords \union {0}, t \in Links \union {None} :
          Elsewhere(c, op, password, t)

Spec == Init /\ [][Next]_vars

----------------------------------------------------------------------------
(* Properties; Dashboard checks them, the action formulas as [][..]_vars.     *)

\* A link that was followed, or that a later one superseded, does nothing any
\* more, though a request may have read it before (verifyEmail, resetPassword:
\* it is consumed under a condition, in the transaction of what it does).
SpentLinkDoesNothing ==
    \A c \in Calls :
       call[c].phase = "follow" /\ call'[c].phase = "ok" => link[call[c].link].state = "live"

\* Who is not verified has a link that works: a later mail takes none away
\* without bringing another, though requests for it cross.  The exceptions are
\* a mail that could not be sent, and time.
UnverifiedHasLink ==
    account.exists /\ ~account.verified /\ kind = "user" =>
       \E t \in Live("verify") :
          t \in mailed \union lost \/ \E c \in Calls : call[c].phase = "mail" /\ call[c].link = t

\* The account is locked only after MAX_FAILED_ATTEMPTS wrong passwords in one
\* window since the last success: attempts that cross may be counted once, but
\* none is counted twice or after its window.  The exception is an attempt that
\* began before that success and was recorded after it.
LockedOnlyAfterMax ==
    account.locked # None /\ ~carried =>
       Cardinality({i \in DOMAIN fails : fails[i] \in account.started .. account.started + Window})
          >= MaxAttempts

\* The answer to a registration whose mail could not be sent says "Intentalo
\* nuevamente mas tarde": whoever tries again and is refused has a link.
HelpsWhoTriesAgain ==
    \A c \in Calls :
       call[c].op = "register" /\ call[c].phase = "sent" /\ call'[c].phase = "refused"
          => account.verified \/ ~ Live("verify") \subseteq lost

TypeOK ==
    /\ kind \in {"user", "platform"}
    /\ account.attempts \in 0 .. MaxAsks /\ account.password \in Passwords \union {0}
    /\ \A t \in Links : link[t].for \in {None, "verify", "reset"}
                        /\ link[t].state \in {"none", "live", "spent"}
    /\ mailed \subseteq Links /\ lost \subseteq Links
    /\ form.state \in {"open", "busy", "done", "error"}
    /\ now \in 0 .. MaxTime /\ asks \in 0 .. MaxAsks
=============================================================================
