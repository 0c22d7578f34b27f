-------------------------- MODULE DashboardProofs --------------------------
(* Theorems about Dashboard, for any tenants, rows, transactions, links,      *)
(* requests, limits and bounds.  A behaviour has one page open, so each part  *)
(* below is about what one of the three modules may do.                       *)
EXTENDS Dashboard, FiniteSetTheorems, TLAPS

----------------------------------------------------------------------------
(* The forms: types.                                                          *)

Account ==
    [exists : BOOLEAN, verified : BOOLEAN, password : Nat, attempts : Nat,
     started : Nat \union {None}, locked : Nat \union {None}]

Link == [for : {None, "verify", "reset"}, state : {"none", "live", "spent"}]

FormPhases == {"idle", "sent", "supersede", "issue", "mail", "follow", "check", "ok", "refused"}

FormCall ==
    [phase : FormPhases, op : Forms!Ops \union {None}, password : Nat,
     link : Links \union {None}, seen : Account, turn : Nat, rows : SUBSET Links]

Form ==
    [page : {"registro", "verificar-correo", "login", "recuperar-clave", "restablecer-clave"},
     link : Links \union {None}, state : {"open", "busy", "done", "error"}]

FormsTyped ==
    /\ kind \in {"user", "platform"}
    /\ account \in Account
    /\ link \in [Links -> Link]
    /\ mailed \subseteq Links /\ lost \subseteq Links
    /\ call \in [Forms!Calls -> FormCall]
    /\ form \in Form
    /\ now \in Nat /\ asks \in Nat
    /\ fails \in Seq(Nat) /\ turns \in Nat /\ carried \in BOOLEAN

\* A mail is of a link.
MailingLink == \A c \in Forms!Calls : call[c].phase = "mail" => call[c].link \in Links

\* What no step of another request touches.
OthersKept(c) == \A d \in Forms!Calls \ {c} : call'[d] = call[d]

LEMMA FormsIdle ==
    Forms!Idle \in FormCall /\ Forms!Idle.phase = "idle" /\ Forms!NoAccount \in Account
BY DEF Forms!Idle, Forms!NoAccount, FormCall, FormPhases, Account

LEMMA EndsCall ==
    ASSUME FormsTyped, NEW c \in Forms!Calls, NEW ph \in {"ok", "refused"}, Forms!Ends(c, ph)
    PROVE  /\ call' \in [Forms!Calls -> FormCall]
           /\ call'[c].phase = ph
           /\ OthersKept(c)
<1>1. [Forms!Idle EXCEPT !.phase = ph, !.op = call[c].op] \in FormCall
    BY FormsIdle DEF FormsTyped, FormCall, FormPhases
<1>2. [Forms!Idle EXCEPT !.phase = ph, !.op = call[c].op].phase = ph
    BY FormsIdle DEF FormCall
<1> QED
    BY <1>1, <1>2 DEF FormsTyped, Forms!Ends, OthersKept

LEMMA ContinuesCall ==
    ASSUME FormsTyped, NEW c \in Forms!Calls, NEW ph \in FormPhases, Forms!Continues(c, ph)
    PROVE  /\ call' \in [Forms!Calls -> FormCall]
           /\ call'[c] = [call[c] EXCEPT !.phase = ph]
           /\ OthersKept(c)
<1>1. [call[c] EXCEPT !.phase = ph] \in FormCall
    BY DEF FormsTyped, FormCall
<1> QED
    BY <1>1 DEF FormsTyped, Forms!Continues, OthersKept

LEMMA AsksCall ==
    ASSUME FormsTyped, NEW c \in Forms!Calls, NEW op \in Forms!Ops, NEW password \in Nat,
           NEW t \in Links \union {None}, Forms!Asks(c, op, password, t)
    PROVE  /\ call' \in [Forms!Calls -> FormCall]
           /\ call[c].phase = "idle" /\ call'[c].phase = "sent"
           /\ OthersKept(c)
<1> DEFINE asked == [Forms!Idle EXCEPT !.phase = "sent", !.op = op, !.link = t,
                                       !.password = password]
<1>1. asked \in FormCall /\ asked.phase = "sent"
    BY FormsIdle DEF FormCall, FormPhases
<1>2. call[c].phase = "idle" /\ call' = [call EXCEPT ![c] = asked]
    BY DEF Forms!Asks
<1> HIDE DEF asked
<1> QED
    BY <1>1, <1>2 DEF FormsTyped, OthersKept

LEMMA FreshIsNone ==
    ASSUME Forms!IsFresh
    PROVE  Forms!Fresh \in Links /\ link[Forms!Fresh].state = "none"
BY DEF Forms!IsFresh, Forms!Fresh

\* The links that a request may follow or supersede.
LEMMA LiveLinks ==
    ASSUME NEW purpose, NEW t \in Forms!Live(purpose)
    PROVE  t \in Links /\ link[t].for = purpose /\ link[t].state = "live"
BY DEF Forms!Live

LEMMA PasswordsAreNat == Forms!Passwords \union {0} \subseteq Nat
BY DEF Forms!Passwords

\* What the form that is open asks for.
LEMMA FormAsks ==
    ASSUME FormsTyped
    PROVE  /\ Forms!OpOf(form.page) \in Forms!Ops
           /\ form.link \in Links \union {None}
BY DEF FormsTyped, Form, Forms!OpOf, Forms!Ops

\* Rows of an account in the same state of its registration.
SameState(row, other) == row.exists = other.exists /\ row.verified = other.verified

LEMMA UnlockedRow ==
    ASSUME NEW row \in Account
    PROVE  /\ Forms!Unlocked(row) \in Account
           /\ Forms!Unlocked(row).attempts = 0
           /\ Forms!Unlocked(row).started = None /\ Forms!Unlocked(row).locked = None
           /\ SameState(Forms!Unlocked(row), row)
<1> DEFINE r1 == [row EXCEPT !.attempts = 0]
           r2 == [r1 EXCEPT !.started = None]
           r3 == [r2 EXCEPT !.locked = None]
<1>1. r1 \in Account /\ r1.attempts = 0 /\ SameState(r1, row)
    BY DEF Account, SameState
<1> HIDE DEF r1
<1>2. r2 \in Account /\ r2.attempts = 0 /\ r2.started = None /\ SameState(r2, row)
    BY <1>1 DEF Account, SameState
<1> HIDE DEF r2
<1>3. r3 \in Account /\ r3.attempts = 0 /\ r3.started = None /\ r3.locked = None
      /\ SameState(r3, row)
    BY <1>2 DEF Account, SameState
<1> QED
    BY <1>3 DEF r1, r2, Forms!Unlocked

LEMMA FailureTyped ==
    ASSUME FormsTyped, NEW row \in Account
    PROVE  /\ Forms!AfterFailure(row) \in Account
           /\ SameState(Forms!AfterFailure(row), account)
           /\ Forms!AfterFailure(row).started =
                 IF Forms!WindowOver(row) THEN now ELSE row.started
           /\ Forms!AfterFailure(row).attempts =
                 IF Forms!WindowOver(row) THEN 1 ELSE row.attempts + 1
           /\ \/ Forms!AfterFailure(row).locked = None
              \/ Forms!AfterFailure(row).attempts >= MaxAttempts
<1> DEFINE n == IF Forms!WindowOver(row) THEN 1 ELSE row.attempts + 1
           from == IF Forms!WindowOver(row) THEN now ELSE row.started
           until == IF n >= MaxAttempts THEN now + LockTime ELSE None
           r1 == [account EXCEPT !.attempts = n]
           r2 == [r1 EXCEPT !.started = from]
           r3 == [r2 EXCEPT !.locked = until]
<1>1. n \in Nat /\ from \in Nat \union {None} /\ until \in Nat \union {None}
    BY FormsAssumption DEF FormsTyped, Account, Forms!ConstantsAssumption
<1>2. until = None \/ n >= MaxAttempts
    OBVIOUS
<1>3. Forms!AfterFailure(row) = r3
    BY Zenon DEF Forms!AfterFailure
<1> HIDE DEF n, from, until, r1
<1>4. r1 \in Account /\ r1.attempts = n /\ SameState(r1, account)
    BY <1>1 DEF r1, Account, SameState, FormsTyped
<1> HIDE DEF r2
<1>5. r2 \in Account /\ r2.attempts = n /\ r2.started = from /\ SameState(r2, account)
    BY <1>1, <1>4 DEF r2, Account, SameState
<1> HIDE DEF r3
<1>6. r3 \in Account /\ r3.attempts = n /\ r3.started = from /\ r3.locked = until
      /\ SameState(r3, account)
    BY <1>1, <1>5 DEF r3, Account, SameState
<1>7. Forms!AfterFailure(row).attempts = n /\ Forms!AfterFailure(row).started = from
    BY <1>3, <1>6
<1> QED
    BY <1>2, <1>3, <1>6, <1>7 DEF n, from

LEMMA UnlockedTyped ==
    ASSUME FormsTyped
    PROVE  /\ Forms!Unlocked(account) \in Account
           /\ \A password \in Nat :
                 [Forms!Unlocked(account) EXCEPT !.password = password] \in Account
           /\ [account EXCEPT !.verified = TRUE] \in Account
<1>1. [account EXCEPT !.verified = TRUE] \in Account
    BY DEF FormsTyped, Account
<1>2. Forms!Unlocked(account) \in Account
    BY UnlockedRow DEF FormsTyped
<1>3. ASSUME NEW row \in Account, NEW password \in Nat
      PROVE  [row EXCEPT !.password = password] \in Account
    BY DEF Account
<1> QED
    BY <1>1, <1>2, <1>3

LEMMA HistoryTyped ==
    ASSUME FormsTyped, Forms!StartsAnew \/ UNCHANGED Forms!history
    PROVE  fails' \in Seq(Nat) /\ turns' \in Nat /\ carried' \in BOOLEAN
<1>1. CASE Forms!StartsAnew
  <2>1. fails' = <<>> /\ turns' = turns + 1
      BY <1>1, Zenon DEF Forms!StartsAnew
  <2>2. carried' \in BOOLEAN
      BY <1>1, Zenon DEF Forms!StartsAnew
  <2> QED
      BY <2>1, <2>2 DEF FormsTyped
<1>2. CASE UNCHANGED Forms!history
    BY <1>2 DEF Forms!history, FormsTyped
<1> QED
    BY <1>1, <1>2

LEMMA FirstAccount ==
    ASSUME Forms!Init
    PROVE  /\ account \in Account
           /\ account.exists => kind # "user" \/ account.verified
           /\ account.attempts = 0 /\ account.started = None /\ account.locked = None
<1>1. PICK b \in BOOLEAN : b = (kind = "user")
    OBVIOUS
<1>2. CASE account = Forms!NoAccount
    BY <1>2, FormsIdle DEF Forms!NoAccount
<1>3. CASE account = [Forms!NoAccount EXCEPT !.exists = TRUE, !.verified = (kind = "user"),
                                             !.password = 1]
  <2>1. account = [Forms!NoAccount EXCEPT !.exists = TRUE, !.verified = b, !.password = 1]
      BY <1>1, <1>3, Zenon
  <2>2. account = [exists |-> TRUE, verified |-> b, password |-> 1, attempts |-> 0,
                   started |-> None, locked |-> None]
      BY <2>1 DEF Forms!NoAccount
  <2>3. account \in Account /\ account.verified = b
        /\ account.attempts = 0 /\ account.started = None /\ account.locked = None
      BY <2>2 DEF Account
  <2>4. account.verified = (kind = "user")
      BY <1>1, <2>3, Zenon
  <2>5. kind # "user" \/ account.verified
      BY <2>4, Zenon
  <2> QED
      BY <2>3, <2>5, Zenon
<1> QED
    BY <1>2, <1>3, Zenon DEF Forms!Init

LEMMA FormsTypedInit == Forms!Init => FormsTyped
<1> SUFFICES ASSUME Forms!Init PROVE FormsTyped
    OBVIOUS
<1>1. account \in Account
    BY FirstAccount
<1>2. link \in [Links -> Link]
    BY DEF Forms!Init, Link
<1>3. form \in Form
    BY DEF Forms!Init, Form
<1>4. call \in [Forms!Calls -> FormCall]
    BY FormsIdle DEF Forms!Init
<1>5. mailed \subseteq Links /\ lost \subseteq Links /\ now \in Nat /\ asks \in Nat
    BY DEF Forms!Init
<1>6. fails \in Seq(Nat) /\ turns \in Nat
    BY DEF Forms!Init
<1>8. carried \in BOOLEAN
    BY Zenon DEF Forms!Init
<1>7. kind \in {"user", "platform"}
    BY DEF Forms!Init
<1> QED
    BY <1>1, <1>2, <1>3, <1>4, <1>5, <1>6, <1>7, <1>8, Zenon DEF FormsTyped

LEMMA FormsTypedStep == FormsTyped /\ MailingLink /\ Forms!Next => FormsTyped'
<1> SUFFICES ASSUME FormsTyped, MailingLink, Forms!Next PROVE FormsTyped'
    OBVIOUS
<1> USE DEF Forms!mailbox, Forms!history
<1>1. ASSUME NEW c \in Forms!Calls, Forms!Register(c) PROVE FormsTyped'
  <2>1. CASE /\ ~account.exists /\ Forms!IsFresh
             /\ account' = [Forms!NoAccount EXCEPT !.exists = TRUE, !.password = call[c].password]
             /\ link' = [link EXCEPT ![Forms!Fresh] = [for |-> "verify", state |-> "live"]]
             /\ call' = [call EXCEPT ![c].phase = "mail", ![c].link = Forms!Fresh]
    <3>1. account' \in Account
        BY <2>1, FormsIdle DEF Account, FormsTyped, FormCall
    <3>2. link' \in [Links -> Link]
        BY <2>1, FreshIsNone DEF FormsTyped, Link
    <3>3. [call[c] EXCEPT !.phase = "mail", !.link = Forms!Fresh] \in FormCall
        BY <2>1, FreshIsNone DEF FormsTyped, FormCall, FormPhases
    <3>4. call' \in [Forms!Calls -> FormCall]
        BY <2>1, <3>3 DEF FormsTyped
    <3> QED
        BY <1>1, <3>1, <3>2, <3>4 DEF FormsTyped, Forms!Register
  <2>2. CASE Forms!Ends(c, "refused") /\ UNCHANGED <<account, link>>
      BY <1>1, <2>2, EndsCall DEF FormsTyped, Forms!Register
  <2> QED
      BY <1>1, <2>1, <2>2 DEF Forms!Register
<1>2. ASSUME NEW c \in Forms!Calls, Forms!ReadForLink(c) PROVE FormsTyped'
  <2>1. call' \in [Forms!Calls -> FormCall]
      BY <1>2, EndsCall, ContinuesCall DEF Forms!ReadForLink, FormPhases
  <2> QED
      BY <1>2, <2>1 DEF Forms!ReadForLink, FormsTyped
<1>3. ASSUME NEW c \in Forms!Calls, Forms!SeeEarlier(c) PROVE FormsTyped'
  <2> DEFINE rows == Forms!Live(Forms!Purpose(call[c].op))
  <2>0. rows \subseteq Links
      BY LiveLinks
  <2>a. call' = [call EXCEPT ![c].phase = "issue", ![c].rows = rows]
      BY <1>3 DEF Forms!SeeEarlier
  <2> HIDE DEF rows
  <2>1. [call[c] EXCEPT !.phase = "issue", !.rows = rows] \in FormCall
      BY <2>0 DEF FormsTyped, FormCall, FormPhases
  <2>2. call' \in [Forms!Calls -> FormCall]
      BY <2>a, <2>1 DEF FormsTyped
  <2> QED
      BY <1>3, <2>2 DEF Forms!SeeEarlier, FormsTyped
<1>4. ASSUME NEW c \in Forms!Calls, Forms!Issue(c) PROVE FormsTyped'
  <2>1. [call[c] EXCEPT !.phase = "mail", !.link = Forms!Fresh] \in FormCall
      BY <1>4, FreshIsNone DEF Forms!Issue, FormsTyped, FormCall, FormPhases
  <2>2. call' \in [Forms!Calls -> FormCall]
      BY <1>4, <2>1 DEF Forms!Issue, FormsTyped
  <2>3. link' \in [Links -> Link]
      BY <1>4 DEF Forms!Issue, FormsTyped, Forms!Purpose, Link
  <2> QED
      BY <1>4, <2>2, <2>3 DEF Forms!Issue, FormsTyped
<1>5. ASSUME NEW c \in Forms!Calls, Forms!Mail(c) PROVE FormsTyped'
  <2>1. call' \in [Forms!Calls -> FormCall]
      BY <1>5, EndsCall DEF Forms!Mail
  <2>2. mailed' \subseteq Links /\ lost' \subseteq Links
      BY <1>5 DEF Forms!Mail, FormsTyped, MailingLink
  <2> QED
      BY <1>5, <2>1, <2>2 DEF Forms!Mail, FormsTyped
<1>6. ASSUME NEW c \in Forms!Calls, Forms!ReadLink(c) PROVE FormsTyped'
  <2>1. call' \in [Forms!Calls -> FormCall]
      BY <1>6, EndsCall, ContinuesCall DEF Forms!ReadLink, FormPhases
  <2> QED
      BY <1>6, <2>1 DEF Forms!ReadLink, FormsTyped
<1>7. ASSUME NEW c \in Forms!Calls, Forms!FollowLink(c) PROVE FormsTyped'
  <2>1. call' \in [Forms!Calls -> FormCall]
      BY <1>7, EndsCall DEF Forms!FollowLink
  <2>a. ASSUME NEW t \in Links PROVE [link[t] EXCEPT !.state = "spent"] \in Link
      BY DEF FormsTyped, Link
  <2>2. link' \in [Links -> Link]
      BY <1>7, <2>a DEF Forms!FollowLink, FormsTyped
  <2>3. call[c].password \in Nat
      BY DEF FormsTyped, FormCall
  <2>4. account' \in Account
      BY <1>7, <2>3, UnlockedTyped DEF Forms!FollowLink, FormsTyped
  <2>5. fails' \in Seq(Nat) /\ turns' \in Nat /\ carried' \in BOOLEAN
      BY <1>7, HistoryTyped DEF Forms!FollowLink
  <2> QED
      BY <1>7, <2>1, <2>2, <2>4, <2>5 DEF Forms!FollowLink, FormsTyped
<1>8. ASSUME NEW c \in Forms!Calls, Forms!ReadForLogin(c) PROVE FormsTyped'
  <2>1. [call[c] EXCEPT !.phase = "check", !.seen = account, !.turn = turns] \in FormCall
      BY DEF FormsTyped, FormCall, FormPhases
  <2>2. call' \in [Forms!Calls -> FormCall]
      BY <1>8, <2>1, EndsCall DEF Forms!ReadForLogin, FormsTyped
  <2> QED
      BY <1>8, <2>2 DEF Forms!ReadForLogin, FormsTyped
<1>9. ASSUME NEW c \in Forms!Calls, Forms!WrongPassword(c) PROVE FormsTyped'
  <2>1. call' \in [Forms!Calls -> FormCall]
      BY <1>9, EndsCall DEF Forms!WrongPassword
  <2>2. call[c].seen \in Account
      BY DEF FormsTyped, FormCall
  <2>3. account' \in Account
      BY <1>9, <2>2, FailureTyped DEF Forms!WrongPassword
  <2>4. fails' \in Seq(Nat)
      BY <1>9 DEF Forms!WrongPassword, FormsTyped
  <2>5. carried' \in BOOLEAN
      BY <1>9 DEF Forms!WrongPassword, FormsTyped
  <2> QED
      BY <1>9, <2>1, <2>3, <2>4, <2>5 DEF Forms!WrongPassword, FormsTyped
<1>10. ASSUME NEW c \in Forms!Calls, Forms!RightPassword(c) PROVE FormsTyped'
  <2>1. call' \in [Forms!Calls -> FormCall]
      BY <1>10, EndsCall DEF Forms!RightPassword
  <2>2. account' \in Account
      BY <1>10, UnlockedTyped DEF Forms!RightPassword, FormsTyped
  <2>3. fails' \in Seq(Nat) /\ turns' \in Nat /\ carried' \in BOOLEAN
      BY <1>10, HistoryTyped DEF Forms!RightPassword
  <2> QED
      BY <1>10, <2>1, <2>2, <2>3 DEF Forms!RightPassword, FormsTyped
<1>11. ASSUME NEW c \in Forms!Calls, Forms!Forget(c) PROVE FormsTyped'
    BY <1>11, FormsIdle DEF Forms!Forget, FormsTyped
<1>12. ASSUME NEW pg \in Forms!Pages, NEW t \in Links \union {None}, Forms!Visit(pg, t)
       PROVE  FormsTyped'
  <2>1. form' \in Form
      BY <1>12 DEF Forms!Visit, Forms!Pages, Form
  <2> QED
      BY <1>12, <2>1 DEF Forms!Visit, FormsTyped
<1>13. ASSUME NEW password \in Forms!Passwords \union {0}, Forms!Submit(password)
       PROVE  FormsTyped'
  <2>1. Person \in Forms!Calls /\ password \in Nat
      BY PasswordsAreNat DEF Forms!Calls
  <2>2. call' \in [Forms!Calls -> FormCall]
      BY <1>13, <2>1, FormAsks, AsksCall DEF Forms!Submit
  <2>3. form' \in Form
      BY <1>13 DEF Forms!Submit, FormsTyped, Form
  <2> QED
      BY <1>13, <2>2, <2>3 DEF Forms!Submit, Forms!Asks, FormsTyped
<1>14. CASE Forms!Answered
  <2>1. form' \in Form
      BY <1>14 DEF Forms!Answered, FormsTyped, Form
  <2> QED
      BY <1>14, <2>1, FormsIdle DEF Forms!Answered, FormsTyped, Forms!Calls
<1>15. CASE Forms!LoseAnswer
  <2>1. form' \in Form
      BY <1>15 DEF Forms!LoseAnswer, FormsTyped, Form
  <2> QED
      BY <1>15, <2>1, FormsIdle DEF Forms!LoseAnswer, FormsTyped, Forms!Calls
<1>16. CASE Forms!Tick
    BY <1>16 DEF Forms!Tick, FormsTyped
<1>17. ASSUME NEW c \in Others, NEW op \in Forms!Ops, NEW password \in Forms!Passwords \union {0},
              NEW t \in Links \union {None}, Forms!Elsewhere(c, op, password, t)
       PROVE  FormsTyped'
  <2>1. c \in Forms!Calls /\ password \in Nat
      BY PasswordsAreNat DEF Forms!Calls
  <2>2. call' \in [Forms!Calls -> FormCall]
      BY <1>17, <2>1, AsksCall DEF Forms!Elsewhere
  <2> QED
      BY <1>17, <2>2 DEF Forms!Elsewhere, Forms!Asks, FormsTyped
<1> QED
    BY <1>1, <1>2, <1>3, <1>4, <1>5, <1>6, <1>7, <1>8, <1>9, <1>10, <1>11, <1>12, <1>13, <1>14,
       <1>15, <1>16, <1>17
    DEF Forms!Next, Forms!Handle, Forms!Browse

----------------------------------------------------------------------------
(* The forms: links.                                                          *)

\* A request that is about to consume links knows what they are for.
KnowsLinks(c) ==
    /\ call[c].phase \in {"supersede", "issue"} => call[c].op \in {"resend", "forgot"}
    /\ call[c].phase = "issue" =>
          \A t \in call[c].rows : /\ link[t].for = Forms!Purpose(call[c].op)
                                  /\ link[t].state # "none"
    /\ call[c].phase = "follow" =>
          /\ call[c].op \in {"verify", "reset"} /\ call[c].link \in Links
          /\ link[call[c].link].for = Forms!PurposeOf(call[c].op)
          /\ link[call[c].link].state # "none"
    /\ call[c].phase = "mail" => call[c].link \in Links

\* A link that works was mailed, or its mail failed, or is about to be sent.
IsSent(t) ==
    t \in mailed \union lost \/ \E c \in Forms!Calls : call[c].phase = "mail" /\ call[c].link = t

LinksInv ==
    /\ \A c \in Forms!Calls : KnowsLinks(c)
    /\ \A t \in Forms!Live("verify") : IsSent(t)
    /\ account.exists /\ ~account.verified /\ kind = "user" => Forms!Live("verify") # {}

\* What a link is for, once it was made, does not change.
PurposesKept ==
    \A t \in Links : link[t].state # "none" => /\ link'[t].state # "none"
                                               /\ link'[t].for = link[t].for

\* Those whose mail was sent, or may be sent, stay so.
SendingKept == \A t \in Links : IsSent(t) => IsSent(t)'

\* Nobody comes to be registered and not verified.
NoneWaitsAnew ==
    account'.exists /\ ~account'.verified => account.exists /\ ~account.verified

LEMMA LinksMail == LinksInv => MailingLink
BY DEF LinksInv, MailingLink, KnowsLinks

LEMMA KnownStays ==
    ASSUME FormsTyped, PurposesKept, NEW c \in Forms!Calls, KnowsLinks(c), call'[c] = call[c]
    PROVE  KnowsLinks(c)'
<1>1. \A t \in call[c].rows : t \in Links
    BY DEF FormsTyped, FormCall
<1> QED
    BY <1>1 DEF KnowsLinks, PurposesKept

\* Requests past their use of links know nothing that may become wrong.
LEMMA KnownBefore ==
    ASSUME NEW c \in Forms!Calls, call'[c].phase \in {"idle", "sent", "check", "ok", "refused"}
    PROVE  KnowsLinks(c)'
BY DEF KnowsLinks

LEMMA SameLinks ==
    ASSUME UNCHANGED link
    PROVE  PurposesKept /\ Forms!Live("verify")' = Forms!Live("verify")
BY DEF PurposesKept, Forms!Live

\* One request moves, and it is not one that mails: all mails stay on their way.
LEMMA SendingStays ==
    ASSUME NEW c \in Forms!Calls, OthersKept(c), call[c].phase # "mail",
           UNCHANGED <<mailed, lost>>
    PROVE  SendingKept
BY DEF OthersKept, SendingKept, IsSent

\* Steps that leave the links and the account as they are.
LEMMA LinksStay ==
    ASSUME FormsTyped, LinksInv, NEW c \in Forms!Calls, OthersKept(c), call[c].phase # "mail",
           KnowsLinks(c)', UNCHANGED <<kind, link, mailed, lost>>, NoneWaitsAnew
    PROVE  LinksInv'
<1>1. PurposesKept /\ Forms!Live("verify")' = Forms!Live("verify") /\ SendingKept
    BY SameLinks, SendingStays
<1>2. \A d \in Forms!Calls : KnowsLinks(d)'
    BY <1>1, KnownStays DEF OthersKept, LinksInv
<1>3. \A t \in Forms!Live("verify")' : IsSent(t)'
    BY <1>1, LiveLinks DEF SendingKept, LinksInv
<1> QED
    BY <1>1, <1>2, <1>3 DEF LinksInv, NoneWaitsAnew

LEMMA LinksInit == Forms!Init => LinksInv
<1> SUFFICES ASSUME Forms!Init PROVE LinksInv
    OBVIOUS
<1>1. \A c \in Forms!Calls : KnowsLinks(c)
    BY DEF Forms!Init, Forms!Idle, KnowsLinks
<1>2. Forms!Live("verify") = {}
    BY DEF Forms!Init, Forms!Live
<1>3. account.exists => kind # "user" \/ account.verified
    BY FirstAccount
<1> QED
    BY <1>1, <1>2, <1>3 DEF LinksInv

LEMMA LinksStep == FormsTyped /\ LinksInv /\ Forms!Next => LinksInv'
<1> SUFFICES ASSUME FormsTyped, LinksInv, Forms!Next PROVE LinksInv'
    OBVIOUS
<1> USE DEF Forms!mailbox, Forms!history
<1>1. ASSUME NEW c \in Forms!Calls, Forms!Register(c) PROVE LinksInv'
  <2>1. CASE Forms!Ends(c, "refused") /\ UNCHANGED <<account, link>>
    <3>1. KnowsLinks(c)'
        BY <2>1, EndsCall, KnownBefore
    <3> QED
        BY <1>1, <2>1, <3>1, EndsCall, LinksStay DEF Forms!Register, NoneWaitsAnew
  <2>2. CASE /\ ~account.exists /\ Forms!IsFresh
             /\ account' = [Forms!NoAccount EXCEPT !.exists = TRUE, !.password = call[c].password]
             /\ link' = [link EXCEPT ![Forms!Fresh] = [for |-> "verify", state |-> "live"]]
             /\ call' = [call EXCEPT ![c].phase = "mail", ![c].link = Forms!Fresh]
    <3>1. PICK fresh \in Links : fresh = Forms!Fresh /\ link[fresh].state = "none"
        BY <2>2, FreshIsNone
    <3>2. call'[c].phase = "mail" /\ call'[c].link = fresh /\ OthersKept(c)
        BY <2>2, <3>1 DEF FormsTyped, FormCall, OthersKept
    <3>3. PurposesKept
        BY <2>2, <3>1 DEF FormsTyped, Link, PurposesKept
    <3>4. SendingKept
        BY <1>1, <3>2, SendingStays DEF Forms!Register
    <3>5. \A d \in Forms!Calls : KnowsLinks(d)'
      <4>1. KnowsLinks(c)'
          BY <3>1, <3>2 DEF KnowsLinks
      <4> QED
          BY <4>1, <3>2, <3>3, KnownStays DEF OthersKept, LinksInv
    <3>6. ASSUME NEW t \in Links PROVE t \in Forms!Live("verify")' <=>
                                         t \in Forms!Live("verify") \/ t = fresh
        BY <2>2, <3>1 DEF Forms!Live, FormsTyped
    <3>7. IsSent(fresh)'
        BY <3>2 DEF IsSent
    <3>8. Forms!Live("verify")' \subseteq Links /\ Forms!Live("verify")' # {}
        BY <3>6, <3>1 DEF Forms!Live
    <3> QED
        BY <3>4, <3>5, <3>6, <3>7, <3>8 DEF LinksInv, SendingKept
  <2> QED
      BY <1>1, <2>1, <2>2 DEF Forms!Register
<1>2. ASSUME NEW c \in Forms!Calls, Forms!ReadForLink(c) PROVE LinksInv'
  <2>1. CASE Forms!Continues(c, "supersede")
    <3>1. call'[c] = [call[c] EXCEPT !.phase = "supersede"] /\ OthersKept(c)
        BY <2>1, ContinuesCall DEF FormPhases
    <3>2. KnowsLinks(c)'
        BY <1>2, <3>1 DEF Forms!ReadForLink, KnowsLinks, FormsTyped, FormCall
    <3> QED
        BY <1>2, <3>1, <3>2, LinksStay DEF Forms!ReadForLink, NoneWaitsAnew
  <2>2. CASE Forms!Ends(c, "ok")
    <3>1. KnowsLinks(c)'
        BY <2>2, EndsCall, KnownBefore
    <3> QED
        BY <1>2, <2>2, <3>1, EndsCall, LinksStay DEF Forms!ReadForLink, NoneWaitsAnew
  <2> QED
      BY <1>2, <2>1, <2>2 DEF Forms!ReadForLink
<1>3. ASSUME NEW c \in Forms!Calls, Forms!SeeEarlier(c) PROVE LinksInv'
  <2> DEFINE seen == Forms!Live(Forms!Purpose(call[c].op))
  <2>1. \A t \in seen : link[t].for = Forms!Purpose(call[c].op) /\ link[t].state # "none"
      BY LiveLinks
  <2>2. call' = [call EXCEPT ![c].phase = "issue", ![c].rows = seen]
      BY <1>3 DEF Forms!SeeEarlier
  <2> HIDE DEF seen
  <2>3. /\ call'[c].phase = "issue" /\ call'[c].rows = seen /\ call'[c].op = call[c].op
        /\ OthersKept(c)
      BY <2>2 DEF FormsTyped, FormCall, OthersKept
  <2>4. call[c].op \in {"resend", "forgot"} /\ call[c].phase = "supersede"
      BY <1>3 DEF Forms!SeeEarlier, LinksInv, KnowsLinks
  <2>5. UNCHANGED <<kind, account, link, mailed, lost>>
      BY <1>3 DEF Forms!SeeEarlier
  <2>6. KnowsLinks(c)'
      BY <2>1, <2>3, <2>4, <2>5 DEF KnowsLinks, Forms!Purpose
  <2> QED
      BY <2>3, <2>4, <2>5, <2>6, LinksStay DEF NoneWaitsAnew
<1>4. ASSUME NEW c \in Forms!Calls, Forms!Issue(c) PROVE LinksInv'
  <2>1. PICK fresh \in Links : fresh = Forms!Fresh /\ link[fresh].state = "none"
      BY <1>4, FreshIsNone DEF Forms!Issue
  <2>2. PICK purpose : purpose = Forms!Purpose(call[c].op)
      OBVIOUS
  <2>3. /\ call[c].phase = "issue" /\ call[c].rows \subseteq Links
        /\ \A t \in call[c].rows : link[t].for = purpose /\ link[t].state # "none"
      BY <1>4, <2>2 DEF Forms!Issue, LinksInv, KnowsLinks, FormsTyped, FormCall
  <2>4. /\ \A t \in Links :
              link'[t] = IF t \in call[c].rows THEN [for |-> purpose, state |-> "spent"]
                         ELSE IF t = fresh THEN [for |-> purpose, state |-> "live"]
                         ELSE link[t]
        /\ call' = [call EXCEPT ![c].phase = "mail", ![c].link = fresh]
        /\ UNCHANGED <<kind, account, mailed, lost>>
      BY <1>4, <2>1, <2>2 DEF Forms!Issue, Forms!Superseded
  <2>5. call'[c].phase = "mail" /\ call'[c].link = fresh /\ OthersKept(c)
      BY <2>4 DEF FormsTyped, FormCall, OthersKept
  <2>6. PurposesKept
      BY <2>1, <2>3, <2>4 DEF PurposesKept
  <2>7. SendingKept
      BY <2>3, <2>4, <2>5, SendingStays
  <2>8. \A d \in Forms!Calls : KnowsLinks(d)'
    <3>1. KnowsLinks(c)'
        BY <2>5 DEF KnowsLinks
    <3> QED
        BY <3>1, <2>5, <2>6, KnownStays DEF OthersKept, LinksInv
  <2>9. IsSent(fresh)'
      BY <2>5 DEF IsSent
  <2>10. ASSUME NEW t \in Links, link'[t].for = "verify", link'[t].state = "live"
         PROVE  t = fresh \/ t \in Forms!Live("verify")
      BY <2>4, <2>10 DEF Forms!Live
  <2>11. \A t \in Forms!Live("verify")' : IsSent(t)'
      BY <2>7, <2>9, <2>10 DEF Forms!Live, LinksInv, SendingKept
  <2>12. CASE purpose = "verify"
    <3>1. fresh \in Forms!Live("verify")'
        BY <2>1, <2>3, <2>4, <2>12 DEF Forms!Live
    <3> QED
        BY <3>1, <2>8, <2>11 DEF LinksInv
  <2>13. CASE purpose # "verify"
    <3>1. \A t \in Forms!Live("verify") : t \in Forms!Live("verify")'
        BY <2>1, <2>3, <2>4, <2>13 DEF Forms!Live
    <3> QED
        BY <3>1, <2>4, <2>8, <2>11 DEF LinksInv
  <2> QED
      BY <2>12, <2>13
<1>5. ASSUME NEW c \in Forms!Calls, Forms!Mail(c) PROVE LinksInv'
  <2>1. call'[c].phase \in {"ok", "refused"} /\ OthersKept(c)
      BY <1>5, EndsCall DEF Forms!Mail
  <2>2. PurposesKept /\ Forms!Live("verify")' = Forms!Live("verify")
      BY <1>5, SameLinks DEF Forms!Mail
  <2>3. \A d \in Forms!Calls : KnowsLinks(d)'
    <3>1. KnowsLinks(c)'
        BY <2>1, KnownBefore
    <3> QED
        BY <3>1, <2>1, <2>2, KnownStays DEF OthersKept, LinksInv
  <2>4. /\ mailed \subseteq mailed' /\ lost \subseteq lost'
        /\ call[c].link \in mailed' \union lost'
        /\ UNCHANGED <<kind, account>>
      BY <1>5 DEF Forms!Mail
  <2>5. SendingKept
      BY <2>1, <2>4 DEF SendingKept, IsSent, OthersKept
  <2>6. \A t \in Forms!Live("verify")' : IsSent(t)'
      BY <2>2, <2>5, LiveLinks DEF SendingKept, LinksInv
  <2> QED
      BY <2>2, <2>3, <2>4, <2>6 DEF LinksInv
<1>6. ASSUME NEW c \in Forms!Calls, Forms!ReadLink(c) PROVE LinksInv'
  <2>1. call[c].phase # "mail" /\ UNCHANGED <<kind, account, link, mailed, lost>>
      BY <1>6 DEF Forms!ReadLink
  <2>2. OthersKept(c) /\ KnowsLinks(c)'
    <3>1. CASE Forms!Ends(c, "refused")
        BY <3>1, EndsCall, KnownBefore
    <3>2. CASE call[c].link \in Forms!Live(Forms!PurposeOf(call[c].op)) /\ Forms!Continues(c, "follow")
      <4>1. call'[c] = [call[c] EXCEPT !.phase = "follow"] /\ OthersKept(c)
          BY <3>2, ContinuesCall DEF FormPhases
      <4>2. /\ call[c].link \in Links
            /\ link[call[c].link].for = Forms!PurposeOf(call[c].op)
            /\ link[call[c].link].state = "live"
          BY <3>2, LiveLinks
      <4>3. call[c] \in FormCall /\ call[c].op \in {"verify", "reset"}
          BY <1>6 DEF FormsTyped, Forms!ReadLink
      <4>4. /\ call'[c].phase = "follow" /\ call'[c].op = call[c].op
            /\ call'[c].link = call[c].link
          BY <4>1, <4>3 DEF FormCall
      <4> QED
          BY <2>1, <4>1, <4>2, <4>3, <4>4 DEF KnowsLinks, Forms!PurposeOf
    <3> QED
        BY <1>6, <3>1, <3>2 DEF Forms!ReadLink
  <2> QED
      BY <2>1, <2>2, LinksStay DEF NoneWaitsAnew
<1>7. ASSUME NEW c \in Forms!Calls, Forms!FollowLink(c) PROVE LinksInv'
  <2>1. call'[c].phase \in {"ok", "refused"} /\ OthersKept(c)
      BY <1>7, EndsCall DEF Forms!FollowLink
  <2>2. KnowsLinks(c)' /\ call[c].phase # "mail" /\ UNCHANGED <<kind, mailed, lost>>
      BY <1>7, <2>1, KnownBefore DEF Forms!FollowLink
  <2>3. CASE UNCHANGED <<account, link>>
      BY <2>1, <2>2, <2>3, LinksStay DEF NoneWaitsAnew
  <2>4. CASE /\ Forms!StillUnused(call[c].link)
             /\ link' = [link EXCEPT ![call[c].link].state = "spent"]
             /\ \/ call[c].op = "verify" /\ account' = [account EXCEPT !.verified = TRUE]
                \/ /\ call[c].op = "reset"
                   /\ account' = [Forms!Unlocked(account) EXCEPT !.password = call[c].password]
    <3>1. /\ call[c].phase = "follow" /\ call[c].link \in Links
          /\ link[call[c].link].for = Forms!PurposeOf(call[c].op)
        BY <1>7 DEF Forms!FollowLink, LinksInv, KnowsLinks
    <3>2. /\ \A t \in Links : link'[t].for = link[t].for
          /\ \A t \in Links \ {call[c].link} : link'[t] = link[t]
          /\ link'[call[c].link].state = "spent"
        BY <2>4, <3>1 DEF FormsTyped, Link
    <3>3. PurposesKept /\ SendingKept
        BY <2>1, <2>2, <3>1, <3>2, SendingStays DEF PurposesKept
    <3>4. \A d \in Forms!Calls : KnowsLinks(d)'
        BY <2>1, <2>2, <3>3, KnownStays DEF OthersKept, LinksInv
    <3>5. \A t \in Forms!Live("verify")' : IsSent(t)'
        BY <3>2, <3>3 DEF Forms!Live, LinksInv, SendingKept
    <3>6. CASE call[c].op = "verify"
      <4>1. account'.verified
          BY <2>4, <3>6 DEF FormsTyped, Account
      <4> QED
          BY <4>1, <3>4, <3>5 DEF LinksInv
    <3>7. CASE call[c].op = "reset"
      <4>1. NoneWaitsAnew
        <5>1. Forms!Unlocked(account) \in Account /\ SameState(Forms!Unlocked(account), account)
            BY UnlockedRow DEF FormsTyped
        <5>2. account' = [Forms!Unlocked(account) EXCEPT !.password = call[c].password]
            BY <2>4, <3>7
        <5> QED
            BY <5>1, <5>2 DEF NoneWaitsAnew, SameState, Account
      <4>2. \A t \in Forms!Live("verify") : t \in Forms!Live("verify")'
          BY <3>1, <3>2, <3>7 DEF Forms!Live, Forms!PurposeOf
      <4> QED
          BY <2>2, <3>4, <3>5, <4>1, <4>2 DEF LinksInv, NoneWaitsAnew
    <3> QED
        BY <2>4, <3>6, <3>7
  <2> QED
      BY <1>7, <2>3, <2>4 DEF Forms!FollowLink
<1>8. ASSUME NEW c \in Forms!Calls, Forms!ReadForLogin(c) PROVE LinksInv'
  <2>1. call'[c].phase \in {"check", "refused"} /\ OthersKept(c)
    <3>1. CASE Forms!Ends(c, "refused")
        BY <3>1, EndsCall
    <3>2. CASE call' = [call EXCEPT ![c].phase = "check", ![c].seen = account, ![c].turn = turns]
        BY <3>2 DEF FormsTyped, FormCall, OthersKept
    <3> QED
        BY <1>8, <3>1, <3>2 DEF Forms!ReadForLogin
  <2> QED
      BY <1>8, <2>1, KnownBefore, LinksStay DEF Forms!ReadForLogin, NoneWaitsAnew
<1>9. ASSUME NEW c \in Forms!Calls, Forms!WrongPassword(c) PROVE LinksInv'
  <2>1. call'[c].phase = "refused" /\ OthersKept(c)
      BY <1>9, EndsCall DEF Forms!WrongPassword
  <2>2. NoneWaitsAnew
    <3>1. call[c].seen \in Account
        BY DEF FormsTyped, FormCall
    <3> QED
        BY <1>9, <3>1, FailureTyped DEF Forms!WrongPassword, NoneWaitsAnew, SameState
  <2> QED
      BY <1>9, <2>1, <2>2, KnownBefore, LinksStay DEF Forms!WrongPassword
<1>10. ASSUME NEW c \in Forms!Calls, Forms!RightPassword(c) PROVE LinksInv'
  <2>1. call'[c].phase \in {"ok", "refused"} /\ OthersKept(c)
      BY <1>10, EndsCall DEF Forms!RightPassword
  <2>2. NoneWaitsAnew
      BY <1>10, UnlockedRow DEF Forms!RightPassword, NoneWaitsAnew, SameState, FormsTyped
  <2> QED
      BY <1>10, <2>1, <2>2, KnownBefore, LinksStay DEF Forms!RightPassword
<1>11. ASSUME NEW c \in Forms!Calls, call[c].phase \in {"ok", "refused"},
              call' = [call EXCEPT ![c] = Forms!Idle],
              UNCHANGED <<kind, account, link, mailed, lost>>
       PROVE  LinksInv'
  <2>1. call'[c].phase = "idle" /\ OthersKept(c)
      BY <1>11, FormsIdle DEF FormsTyped, OthersKept
  <2> QED
      BY <1>11, <2>1, KnownBefore, LinksStay DEF NoneWaitsAnew
<1>12. ASSUME NEW c \in Forms!Calls, NEW op \in Forms!Ops, NEW password \in Nat,
              NEW t \in Links \union {None}, Forms!Asks(c, op, password, t)
       PROVE  LinksInv'
  <2>1. call[c].phase = "idle" /\ call'[c].phase = "sent" /\ OthersKept(c)
      BY <1>12, AsksCall
  <2> QED
      BY <1>12, <2>1, KnownBefore, LinksStay DEF Forms!Asks, NoneWaitsAnew
<1>13. ASSUME UNCHANGED <<kind, account, link, mailed, lost, call>> PROVE LinksInv'
    BY <1>13 DEF LinksInv, KnowsLinks, IsSent, Forms!Live
<1>14. CASE Forms!Handle
  <2>1. ASSUME NEW c \in Forms!Calls, Forms!Forget(c) PROVE LinksInv'
      BY <2>1, <1>11 DEF Forms!Forget
  <2> QED
      BY <1>1, <1>2, <1>3, <1>4, <1>5, <1>6, <1>7, <1>8, <1>9, <1>10, <1>14, <2>1
      DEF Forms!Handle
<1>15. CASE Forms!Browse
  <2>0. Person \in Forms!Calls
      BY DEF Forms!Calls
  <2>1. ASSUME NEW pg \in Forms!Pages, NEW t \in Links \union {None}, Forms!Visit(pg, t)
        PROVE  LinksInv'
      BY <2>1, <1>13 DEF Forms!Visit
  <2>2. ASSUME NEW password \in Forms!Passwords \union {0}, Forms!Submit(password)
        PROVE  LinksInv'
      BY <2>0, <2>2, <1>12, FormAsks, PasswordsAreNat DEF Forms!Submit
  <2>3. CASE Forms!Answered
      BY <2>0, <2>3, <1>11 DEF Forms!Answered
  <2>4. CASE Forms!LoseAnswer
      BY <2>0, <2>4, <1>11 DEF Forms!LoseAnswer
  <2> QED
      BY <1>15, <2>1, <2>2, <2>3, <2>4 DEF Forms!Browse
<1>16. CASE Forms!Tick
    BY <1>16, <1>13 DEF Forms!Tick
<1>17. ASSUME NEW c \in Others, NEW op \in Forms!Ops, NEW password \in Forms!Passwords \union {0},
              NEW t \in Links \union {None}, Forms!Elsewhere(c, op, password, t)
       PROVE  LinksInv'
    BY <1>17, <1>12, PasswordsAreNat DEF Forms!Elsewhere, Forms!Calls
<1> QED
    BY <1>14, <1>15, <1>16, <1>17 DEF Forms!Next

----------------------------------------------------------------------------
(* The forms: the lockout.                                                    *)

\* The wrong passwords recorded within a window's length of a time.
Recorded(from) == {i \in DOMAIN fails : fails[i] \in from .. from + Window}

\* A row whose count of attempts is of wrong passwords that were recorded.
Tallied(row) ==
    /\ row.started = None => row.attempts = 0
    /\ row.started # None => /\ row.started <= now
                             /\ row.attempts <= Cardinality(Recorded(row.started))
    /\ row.locked # None => row.attempts >= MaxAttempts

Checks(c) == call[c].phase = "check" /\ call[c].turn = turns

LockInv ==
    /\ \A c \in Forms!Calls : call[c].phase = "check" => call[c].turn <= turns
    /\ ~carried => /\ Tallied(account)
                   /\ \A c \in Forms!Calls : Checks(c) => Tallied(call[c].seen)

LEMMA RecordedFinite ==
    ASSUME FormsTyped, NEW from \in Nat
    PROVE  IsFiniteSet(Recorded(from)) /\ Cardinality(Recorded(from)) \in Nat
<1>1. DOMAIN fails = 1 .. Len(fails) /\ Len(fails) \in Nat
    BY DEF FormsTyped
<1>2. IsFiniteSet(1 .. Len(fails))
    BY <1>1, FS_Interval
<1>3. Recorded(from) \in SUBSET (1 .. Len(fails))
    BY <1>1 DEF Recorded
<1> QED
    BY <1>2, <1>3, FS_Subset, FS_CardinalityType

\* What is recorded now counts for the windows that are not over.
LEMMA OneMoreRecorded ==
    ASSUME FormsTyped, fails' = Append(fails, now), NEW from \in Nat, from <= now
    PROVE  /\ Cardinality(Recorded(from)) \in Nat /\ Cardinality(Recorded(from)') \in Nat
           /\ Cardinality(Recorded(from)) <= Cardinality(Recorded(from)')
           /\ now - from <= Window =>
                 Cardinality(Recorded(from)') = Cardinality(Recorded(from)) + 1
<1> DEFINE n == Len(fails)
           after == {i \in DOMAIN fails' : fails'[i] \in from .. from + Window}
<1>1. n \in Nat /\ DOMAIN fails = 1 .. n /\ DOMAIN fails' = 1 .. n + 1
      /\ fails'[n + 1] = now /\ \A i \in 1 .. n : fails'[i] = fails[i]
    BY DEF FormsTyped
<1>2. now \in Nat /\ Window \in Nat
    BY FormsAssumption DEF FormsTyped, Forms!ConstantsAssumption
<1>3. IsFiniteSet(Recorded(from)) /\ Cardinality(Recorded(from)) \in Nat
    BY RecordedFinite
<1>4. Recorded(from)' = after
    BY DEF Recorded
<1> HIDE DEF n, after
<1>5. CASE now - from <= Window
  <2>1. after = Recorded(from) \cup {n + 1}
      BY <1>1, <1>2, <1>5 DEF Recorded, after
  <2>2. n + 1 \notin Recorded(from)
      BY <1>1 DEF Recorded
  <2>3. Cardinality(Recorded(from) \cup {n + 1}) = Cardinality(Recorded(from)) + 1
      BY <1>3, <2>2, FS_AddElement, Zenon
  <2> QED
      BY <1>3, <1>4, <2>1, <2>3
<1>6. CASE ~(now - from <= Window)
  <2>1. after = Recorded(from)
      BY <1>1, <1>2, <1>6 DEF Recorded, after
  <2> QED
      BY <1>3, <1>4, <1>6, <2>1
<1> QED
    BY <1>5, <1>6

\* The sizes of Forms are those of FiniteSets.
LEMMA CardinalityOfForms == \A S : Forms!Cardinality(S) = Cardinality(S)
BY DEF Forms!Cardinality, Cardinality

\* The lock waits for MaxAttempts of what is recorded.
LEMMA TalliedLock ==
    ASSUME FormsTyped, LockInv
    PROVE  Forms!LockedOnlyAfterMax
<1> SUFFICES ASSUME account.locked # None, ~carried
             PROVE  Cardinality(Recorded(account.started)) >= MaxAttempts
    BY CardinalityOfForms DEF Forms!LockedOnlyAfterMax, Recorded
<1>1. Tallied(account)
    BY DEF LockInv
<1>2. account \in Account /\ MaxAttempts \in Nat \ {0}
    BY FormsAssumption DEF FormsTyped, Forms!ConstantsAssumption
<1>3. account.started # None
    BY <1>1, <1>2 DEF Tallied, Account
<1>4. Cardinality(Recorded(account.started)) \in Nat
    BY <1>2, <1>3, RecordedFinite DEF Account
<1> QED
    BY <1>1, <1>2, <1>3, <1>4 DEF Tallied, Account

LEMMA LockInit == Forms!Init => LockInv
<1> SUFFICES ASSUME Forms!Init PROVE LockInv
    OBVIOUS
<1>1. account.attempts = 0 /\ account.started = None /\ account.locked = None
    BY FirstAccount
<1>2. \A c \in Forms!Calls : call[c].phase = "idle"
    BY DEF Forms!Init, Forms!Idle
<1> QED
    BY <1>1, <1>2 DEF LockInv, Checks, Tallied

\* Steps of a request that record nothing.
LEMMA LockStays ==
    ASSUME FormsTyped, LockInv, NEW c \in Forms!Calls, OthersKept(c),
           call'[c].phase # "check", UNCHANGED <<account, now, fails, turns, carried>>
    PROVE  LockInv'
<1>1. \A row : Tallied(row)' <=> Tallied(row)
    BY DEF Tallied, Recorded
<1>2. \A d \in Forms!Calls : Checks(d)' => Checks(d) /\ call'[d] = call[d]
    BY DEF Checks, OthersKept
<1> QED
    BY <1>1, <1>2 DEF LockInv, OthersKept

\* A success, from which the counting starts anew.
LEMMA LockAnew ==
    ASSUME FormsTyped, LockInv, NEW c \in Forms!Calls, OthersKept(c),
           call'[c].phase # "check", Forms!StartsAnew,
           account'.attempts = 0, account'.started = None, account'.locked = None
    PROVE  LockInv'
<1>1. turns \in Nat /\ turns' = turns + 1
    BY DEF FormsTyped, Forms!StartsAnew
<1>2. \A d \in Forms!Calls : call'[d].phase = "check" =>
           call'[d] = call[d] /\ call'[d].turn \in Nat /\ call'[d].turn <= turns
    BY DEF OthersKept, LockInv, FormsTyped, FormCall
<1>3. \A d \in Forms!Calls : ~Checks(d)'
    BY <1>1, <1>2 DEF Checks
<1>4. Tallied(account)'
    BY DEF Tallied
<1> QED
    BY <1>1, <1>2, <1>3, <1>4 DEF LockInv

LEMMA LockStep == FormsTyped /\ LockInv /\ Forms!Next => LockInv'
<1> SUFFICES ASSUME FormsTyped, LockInv, Forms!Next PROVE LockInv'
    OBVIOUS
<1> USE DEF Forms!mailbox, Forms!history
<1>1. ASSUME NEW c \in Forms!Calls,
             \/ Forms!Register(c) /\ account.exists
             \/ Forms!ReadForLink(c) \/ Forms!SeeEarlier(c) \/ Forms!Issue(c) \/ Forms!Mail(c)
             \/ Forms!ReadLink(c)
      PROVE  LockInv'
  <2>1. UNCHANGED <<account, now, fails, turns, carried>>
      BY <1>1 DEF Forms!Register, Forms!ReadForLink, Forms!SeeEarlier, Forms!Issue, Forms!Mail,
                  Forms!ReadLink
  <2>2. OthersKept(c) /\ call'[c].phase # "check"
    <3>1. ASSUME NEW rows, call' = [call EXCEPT ![c].phase = "issue", ![c].rows = rows]
          PROVE  OthersKept(c) /\ call'[c].phase # "check"
        BY <3>1 DEF FormsTyped, FormCall, OthersKept
    <3>2. ASSUME NEW t, call' = [call EXCEPT ![c].phase = "mail", ![c].link = t]
          PROVE  OthersKept(c) /\ call'[c].phase # "check"
        BY <3>2 DEF FormsTyped, FormCall, OthersKept
    <3>3. ASSUME NEW ph \in {"supersede", "follow"}, Forms!Continues(c, ph)
          PROVE  OthersKept(c) /\ call'[c].phase # "check"
        BY <3>3, ContinuesCall DEF FormsTyped, FormCall, FormPhases
    <3> QED
        BY <1>1, <3>1, <3>2, <3>3, EndsCall
        DEF Forms!Register, Forms!ReadForLink, Forms!SeeEarlier, Forms!Issue, Forms!Mail,
            Forms!ReadLink
  <2> QED
      BY <2>1, <2>2, LockStays
<1>2. ASSUME NEW c \in Forms!Calls, Forms!Register(c), ~account.exists PROVE LockInv'
  <2>1. /\ account' = [Forms!NoAccount EXCEPT !.exists = TRUE, !.password = call[c].password]
        /\ call' = [call EXCEPT ![c].phase = "mail", ![c].link = Forms!Fresh]
        /\ UNCHANGED <<now, fails, turns, carried>>
      BY <1>2 DEF Forms!Register
  <2>2. account'.attempts = 0 /\ account'.started = None /\ account'.locked = None
      BY <2>1 DEF Forms!NoAccount
  <2>3. OthersKept(c) /\ call'[c].phase # "check"
      BY <2>1 DEF FormsTyped, FormCall, OthersKept
  <2>4. \A row : Tallied(row)' <=> Tallied(row)
      BY <2>1 DEF Tallied, Recorded
  <2>5. Tallied(account)'
      BY <2>2 DEF Tallied
  <2>6. \A d \in Forms!Calls : Checks(d)' => Checks(d) /\ call'[d] = call[d]
      BY <2>1, <2>3 DEF Checks, OthersKept
  <2> QED
      BY <2>1, <2>3, <2>4, <2>5, <2>6 DEF LockInv, OthersKept
<1>3. ASSUME NEW c \in Forms!Calls, Forms!FollowLink(c) PROVE LockInv'
  <2>1. OthersKept(c) /\ call'[c].phase # "check" /\ UNCHANGED now
      BY <1>3, EndsCall DEF Forms!FollowLink
  <2>2. CASE UNCHANGED <<account, fails, turns, carried>>
      BY <2>1, <2>2, LockStays
  <2>3. CASE account' = [account EXCEPT !.verified = TRUE] /\ UNCHANGED <<fails, turns, carried>>
    <3>1. /\ account'.attempts = account.attempts /\ account'.started = account.started
          /\ account'.locked = account.locked
        BY <2>3 DEF FormsTyped, Account
    <3>2. Tallied(account)' <=> Tallied(account)
        BY <2>1, <2>3, <3>1 DEF Tallied, Recorded
    <3>3. \A row : Tallied(row)' <=> Tallied(row)
        BY <2>1, <2>3 DEF Tallied, Recorded
    <3>4. \A d \in Forms!Calls : Checks(d)' => Checks(d) /\ call'[d] = call[d]
        BY <2>1, <2>3 DEF Checks, OthersKept
    <3> QED
        BY <2>1, <2>3, <3>2, <3>3, <3>4 DEF LockInv, OthersKept
  <2>4. CASE /\ account' = [Forms!Unlocked(account) EXCEPT !.password = call[c].password]
             /\ Forms!StartsAnew
    <3>1. /\ Forms!Unlocked(account) \in Account /\ Forms!Unlocked(account).attempts = 0
          /\ Forms!Unlocked(account).started = None /\ Forms!Unlocked(account).locked = None
        BY UnlockedRow DEF FormsTyped
    <3>2. account'.attempts = 0 /\ account'.started = None /\ account'.locked = None
        BY <2>4, <3>1 DEF Account
    <3> QED
        BY <2>1, <2>4, <3>2, LockAnew
  <2> QED
      BY <1>3, <2>2, <2>3, <2>4 DEF Forms!FollowLink
<1>4. ASSUME NEW c \in Forms!Calls, Forms!ReadForLogin(c) PROVE LockInv'
  <2>1. UNCHANGED <<account, now, fails, turns, carried>>
      BY <1>4 DEF Forms!ReadForLogin
  <2>2. CASE Forms!Ends(c, "refused")
      BY <2>1, <2>2, EndsCall, LockStays
  <2>3. CASE call' = [call EXCEPT ![c].phase = "check", ![c].seen = account, ![c].turn = turns]
    <3>1. OthersKept(c) /\ call'[c].seen = account /\ call'[c].turn = turns
        BY <2>3 DEF FormsTyped, FormCall, OthersKept
    <3>2. \A row : Tallied(row)' <=> Tallied(row)
        BY <2>1 DEF Tallied, Recorded
    <3>3. \A d \in Forms!Calls \ {c} : Checks(d)' => Checks(d) /\ call'[d] = call[d]
        BY <2>1, <3>1 DEF Checks, OthersKept
    <3>4. \A d \in Forms!Calls : call'[d].phase = "check" => call'[d].turn <= turns
        BY <3>1 DEF LockInv, OthersKept, FormsTyped
    <3> QED
        BY <2>1, <3>1, <3>2, <3>3, <3>4 DEF LockInv
  <2> QED
      BY <1>4, <2>2, <2>3 DEF Forms!ReadForLogin
<1>5. ASSUME NEW c \in Forms!Calls, Forms!WrongPassword(c) PROVE LockInv'
  <2> DEFINE seen == call[c].seen
  <2>1. /\ OthersKept(c) /\ call'[c].phase # "check"
        /\ UNCHANGED <<now, turns>> /\ fails' = Append(fails, now)
        /\ account' = Forms!AfterFailure(seen)
        /\ call[c].phase = "check"
      BY <1>5, EndsCall DEF Forms!WrongPassword
  <2>2. ~carried' => ~carried /\ Checks(c)
      BY <1>5 DEF Forms!WrongPassword, Checks
  <2>3. ASSUME NEW row \in Account, Tallied(row)
        PROVE  Tallied(row)'
    <3>1. CASE row.started = None
        BY <2>3, <3>1 DEF Tallied
    <3>2. CASE row.started # None
      <4>1. PICK from \in Nat : from = row.started
          BY <3>2 DEF Account
      <4>2. from <= now /\ row.attempts <= Cardinality(Recorded(from))
          BY <2>3, <3>2, <4>1 DEF Tallied
      <4>3. Cardinality(Recorded(from)) <= Cardinality(Recorded(from)')
          BY <2>1, <4>2, OneMoreRecorded
      <4>4. Cardinality(Recorded(from)) \in Nat /\ Cardinality(Recorded(from)') \in Nat
          BY <2>1, <4>2, OneMoreRecorded
      <4>5. row.attempts <= Cardinality(Recorded(from)')
          BY <4>2, <4>3, <4>4 DEF Account
      <4> QED
          BY <2>1, <2>3, <3>2, <4>1, <4>2, <4>5 DEF Tallied
    <3> QED
        BY <3>1, <3>2
  <2>4. seen \in Account /\ now \in Nat /\ Window \in Nat
      BY FormsAssumption DEF FormsTyped, FormCall, Forms!ConstantsAssumption
  <2>5. ASSUME ~carried' PROVE Tallied(account)'
    <3>1. Tallied(seen)
        BY <2>2, <2>5 DEF LockInv
    <3>2. /\ account' \in Account
          /\ account'.started = (IF Forms!WindowOver(seen) THEN now ELSE seen.started)
          /\ account'.attempts = (IF Forms!WindowOver(seen) THEN 1 ELSE seen.attempts + 1)
          /\ account'.locked = None \/ account'.attempts >= MaxAttempts
        BY <2>1, <2>4, FailureTyped
    <3>3. PICK from \in Nat : /\ account'.started = from /\ from <= now
                              /\ account'.attempts <= Cardinality(Recorded(from)) + 1
                              /\ now - from <= Window
      <4>1. CASE Forms!WindowOver(seen)
        <5>1. Cardinality(Recorded(now)) \in Nat
            BY <2>4, RecordedFinite
        <5> QED
            BY <2>4, <3>2, <4>1, <5>1
      <4>2. CASE ~Forms!WindowOver(seen)
        <5>1. seen.started # None /\ seen.started \in Nat /\ now - seen.started <= Window
            BY <2>4, <4>2 DEF Forms!WindowOver, Account
        <5>2. seen.started <= now /\ seen.attempts <= Cardinality(Recorded(seen.started))
            BY <3>1, <5>1 DEF Tallied
        <5>3. Cardinality(Recorded(seen.started)) \in Nat /\ seen.attempts \in Nat
            BY <2>4, <5>1, RecordedFinite DEF Account
        <5> QED
            BY <3>2, <4>2, <5>1, <5>2, <5>3
      <4> QED
          BY <4>1, <4>2
    <3>4. account'.attempts <= Cardinality(Recorded(from)')
        BY <2>1, <3>3, OneMoreRecorded
    <3>5. account'.started # None
        BY <3>3, FormsAssumption DEF Forms!ConstantsAssumption
    <3> QED
        BY <2>1, <3>2, <3>3, <3>4, <3>5 DEF Tallied
  <2>6. ASSUME ~carried', NEW d \in Forms!Calls, Checks(d)' PROVE Tallied(call[d].seen)'
    <3>1. d # c /\ call'[d] = call[d] /\ Checks(d) /\ call[d].seen \in Account
        BY <2>1, <2>6 DEF Checks, OthersKept, FormsTyped, FormCall
    <3>2. Tallied(call[d].seen)
        BY <2>2, <2>6, <3>1 DEF LockInv
    <3>3. PICK row \in Account : row = call[d].seen
        BY <3>1
    <3>4. Tallied(row)'
        BY <3>2, <3>3, <2>3
    <3> QED
        BY <3>1, <3>3, <3>4
  <2> QED
      BY <2>1, <2>5, <2>6 DEF LockInv, OthersKept
<1>6. ASSUME NEW c \in Forms!Calls, Forms!RightPassword(c) PROVE LockInv'
  <2>1. OthersKept(c) /\ call'[c].phase # "check" /\ UNCHANGED now
      BY <1>6, EndsCall DEF Forms!RightPassword
  <2>2. CASE UNCHANGED <<account, fails, turns, carried>>
      BY <2>1, <2>2, LockStays
  <2>3. CASE account' = Forms!Unlocked(account) /\ Forms!StartsAnew
      BY <2>1, <2>3, UnlockedRow, LockAnew DEF FormsTyped
  <2> QED
      BY <1>6, <2>2, <2>3 DEF Forms!RightPassword
<1>7. ASSUME NEW c \in Forms!Calls, call' = [call EXCEPT ![c] = Forms!Idle],
             UNCHANGED <<account, now, fails, turns, carried>>
      PROVE  LockInv'
  <2>1. OthersKept(c) /\ call'[c].phase # "check"
      BY <1>7, FormsIdle DEF FormsTyped, OthersKept
  <2> QED
      BY <1>7, <2>1, LockStays
<1>8. ASSUME NEW c \in Forms!Calls, NEW op \in Forms!Ops, NEW password \in Nat,
             NEW t \in Links \union {None}, Forms!Asks(c, op, password, t)
      PROVE  LockInv'
  <2>1. OthersKept(c) /\ call'[c].phase # "check"
      BY <1>8, AsksCall
  <2> QED
      BY <1>8, <2>1, LockStays DEF Forms!Asks
<1>9. ASSUME UNCHANGED <<account, call, fails, turns, carried>>, now' \in Nat, now <= now'
      PROVE  LockInv'
  <2>1. ASSUME NEW row \in Account, Tallied(row) PROVE Tallied(row)'
      BY <1>9, <2>1 DEF Tallied, Recorded, Account, FormsTyped
  <2>2. account \in Account /\ \A c \in Forms!Calls : call[c].seen \in Account
      BY DEF FormsTyped, FormCall
  <2>3. ~carried => Tallied(account)'
    <3>1. PICK row \in Account : row = account
        BY <2>2
    <3> QED
        BY <1>9, <2>1, <3>1 DEF LockInv
  <2>4. ASSUME ~carried, NEW c \in Forms!Calls, Checks(c) PROVE Tallied(call[c].seen)'
    <3>1. PICK row \in Account : row = call[c].seen
        BY <2>2
    <3> QED
        BY <1>9, <2>1, <2>4, <3>1 DEF LockInv
  <2> QED
      BY <1>9, <2>3, <2>4 DEF LockInv, Checks
<1>10. CASE Forms!Handle
  <2>1. ASSUME NEW c \in Forms!Calls, Forms!Forget(c) PROVE LockInv'
      BY <2>1, <1>7 DEF Forms!Forget
  <2> QED
      BY <1>1, <1>2, <1>3, <1>4, <1>5, <1>6, <1>10, <2>1 DEF Forms!Handle
<1>11. CASE Forms!Browse
  <2>0. Person \in Forms!Calls /\ now \in Nat
      BY DEF Forms!Calls, FormsTyped
  <2>1. ASSUME NEW pg \in Forms!Pages, NEW t \in Links \union {None}, Forms!Visit(pg, t)
        PROVE  LockInv'
      BY <2>0, <2>1, <1>9 DEF Forms!Visit
  <2>2. ASSUME NEW password \in Forms!Passwords \union {0}, Forms!Submit(password)
        PROVE  LockInv'
      BY <2>0, <2>2, <1>8, FormAsks, PasswordsAreNat DEF Forms!Submit
  <2>3. CASE Forms!Answered
      BY <2>0, <2>3, <1>7 DEF Forms!Answered
  <2>4. CASE Forms!LoseAnswer
      BY <2>0, <2>4, <1>7 DEF Forms!LoseAnswer
  <2> QED
      BY <1>11, <2>1, <2>2, <2>3, <2>4 DEF Forms!Browse
<1>12. CASE Forms!Tick
    BY <1>9, <1>12 DEF Forms!Tick, FormsTyped
<1>13. ASSUME NEW c \in Others, NEW op \in Forms!Ops, NEW password \in Forms!Passwords \union {0},
              NEW t \in Links \union {None}, Forms!Elsewhere(c, op, password, t)
       PROVE  LockInv'
    BY <1>13, <1>8, PasswordsAreNat DEF Forms!Elsewhere, Forms!Calls
<1> QED
    BY <1>10, <1>11, <1>12, <1>13 DEF Forms!Next

----------------------------------------------------------------------------
(* The forms: the theorems.                                                   *)

FormsInv == FormsTyped /\ LinksInv /\ LockInv

LEMMA FormsInvariant == Spec => [](open = "access" => FormsInv)
<1>1. Init => (open = "access" => FormsInv)
    BY FormsTypedInit, LinksInit, LockInit DEF Init, FormsInv
<1>2. (open = "access" => FormsInv) /\ [Next]_vars => (open = "access" => FormsInv)'
  <2> SUFFICES ASSUME open = "access" => FormsInv, [Next]_vars, open' = "access"
               PROVE  FormsInv'
      OBVIOUS
  <2>1. CASE open = "access" /\ Forms!Next
      BY <2>1, FormsTypedStep, LinksStep, LockStep, LinksMail DEF FormsInv
  <2>2. CASE UNCHANGED vars
    <3>1. open = "access" /\ UNCHANGED <<call, formVars>>
        BY <2>2 DEF vars
    <3>2. FormsTyped' /\ LinksInv' /\ LockInv'
        BY <3>1 DEF FormsInv, formVars, FormsTyped, LinksInv, KnowsLinks, IsSent, Forms!Live,
                    LockInv, Checks, Tallied, Recorded
    <3> QED
        BY <3>2 DEF FormsInv
  <2> QED
      BY <2>1, <2>2 DEF Next, RestOfDesk
<1> QED
    BY <1>1, <1>2, PTL DEF Spec

\* Who is not verified has a link that works, or a mail that failed, however many
\* requests for it cross (register, resendVerificationEmail, verifyEmail).
THEOREM UnverifiedHasAWay == Spec => []UnverifiedHasLink
<1>1. (open = "access" => FormsInv) => UnverifiedHasLink
  <2> SUFFICES ASSUME FormsInv PROVE Forms!UnverifiedHasLink
      BY DEF UnverifiedHasLink
  <2>1. LinksInv
      BY DEF FormsInv
  <2> QED
      BY <2>1 DEF LinksInv, IsSent, Forms!UnverifiedHasLink
<1> QED
    BY <1>1, FormsInvariant, PTL

\* A lock stands on MAX_FAILED_ATTEMPTS wrong passwords of one window, whatever
\* attempts cross, unless one crossed a success (recordFailedLogin).
THEOREM LockIsEarned == Spec => []LockedOnlyAfterMax
<1>1. (open = "access" => FormsInv) => LockedOnlyAfterMax
    BY TalliedLock DEF FormsInv, LockedOnlyAfterMax
<1> QED
    BY <1>1, FormsInvariant, PTL

\* Only the request that consumes a link, while it is live, does what the link
\* is for.
LEMMA OnlyLiveIsFollowed == FormsTyped /\ Forms!Next => Forms!SpentLinkDoesNothing
<1> SUFFICES ASSUME FormsTyped, Forms!Next, NEW c \in Forms!Calls, call[c].phase = "follow",
                    call'[c].phase = "ok"
             PROVE  link[call[c].link].state = "live"
    BY DEF Forms!SpentLinkDoesNothing
<1>1. ASSUME NEW d \in Forms!Calls, OthersKept(d), call[d].phase # "follow" PROVE FALSE
    BY <1>1 DEF OthersKept
<1>2. ASSUME NEW d \in Forms!Calls, Forms!FollowLink(d) PROVE link[call[c].link].state = "live"
  <2>1. CASE Forms!Ends(d, "refused") /\ ~Forms!StillUnused(call[d].link)
      BY <2>1, EndsCall DEF OthersKept
  <2>2. CASE Forms!Ends(d, "ok") /\ Forms!StillUnused(call[d].link)
      BY <2>2, EndsCall DEF OthersKept, Forms!StillUnused
  <2> QED
      BY <1>2, <2>1, <2>2 DEF Forms!FollowLink
<1>3. ASSUME NEW d \in Forms!Calls, NEW other, call' = [call EXCEPT ![d] = other],
             call[d].phase # "follow"
      PROVE  FALSE
    BY <1>1, <1>3 DEF OthersKept, FormsTyped
<1>4. ASSUME UNCHANGED call PROVE FALSE
    BY <1>4
<1>5. CASE Forms!Handle
  <2>1. PICK d \in Forms!Calls :
           \/ Forms!Register(d) \/ Forms!ReadForLink(d) \/ Forms!SeeEarlier(d) \/ Forms!Issue(d)
           \/ Forms!Mail(d) \/ Forms!ReadLink(d) \/ Forms!FollowLink(d) \/ Forms!ReadForLogin(d)
           \/ Forms!WrongPassword(d) \/ Forms!RightPassword(d) \/ Forms!Forget(d)
      BY <1>5 DEF Forms!Handle
  <2>2. CASE Forms!FollowLink(d)
      BY <1>2, <2>2
  <2>3. CASE ~Forms!FollowLink(d)
    <3>1. call[d].phase # "follow"
        BY <2>1, <2>3 DEF Forms!Register, Forms!ReadForLink, Forms!SeeEarlier, Forms!Issue,
             Forms!Mail, Forms!ReadLink, Forms!ReadForLogin, Forms!WrongPassword,
             Forms!RightPassword, Forms!Forget
    <3>2. \A e \in Forms!Calls \ {d} : call'[e] = call[e]
        BY <2>1, <2>3 DEF Forms!Register, Forms!ReadForLink, Forms!SeeEarlier, Forms!Issue,
             Forms!Mail, Forms!ReadLink, Forms!ReadForLogin, Forms!WrongPassword,
             Forms!RightPassword, Forms!Forget, Forms!Ends, Forms!Continues, FormsTyped
    <3> QED
        BY <1>1, <3>1, <3>2 DEF OthersKept
  <2> QED
      BY <2>2, <2>3
<1>6. CASE Forms!Browse
  <2>0. Person \in Forms!Calls
      BY DEF Forms!Calls
  <2>1. \/ UNCHANGED call
        \/ /\ call[Person].phase # "follow"
           /\ \E other : call' = [call EXCEPT ![Person] = other]
      BY <1>6 DEF Forms!Browse, Forms!Visit, Forms!Submit, Forms!Asks, Forms!Answered,
                  Forms!LoseAnswer
  <2> QED
      BY <1>3, <1>4, <2>0, <2>1
<1>7. CASE Forms!Tick
    BY <1>4, <1>7 DEF Forms!Tick
<1>8. ASSUME NEW d \in Others, NEW op \in Forms!Ops, NEW password \in Forms!Passwords \union {0},
             NEW t \in Links \union {None}, Forms!Elsewhere(d, op, password, t)
      PROVE  FALSE
  <2>1. /\ d \in Forms!Calls /\ call[d].phase # "follow"
        /\ \E other : call' = [call EXCEPT ![d] = other]
      BY <1>8 DEF Forms!Elsewhere, Forms!Asks, Forms!Calls
  <2> QED
      BY <1>3, <2>1
<1> QED
    BY <1>5, <1>6, <1>7, <1>8 DEF Forms!Next

\* A link that was followed or superseded does nothing any more, whatever request
\* had read it before (verifyEmail, resetPassword).
THEOREM LinksWorkOnce == Spec => SpentLinkDoesNothing
<1>1. (open = "access" => FormsInv) /\ [Next]_vars
        => [open = "access" => Forms!SpentLinkDoesNothing]_vars
  <2> SUFFICES ASSUME open = "access", FormsInv, Next
               PROVE  Forms!SpentLinkDoesNothing
      OBVIOUS
  <2> QED
      BY OnlyLiveIsFollowed DEF Next, FormsInv
<1> QED
    BY <1>1, FormsInvariant, PTL DEF Spec, SpentLinkDoesNothing

----------------------------------------------------------------------------
(* The panel: what its pages offer.                                           *)

Names ==
    {"pause", "resume", "revoke", "activate", "update", "deactivate", "assign", "remove",
     "transfer", "disable", "enable", "rotate", "test", "delete", "retry"}

PanelOp ==
    [name : Names, permission : {"manage", "own"}, offered : SUBSET Panels!Statuses,
     needs : {"ADMIN", "OWNER"}, refused : SUBSET Panels!Statuses,
     becomes : Panels!Statuses \union {"same"}]

\* A button agrees with the controller and with the handler behind it.
Agrees(op, p) ==
    /\ op \in PanelOp
    /\ op.offered \intersect op.refused = {}
    /\ op.permission = "manage" => op.needs = "ADMIN"
    /\ op.name = "transfer" => op.permission = "own"
    /\ op.name = "test" => op.becomes = "same"
    /\ p = "equipo" => op.offered \subseteq {"ADMIN", "VIEWER"}

LEMMA OpsAgree ==
    ASSUME NEW p \in Panels!Pages, NEW op \in Panels!OpsOf(p)
    PROVE  Agrees(op, p)
<1>1. CASE p = "dispositivos"
  <2>1. Agrees(Panels!Admin("pause", {"ACTIVE"}, {"REVOKED"}, "PAUSED"), p)
      BY <1>1 DEF Agrees, PanelOp, Names, Panels!Statuses, Panels!Admin, Panels!Op
  <2>2. Agrees(Panels!Admin("resume", {"PAUSED"}, {"REVOKED"}, "ACTIVE"), p)
      BY <1>1 DEF Agrees, PanelOp, Names, Panels!Statuses, Panels!Admin, Panels!Op
  <2>3. Agrees(Panels!Admin("revoke", {"ACTIVE", "PAUSED"}, {}, "REVOKED"), p)
      BY <1>1 DEF Agrees, PanelOp, Names, Panels!Statuses, Panels!Admin, Panels!Op
  <2>4. op \in Panels!DeviceOps
      BY <1>1 DEF Panels!OpsOf
  <2> QED
      BY <2>1, <2>2, <2>3, <2>4, Zenon DEF Panels!DeviceOps
<1>2. CASE p = "billeteras"
  <2>1. Agrees(Panels!Admin("activate", {"NEW"}, {"ENABLED"}, "ENABLED"), p)
      BY <1>2 DEF Agrees, PanelOp, Names, Panels!Statuses, Panels!Admin, Panels!Op
  <2>2. Agrees(Panels!Admin("update", {"ENABLED", "DISABLED"}, {"NEW"}, "ENABLED"), p)
      BY <1>2 DEF Agrees, PanelOp, Names, Panels!Statuses, Panels!Admin, Panels!Op
  <2>3. Agrees(Panels!Admin("deactivate", {"ENABLED"}, {"NEW"}, "DISABLED"), p)
      BY <1>2 DEF Agrees, PanelOp, Names, Panels!Statuses, Panels!Admin, Panels!Op
  <2>4. op \in Panels!WalletOps
      BY <1>2 DEF Panels!OpsOf
  <2> QED
      BY <2>1, <2>2, <2>3, <2>4, Zenon DEF Panels!WalletOps
<1>3. CASE p = "invitaciones"
  <2>1. Agrees(Panels!Admin("revoke", {"PENDING"}, {"REVOKED", "ACCEPTED"}, "REVOKED"), p)
      BY <1>3 DEF Agrees, PanelOp, Names, Panels!Statuses, Panels!Admin, Panels!Op
  <2>2. op \in Panels!InvitationOps
      BY <1>3 DEF Panels!OpsOf
  <2> QED
      BY <2>1, <2>2, Zenon DEF Panels!InvitationOps
<1>4. CASE p = "claves-api"
  <2>1. Agrees(Panels!Admin("revoke", {"LIVE"}, {"REVOKED"}, "REVOKED"), p)
      BY <1>4 DEF Agrees, PanelOp, Names, Panels!Statuses, Panels!Admin, Panels!Op
  <2>2. op \in Panels!ApiKeyOps
      BY <1>4 DEF Panels!OpsOf
  <2> QED
      BY <2>1, <2>2, Zenon DEF Panels!ApiKeyOps
<1>5. CASE p = "webhooks"
  <2>1. Agrees(Panels!Admin("disable", {"ENABLED"}, {"DELETED"}, "DISABLED"), p)
      BY <1>5 DEF Agrees, PanelOp, Names, Panels!Statuses, Panels!Admin, Panels!Op
  <2>2. Agrees(Panels!Admin("enable", {"DISABLED"}, {"DELETED"}, "ENABLED"), p)
      BY <1>5 DEF Agrees, PanelOp, Names, Panels!Statuses, Panels!Admin, Panels!Op
  <2>3. Agrees(Panels!Admin("rotate", {"ENABLED", "DISABLED"}, {"DELETED"}, "same"), p)
      BY <1>5 DEF Agrees, PanelOp, Names, Panels!Statuses, Panels!Admin, Panels!Op
  <2>4. Agrees(Panels!Admin("test", {"ENABLED"}, {"DELETED"}, "same"), p)
      BY <1>5 DEF Agrees, PanelOp, Names, Panels!Statuses, Panels!Admin, Panels!Op
  <2>5. Agrees(Panels!Admin("delete", {"ENABLED", "DISABLED"}, {"DELETED"}, "DELETED"), p)
      BY <1>5 DEF Agrees, PanelOp, Names, Panels!Statuses, Panels!Admin, Panels!Op
  <2>6. op \in Panels!EndpointOps
      BY <1>5 DEF Panels!OpsOf
  <2> QED
      BY <2>1, <2>2, <2>3, <2>4, <2>5, <2>6, Zenon DEF Panels!EndpointOps
<1>6. CASE p = "entregas"
  <2>1. Agrees(Panels!Admin("retry", {"FAILED", "ABANDONED"}, {"IN_PROGRESS", "DELIVERED"}, "PENDING"), p)
      BY <1>6 DEF Agrees, PanelOp, Names, Panels!Statuses, Panels!Admin, Panels!Op
  <2>2. op \in Panels!DeliveryOps
      BY <1>6 DEF Panels!OpsOf
  <2> QED
      BY <2>1, <2>2, Zenon DEF Panels!DeliveryOps
<1>7. CASE p = "equipo"
  <2>1. ASSUME NEW r \in Panels!Staff
        PROVE  Agrees(Panels!Op("assign", "own", Panels!Staff \ {r}, "OWNER",
                                {"OWNER", "GONE"}, r), p)
      BY DEF Agrees, PanelOp, Names, Panels!Statuses, Panels!Admin, Panels!Op, Panels!Staff
  <2>2. Agrees(Panels!Admin("remove", Panels!Staff, {"OWNER", "GONE"}, "GONE"), p)
      BY DEF Agrees, PanelOp, Names, Panels!Statuses, Panels!Admin, Panels!Op, Panels!Staff
  <2>3. Agrees(Panels!Op("transfer", "own", Panels!Staff, "OWNER", {"GONE"}, "OWNER"), p)
      BY DEF Agrees, PanelOp, Names, Panels!Statuses, Panels!Admin, Panels!Op, Panels!Staff
  <2>4. op \in Panels!MemberOps
      BY <1>7 DEF Panels!OpsOf
  <2> QED
      BY <2>1, <2>2, <2>3, <2>4, Zenon DEF Panels!MemberOps
<1> QED
    BY <1>1, <1>2, <1>3, <1>4, <1>5, <1>6, <1>7 DEF Panels!Pages

\* Whom the page lets ask for it, the controller admits.
LEMMA CanIsAdmitted ==
    ASSUME NEW p \in Panels!Pages, NEW op \in Panels!OpsOf(p), NEW t \in Tenants,
           Panels!Can(role[t], op.permission), role[t] \in Panels!Roles, t \notin suspended
    PROVE  Panels!Admitted(t, op.needs)
<1>1. role[t] # None
    BY PanelAssumption DEF Panels!ConstantsAssumption
<1>2. op.permission \in {"manage", "own"} /\ op.needs \in {"ADMIN", "OWNER"}
      /\ (op.permission = "manage" => op.needs = "ADMIN")
    BY OpsAgree DEF Agrees, PanelOp
<1>3. role[t] = "OWNER" \/ (role[t] = "ADMIN" /\ op.needs = "ADMIN")
    BY <1>2 DEF Panels!Can
<1>4. Panels!Rank("OWNER") = 4 /\ Panels!Rank("ADMIN") = 3
    BY DEF Panels!Rank
<1>5. Panels!Satisfies(role[t], op.needs)
    BY <1>2, <1>3, <1>4 DEF Panels!Satisfies
<1> QED
    BY <1>1, <1>5 DEF Panels!Admitted, Panels!Active

----------------------------------------------------------------------------
(* The panel: types.                                                          *)

PanelPhases ==
    {"idle", "sent", "admitted", "read", "refused", "limited", "done", "told", "over"}

PanelOps == UNION {Panels!OpsOf(p) : p \in Panels!Pages}

PanelCall ==
    [phase : PanelPhases, op : PanelOps \union {None}, row : Rows \union {None},
     tenant : Tenants \union {None}, shown : Panels!Statuses \union {None},
     known : Panels!Roles \union {None}, held : BOOLEAN]

Entries == [row : Rows, status : Panels!Statuses]
PanelFeed == [loaded : BOOLEAN, error : BOOLEAN, rows : SUBSET Entries]
RoleMap == [Tenants -> Panels!Roles \union {None}]
Renewals == [asks : Tenants, answer : [tenant : Tenants \union {None}, roles : RoleMap] \union {None}]
Switchings == [to : Tenants, answer : {"yes", "no", None}]

PanelTyped ==
    /\ page \in Panels!Pages
    /\ status \in [Rows -> Panels!Statuses]
    /\ role \in RoleMap
    /\ call \in [Panels!Calls -> PanelCall]
    /\ last \in [Rows -> Panels!Calls \union {None}]
    /\ session \in Panels!Sessions \union {None}
    /\ feed \in PanelFeed
    /\ load \in Panels!Loads \union {None}
    /\ renewal \in Renewals \union {None}
    /\ switching \in Switchings \union {None}
    /\ moved \in BOOLEAN /\ cut \in BOOLEAN

\* What the page offered for a row, to whom.
Offers(op, shown, known) ==
    /\ op \in Panels!OpsOf(page)
    /\ shown \in op.offered
    /\ Panels!Can(known, op.permission)

\* What a request is about to do was offered.
CallOffered(c) ==
    /\ call[c].phase \in {"sent", "admitted", "read"} /\ c \in Presses =>
          /\ Offers(call[c].op, call[c].shown, call[c].known)
          /\ call[c].tenant \in Tenants /\ call[c].known \in Panels!Roles
    /\ call[c].phase \in {"sent", "admitted", "read"} =>
          call[c].op \in Panels!OpsOf(page) /\ call[c].row \in Rows

WrittenBy(r) ==
    last[r] \in Presses =>
       /\ call[last[r]].phase \in {"done", "told", "over"}
       /\ Panels!Writes(last[r])

\* The list and its load are of the active tenant.
ListsAreOfTheTenant ==
    /\ ~moved => /\ load # None => load.tenant = session.tenant
                 /\ \A e \in feed.rows : HomeOf[e.row] = session.tenant
    /\ load # None /\ load.answer # None => \A e \in load.answer.rows : HomeOf[e.row] = load.tenant

\* The rows of a list that show a row as it is.
Current(rows, r) ==
    {e \in rows : e.row = r} = {e \in Panels!Listed(session.tenant) : e.row = r}

\* A row that a request of the page wrote last, and said so.
IsOwn(r) ==
    /\ session # None /\ ~moved /\ HomeOf[r] = session.tenant
    /\ last[r] \in Presses /\ call[last[r]].phase = "told"

OwnIsCurrent(r) ==
    IsOwn(r) => /\ load = None /\ feed.loaded /\ ~feed.error /\ ~cut => Current(feed.rows, r)
                /\ load # None /\ ~load.joined /\ load.answer # None /\ load.answer.ok
                      => Current(load.answer.rows, r)

PanelInv ==
    /\ PanelTyped
    /\ \A c \in Panels!Calls : CallOffered(c)
    /\ dialog # None => Offers(dialog.op, dialog.entry.status, dialog.known)
    /\ \A r \in Rows : WrittenBy(r)
    /\ session = None => renewal = None
    /\ ListsAreOfTheTenant
    /\ \A r \in Rows : OwnIsCurrent(r)

LEMMA PanelConstants ==
    /\ HomeOf \in [Rows -> Tenants] /\ Presses \intersect Others = {}
    /\ None \notin Tenants /\ None \notin Rows /\ None \notin Presses /\ None \notin Panels!Roles
    /\ None \notin Panels!Sessions /\ None \notin Panels!Loads
BY PanelAssumption DEF Panels!ConstantsAssumption

LEMMA PanelIdle == Panels!Idle \in PanelCall /\ Panels!Idle.phase = "idle"
BY DEF Panels!Idle, PanelCall, PanelPhases

\* The statuses of the entries that the buttons are offered for.
LEMMA EntriesOffered ==
    ASSUME page \in Panels!Pages, NEW e \in Panels!Entries
    PROVE  e \in Entries
<1>1. PICK op \in Panels!OpsOf(page) : e \in [row : Rows, status : op.offered]
    BY DEF Panels!Entries
<1>2. op.offered \subseteq Panels!Statuses
    BY OpsAgree DEF Agrees, PanelOp
<1> QED
    BY <1>1, <1>2 DEF Entries

LEMMA FirstAreStatuses ==
    ASSUME NEW p \in Panels!Pages
    PROVE  /\ Panels!FirstStatuses(p) \subseteq Panels!Statuses
           /\ \A m \in Panels!Moves(p) : m[2] \in Panels!Statuses
<1> USE DEF Panels!FirstStatuses, Panels!Moves, Panels!Statuses
<1>1. CASE p = "dispositivos"
    BY <1>1
<1>2. CASE p = "billeteras"
    BY <1>2
<1>3. CASE p = "equipo"
    BY <1>3 DEF Panels!Staff
<1>4. CASE p = "invitaciones"
    BY <1>4
<1>5. CASE p = "claves-api"
    BY <1>5
<1>6. CASE p = "webhooks"
    BY <1>6
<1>7. CASE p = "entregas"
    BY <1>7
<1> QED
    BY <1>1, <1>2, <1>3, <1>4, <1>5, <1>6, <1>7 DEF Panels!Pages

\* A load that begins.
LEMMA PanelLoad ==
    ASSUME NEW t \in Tenants
    PROVE  /\ Panels!Load(t) \in Panels!Loads /\ Panels!Load(t) # None
           /\ Panels!Load(t).tenant = t /\ Panels!Load(t).answer = None
<1>1. Panels!Load(t) \in Panels!Loads
    BY Zenon DEF Panels!Load, Panels!Loads
<1>2. Panels!Load(t).tenant = t /\ Panels!Load(t).answer = None
    BY DEF Panels!Load
<1> QED
    BY <1>1, <1>2, PanelConstants

\* Success loads the list again, or goes on with a first load.
LEMMA PanelInvalidated ==
    ASSUME PanelTyped, session # None => session.tenant \in Tenants
    PROVE  /\ Panels!Invalidated \in Panels!Loads \union {None}
           /\ session # None => Panels!Invalidated # None
           /\ Panels!Invalidated # None
                 => \/ /\ Panels!Invalidated.tenant = session.tenant
                       /\ Panels!Invalidated.answer = None
                    \/ /\ load # None
                       /\ Panels!Invalidated.tenant = load.tenant
                       /\ Panels!Invalidated.answer = load.answer
                       /\ Panels!Invalidated.joined = (load.answer # None)
<1> USE PanelConstants
<1>1. CASE session = None
    BY <1>1 DEF Panels!Invalidated
<1>2. CASE session # None /\ (feed.loaded \/ load = None)
    BY <1>2, PanelLoad DEF Panels!Invalidated
<1>3. CASE session # None /\ ~(feed.loaded \/ load = None)
  <2>1. PICK ok \in BOOLEAN : ok = (load.answer # None)
      BY Zenon
  <2>2. Panels!Invalidated = [load EXCEPT !.joined = ok]
      BY <1>3, <2>1 DEF Panels!Invalidated
  <2>3. load \in Panels!Loads
      BY <1>3 DEF PanelTyped
  <2> QED
      BY <1>3, <2>1, <2>2, <2>3 DEF Panels!Loads
<1> QED
    BY <1>1, <1>2, <1>3

LEMMA MembershipsTyped == role \in RoleMap => Panels!Memberships \in RoleMap
BY DEF Panels!Memberships, RoleMap

LEMMA PanelInit == Panels!Init => PanelInv
<1> SUFFICES ASSUME Panels!Init PROVE PanelInv
    OBVIOUS
<1> USE PanelConstants
<1>1. PICK t \in Tenants : /\ session = [tenant |-> t, roles |-> Panels!Memberships]
                           /\ load = Panels!Load(t)
    BY DEF Panels!Init, Panels!Active
<1>2. role \in RoleMap
    BY DEF Panels!Init, Panels!Staff, Panels!Roles, RoleMap
<1>3. session \in Panels!Sessions
    BY <1>1, <1>2, MembershipsTyped DEF Panels!Sessions, RoleMap
<1>4. load \in Panels!Loads /\ load.tenant = session.tenant /\ load.answer = None
    BY <1>1, PanelLoad
<1>5. feed \in PanelFeed /\ feed.rows = {} /\ ~feed.loaded
    BY DEF Panels!Init, Panels!NoList, PanelFeed
<1>6. status \in [Rows -> Panels!Statuses]
    BY FirstAreStatuses DEF Panels!Init
<1>7. call \in [Panels!Calls -> PanelCall] /\ \A c \in Panels!Calls : call[c].phase = "idle"
    BY PanelIdle DEF Panels!Init
<1>8. PanelTyped
  <2>1. moved \in BOOLEAN /\ cut \in BOOLEAN
      BY Zenon DEF Panels!Init
  <2>2. last \in [Rows -> Panels!Calls \union {None}] /\ renewal = None /\ switching = None
        /\ page \in Panels!Pages
      BY DEF Panels!Init
  <2> QED
      BY <1>2, <1>3, <1>4, <1>5, <1>6, <1>7, <2>1, <2>2, Zenon DEF PanelTyped
<1>9. \A r \in Rows : last[r] = None
    BY DEF Panels!Init
<1>10. \A c \in Panels!Calls : CallOffered(c)
    BY <1>7 DEF CallOffered
<1>11. \A r \in Rows : WrittenBy(r) /\ OwnIsCurrent(r)
    BY <1>9 DEF WrittenBy, OwnIsCurrent, IsOwn
<1>12. ListsAreOfTheTenant
    BY <1>4, <1>5 DEF ListsAreOfTheTenant
<1>13. dialog = None /\ renewal = None
    BY DEF Panels!Init
<1> QED
    BY <1>8, <1>10, <1>11, <1>12, <1>13 DEF PanelInv

----------------------------------------------------------------------------
(* The panel: its steps.                                                      *)

panelRest == <<page, session, feed, load, moved, cut, dialog, renewal, switching>>

\* A step of requests that writes no row.
LEMMA PanelCallsStep ==
    ASSUME PanelInv, UNCHANGED <<panelRest, status, last>>, role' \in RoleMap,
           call' \in [Panels!Calls -> PanelCall],
           \A d \in Panels!Calls : CallOffered(d)',
           \A d \in Presses : call'[d].phase = "told" => call[d].phase = "told",
           \A d \in Presses : call[d].phase \in {"done", "told", "over"} =>
               call'[d].phase \in {"done", "told", "over"} /\ call'[d].op = call[d].op
    PROVE  PanelInv'
<1> USE DEF panelRest
<1>1. PanelTyped'
    BY DEF PanelInv, PanelTyped
<1>2. dialog' # None => Offers(dialog.op, dialog.entry.status, dialog.known)'
    BY DEF PanelInv, Offers
<1>3. ASSUME NEW r \in Rows PROVE WrittenBy(r)'
    BY DEF PanelInv, WrittenBy, Panels!Writes
<1>4. ListsAreOfTheTenant'
    BY DEF PanelInv, ListsAreOfTheTenant
<1>5. ASSUME NEW r \in Rows PROVE OwnIsCurrent(r)'
  <2>1. IsOwn(r)' => IsOwn(r)
      BY DEF IsOwn
  <2>2. \A rows : Current(rows, r)' <=> Current(rows, r)
      BY DEF Current, Panels!Listed
  <2>3. OwnIsCurrent(r)
      BY DEF PanelInv
  <2> QED
      BY <2>1, <2>2, <2>3 DEF OwnIsCurrent
<1> QED
    BY <1>1, <1>2, <1>3, <1>4, <1>5 DEF PanelInv

\* A step of one request that writes nothing.
LEMMA PanelCallStep ==
    ASSUME PanelInv, NEW c \in Panels!Calls, NEW next \in PanelCall,
           call' = [call EXCEPT ![c] = next], UNCHANGED <<panelRest, status, role, last>>,
           next.phase # "told",
           call[c].phase \in {"done", "told", "over"} =>
               next.phase = "over" /\ next.op = call[c].op,
           CallOffered(c)'
    PROVE  PanelInv'
<1>1. call \in [Panels!Calls -> PanelCall] /\ role \in RoleMap /\ Presses \subseteq Panels!Calls
    BY DEF PanelInv, PanelTyped, Panels!Calls
<1>2. /\ call'[c] = next /\ \A d \in Panels!Calls \ {c} : call'[d] = call[d]
      /\ call' \in [Panels!Calls -> PanelCall]
    BY <1>1
<1>3. \A d \in Panels!Calls : CallOffered(d)'
  <2>1. ASSUME NEW d \in Panels!Calls \ {c} PROVE CallOffered(d)'
      BY <1>2 DEF PanelInv, CallOffered, Offers, panelRest
  <2> QED
      BY <2>1
<1>4. \A d \in Presses : call'[d].phase = "told" => call[d].phase = "told"
    BY <1>1, <1>2
<1>5. \A d \in Presses : call[d].phase \in {"done", "told", "over"} =>
           call'[d].phase \in {"done", "told", "over"} /\ call'[d].op = call[d].op
    BY <1>1, <1>2
<1> QED
    BY <1>1, <1>2, <1>3, <1>4, <1>5, PanelCallsStep

\* A step of the lists, the dialog or the session, which moves no request and no
\* row.
LEMMA PanelBrowserStep ==
    ASSUME PanelInv, UNCHANGED <<page, status, role, last, call>>,
           PanelTyped', session' = None => renewal' = None, ListsAreOfTheTenant',
           dialog' # None => Offers(dialog'.op, dialog'.entry.status, dialog'.known),
           \A r \in Rows : OwnIsCurrent(r)'
    PROVE  PanelInv'
<1>1. \A c \in Panels!Calls : CallOffered(c)'
    BY DEF PanelInv, CallOffered, Offers
<1>2. \A r \in Rows : WrittenBy(r)'
    BY DEF PanelInv, WrittenBy, Panels!Writes
<1>3. dialog' # None => Offers(dialog.op, dialog.entry.status, dialog.known)'
    BY DEF Offers
<1> QED
    BY <1>1, <1>2, <1>3 DEF PanelInv

\* Those that leave the list as it is.
LEMMA PanelAsideStep ==
    ASSUME PanelInv, UNCHANGED <<page, status, role, last, call, session, feed, load, moved, cut>>,
           PanelTyped', session = None => renewal' = None,
           dialog' # None => Offers(dialog'.op, dialog'.entry.status, dialog'.known)
    PROVE  PanelInv'
<1>1. ListsAreOfTheTenant'
    BY DEF PanelInv, ListsAreOfTheTenant
<1>2. ASSUME NEW r \in Rows PROVE OwnIsCurrent(r)'
  <2>1. OwnIsCurrent(r)
      BY DEF PanelInv
  <2>2. \A rows : Current(rows, r)' <=> Current(rows, r)
      BY DEF Current, Panels!Listed
  <2> QED
      BY <2>1, <2>2 DEF OwnIsCurrent, IsOwn
<1> QED
    BY <1>1, <1>2, PanelBrowserStep

\* A row is written, by a request or by what happens besides.
LEMMA PanelRowStep ==
    ASSUME PanelInv, NEW q \in Rows, NEW s \in Panels!Statuses, NEW c \in Panels!Calls \union {None},
           status' = [status EXCEPT ![q] = s], last' = [last EXCEPT ![q] = c],
           role' \in RoleMap, UNCHANGED panelRest,
           call' \in [Panels!Calls -> PanelCall],
           \A d \in Panels!Calls : CallOffered(d)',
           \A d \in Presses \ {c} : call'[d].phase = call[d].phase /\ call'[d].op = call[d].op,
           c \in Presses => call'[c].phase = "done" /\ call'[c].op.name # "test"
    PROVE  PanelInv'
<1> USE DEF panelRest
<1>1. last \in [Rows -> Panels!Calls \union {None}] /\ status \in [Rows -> Panels!Statuses]
    BY DEF PanelInv, PanelTyped
<1>2. last'[q] = c /\ \A r \in Rows \ {q} : last'[r] = last[r] /\ status'[r] = status[r]
    BY <1>1
<1>3. PanelTyped'
    BY <1>1 DEF PanelInv, PanelTyped
<1>4. dialog' # None => Offers(dialog.op, dialog.entry.status, dialog.known)'
    BY DEF PanelInv, Offers
<1>5. ASSUME NEW r \in Rows PROVE WrittenBy(r)'
  <2>1. CASE r = q
      BY <1>2, <2>1 DEF WrittenBy, Panels!Writes
  <2>2. CASE r # q
    <3>1. WrittenBy(r) /\ last'[r] = last[r]
        BY <1>2, <2>2 DEF PanelInv
    <3>2. CASE last[r] = c
        BY <3>1, <3>2 DEF WrittenBy, Panels!Writes
    <3>3. CASE last[r] # c
        BY <3>1, <3>3 DEF WrittenBy, Panels!Writes
    <3> QED
        BY <3>2, <3>3
  <2> QED
      BY <2>1, <2>2
<1>6. ListsAreOfTheTenant'
    BY DEF PanelInv, ListsAreOfTheTenant
<1>7. ASSUME NEW r \in Rows PROVE OwnIsCurrent(r)'
  <2>1. CASE r = q
    <3>1. ~IsOwn(r)'
        BY <1>2, <2>1 DEF IsOwn
    <3> QED
        BY <3>1 DEF OwnIsCurrent
  <2>2. CASE r # q
    <3>1. IsOwn(r)' => IsOwn(r)
        BY <1>2, <2>2 DEF IsOwn
    <3>2. \A rows : Current(rows, r)' <=> Current(rows, r)
      <4>1. {e \in Panels!Listed(session.tenant)' : e.row = r} =
              {e \in Panels!Listed(session.tenant) : e.row = r}
          BY <1>2, <2>2 DEF Panels!Listed
      <4> QED
          BY <4>1 DEF Current
    <3>3. OwnIsCurrent(r)
        BY DEF PanelInv
    <3> QED
        BY <3>1, <3>2, <3>3 DEF OwnIsCurrent
  <2> QED
      BY <2>1, <2>2
<1> QED
    BY <1>3, <1>4, <1>5, <1>6, <1>7 DEF PanelInv

\* What the API does with rows and requests.
LEMMA PanelHandleStep == PanelInv /\ Panels!Handle => PanelInv'
<1> SUFFICES ASSUME PanelInv, Panels!Handle PROVE PanelInv'
    OBVIOUS
<1> USE DEF Panels!database, Panels!browser, Panels!lists, panelRest
<1>0. /\ PanelTyped /\ \A c \in Panels!Calls : call[c] \in PanelCall /\ CallOffered(c)
      /\ Presses \subseteq Panels!Calls /\ Others \subseteq Panels!Calls
    BY DEF PanelInv, PanelTyped, Panels!Calls
<1>1. ASSUME NEW c \in Presses, Panels!Guard(c) PROVE PanelInv'
  <2>1. PICK ph \in {"admitted", "refused"} : call' = [call EXCEPT ![c].phase = ph]
      BY <1>1 DEF Panels!Guard
  <2> DEFINE next == [call[c] EXCEPT !.phase = ph]
  <2>2. call[c] \in PanelCall /\ call' = [call EXCEPT ![c] = next]
      BY <1>0, <2>1 DEF PanelTyped
  <2>3. next \in PanelCall /\ next.phase = ph /\ next.op = call[c].op /\ next.row = call[c].row
        /\ next.tenant = call[c].tenant /\ next.shown = call[c].shown /\ next.known = call[c].known
      BY <1>0 DEF PanelCall, PanelPhases
  <2>4. call[c].phase = "sent" /\ UNCHANGED <<panelRest, status, role, last>>
      BY <1>1 DEF Panels!Guard
  <2> HIDE DEF next
  <2>5. call'[c] = next
      BY <1>0, <2>2 DEF PanelTyped
  <2>6. CallOffered(c)'
      BY <1>0, <2>3, <2>4, <2>5 DEF CallOffered, Offers
  <2> QED
      BY <1>0, <2>2, <2>3, <2>4, <2>6, PanelCallStep
<1>2. ASSUME NEW c \in Presses, Panels!ReadRow(c) PROVE PanelInv'
  <2>1. PICK ph \in {"read", "refused"}, held \in BOOLEAN :
           call' = [call EXCEPT ![c].phase = ph, ![c].held = held]
    <3>1. Panels!Rotates(call[c].op) \in BOOLEAN
        BY DEF Panels!Rotates
    <3> QED
        BY <1>2, <3>1, Zenon DEF Panels!ReadRow
  <2> DEFINE next == [call[c] EXCEPT !.phase = ph, !.held = held]
  <2>2. call[c] \in PanelCall /\ call' = [call EXCEPT ![c] = next]
      BY <1>0, <2>1 DEF PanelTyped
  <2>3. next \in PanelCall /\ next.phase = ph /\ next.op = call[c].op /\ next.row = call[c].row
        /\ next.tenant = call[c].tenant /\ next.shown = call[c].shown /\ next.known = call[c].known
      BY <1>0 DEF PanelCall, PanelPhases
  <2>4. call[c].phase = "admitted" /\ UNCHANGED <<panelRest, status, role, last>>
      BY <1>2 DEF Panels!ReadRow
  <2> HIDE DEF next
  <2>5. call'[c] = next
      BY <1>0, <2>2 DEF PanelTyped
  <2>6. CallOffered(c)'
      BY <1>0, <2>3, <2>4, <2>5 DEF CallOffered, Offers
  <2> QED
      BY <1>0, <2>2, <2>3, <2>4, <2>6, PanelCallStep
<1>3. ASSUME NEW c \in Panels!Calls, NEW ph \in {"refused", "limited", "over"},
             call' = [call EXCEPT ![c].phase = ph],
             call[c].phase \in {"admitted", "read"} \/ (call[c].phase = "done" /\ ph = "over"),
             UNCHANGED <<panelRest, status, role, last>>
      PROVE  PanelInv'
  <2> DEFINE next == [call[c] EXCEPT !.phase = ph]
  <2>2. call[c] \in PanelCall /\ call' = [call EXCEPT ![c] = next]
      BY <1>0, <1>3 DEF PanelTyped
  <2>3. next \in PanelCall /\ next.phase = ph /\ next.op = call[c].op
      BY <1>0 DEF PanelCall, PanelPhases
  <2> HIDE DEF next
  <2>5. call'[c] = next
      BY <1>0, <2>2 DEF PanelTyped
  <2>6. CallOffered(c)'
      BY <2>3, <2>5 DEF CallOffered
  <2> QED
      BY <1>3, <2>2, <2>3, <2>6, PanelCallStep
<1>4. ASSUME NEW c \in Presses, Panels!LimitReached(c) PROVE PanelInv'
    BY <1>0, <1>3, <1>4 DEF Panels!LimitReached
<1>5. ASSUME NEW c \in Presses, Panels!LoseAnswer(c) PROVE PanelInv'
    BY <1>0, <1>3, <1>5 DEF Panels!LoseAnswer
<1>6. ASSUME NEW c \in Others, NEW r \in Rows, NEW op \in Panels!OpsOf(page),
             Panels!ReadForOther(c, r, op)
      PROVE  PanelInv'
  <2>1. PICK held \in BOOLEAN : held = Panels!Rotates(op)
      BY DEF Panels!Rotates
  <2> DEFINE next == [phase |-> "read", op |-> op, row |-> r, tenant |-> HomeOf[r],
                      shown |-> None, known |-> None, held |-> held]
  <2>2. call' = [call EXCEPT ![c] = next]
      BY <1>6, <2>1 DEF Panels!ReadForOther
  <2>4. next \in PanelCall /\ next.phase = "read" /\ next.op = op /\ next.row = r
    <3>1. op \in PanelOps
        BY <1>0 DEF PanelOps, PanelTyped
    <3> QED
        BY <3>1, PanelConstants DEF PanelCall, PanelPhases
  <2> HIDE DEF next
  <2>5. call'[c] = next /\ c \notin Presses /\ call[c].phase = "idle"
        /\ UNCHANGED <<panelRest, status, role, last>>
      BY <1>0, <1>6, <2>2, PanelConstants DEF PanelTyped, Panels!ReadForOther
  <2>6. CallOffered(c)'
      BY <2>4, <2>5 DEF CallOffered
  <2> QED
      BY <1>0, <2>2, <2>4, <2>5, <2>6, PanelCallStep
<1>7. ASSUME NEW r \in Rows, NEW m \in Panels!Moves(page), Panels!Move(r, m) PROVE PanelInv'
  <2>1. m[2] \in Panels!Statuses
      BY <1>0, FirstAreStatuses DEF PanelTyped
  <2>2. UNCHANGED <<panelRest, call, role>>
      BY <1>7 DEF Panels!Move
  <2>3. \A d \in Panels!Calls : CallOffered(d)'
      BY <1>0, <2>2 DEF CallOffered, Offers
  <2> QED
      BY <1>0, <1>7, <2>1, <2>2, <2>3, PanelRowStep, PanelConstants DEF Panels!Move, PanelTyped
<1>8. ASSUME NEW c \in Panels!Calls, call[c].phase = "read",
             Panels!Written(c, call[c].row), call' = Panels!AfterWrite(c), UNCHANGED panelRest
      PROVE  PanelInv'
  <2>1. /\ Panels!Written(c, call[c].row) /\ call' = Panels!AfterWrite(c) /\ call[c].phase = "read"
        /\ UNCHANGED panelRest
      BY <1>8
  <2>2. call[c].op \in Panels!OpsOf(page) /\ call[c].row \in Rows
        /\ (c \in Presses => call[c].tenant \in Tenants)
      BY <1>0, <2>1 DEF CallOffered
  <2>3. Agrees(call[c].op, page)
      BY <1>0, <2>2, OpsAgree DEF PanelTyped
  <2>4. ASSUME NEW d \in Panels!Calls \ {c}
        PROVE  \E held \in BOOLEAN : call'[d] = [call[d] EXCEPT !.held = held]
    <3>1. call'[d] = [call[d] EXCEPT !.held = @ /\ ~Panels!Stale(d, c)]
        BY <2>1 DEF Panels!AfterWrite
    <3>2. (call[d].held /\ ~Panels!Stale(d, c)) \in BOOLEAN
        BY Zenon
    <3> QED
        BY <3>1, <3>2, Zenon
  <2>5. ASSUME NEW d \in Panels!Calls \ {c}
        PROVE  /\ call'[d] \in PanelCall /\ call'[d].phase = call[d].phase
               /\ call'[d].op = call[d].op /\ CallOffered(d)'
    <3>1. PICK held \in BOOLEAN : call'[d] = [call[d] EXCEPT !.held = held]
        BY <2>4
    <3>2. call[d] \in PanelCall
        BY <1>0
    <3>3. /\ call'[d] \in PanelCall /\ call'[d].phase = call[d].phase /\ call'[d].op = call[d].op
          /\ call'[d].row = call[d].row /\ call'[d].tenant = call[d].tenant
          /\ call'[d].shown = call[d].shown /\ call'[d].known = call[d].known
        BY <3>1, <3>2 DEF PanelCall
    <3> QED
        BY <1>0, <2>1, <3>3 DEF CallOffered, Offers
  <2>6. /\ call'[c] \in PanelCall /\ call'[c].phase \in {"done", "over"}
        /\ c \in Presses => call'[c].phase = "done" /\ call'[c].op = call[c].op
    <3>1. CASE c \in Presses
      <4>1. call'[c] = [call[c] EXCEPT !.phase = "done"]
          BY <2>1, <3>1 DEF Panels!AfterWrite
      <4> QED
          BY <1>0, <4>1 DEF PanelCall, PanelPhases
    <3>2. CASE c \notin Presses
      <4>1. call'[c] = [Panels!Idle EXCEPT !.phase = "over"]
          BY <2>1, <3>2 DEF Panels!AfterWrite
      <4> QED
          BY <3>2, <4>1 DEF PanelCall, PanelPhases, Panels!Idle
    <3> QED
        BY <3>1, <3>2
  <2>7. \A d \in Panels!Calls : CallOffered(d)'
    <3>1. CallOffered(c)'
        BY <2>6 DEF CallOffered
    <3> QED
        BY <2>5, <3>1
  <2>8. call' \in [Panels!Calls -> PanelCall]
    <3>1. \A d \in Panels!Calls : call'[d] \in PanelCall
        BY <2>5, <2>6
    <3>2. call' = [d \in Panels!Calls |-> call'[d]]
        BY <2>1 DEF Panels!AfterWrite
    <3> QED
        BY <3>1, <3>2
  <2>9. role' \in RoleMap
      BY <1>0, <2>1, <2>2 DEF PanelTyped, RoleMap, Panels!Written, Panels!Roles
  <2>10. CASE Panels!Writes(c)
    <3>1. PICK s \in Panels!Statuses : status' = [status EXCEPT ![call[c].row] = s]
        BY <1>0, <2>1, <2>2, <2>3 DEF PanelTyped, Panels!Written, Agrees, PanelOp
    <3>2. last' = [last EXCEPT ![call[c].row] = c]
        BY <2>1, <2>10 DEF Panels!Written
    <3>3. \A d \in Presses \ {c} : call'[d].phase = call[d].phase /\ call'[d].op = call[d].op
        BY <1>0, <2>5
    <3>4. c \in Presses => call'[c].phase = "done" /\ call'[c].op.name # "test"
        BY <2>6, <2>10 DEF Panels!Writes
    <3> QED
        BY <2>1, <2>2, <2>7, <2>8, <2>9, <3>1, <3>2, <3>3, <3>4, PanelRowStep
  <2>11. CASE ~Panels!Writes(c)
    <3>1. status' = status /\ last' = last
        BY <1>0, <2>1, <2>2, <2>3, <2>11 DEF PanelTyped, Panels!Written, Panels!Writes, Agrees
    <3>2. \A d \in Presses : call'[d].phase = "told" => call[d].phase = "told"
        BY <1>0, <2>5, <2>6
    <3>3. \A d \in Presses : call[d].phase \in {"done", "told", "over"} =>
               call'[d].phase \in {"done", "told", "over"} /\ call'[d].op = call[d].op
        BY <1>0, <2>5, <2>6
    <3> QED
        BY <2>1, <2>7, <2>8, <2>9, <3>1, <3>2, <3>3, PanelCallsStep
  <2> QED
      BY <2>10, <2>11
<1>9. ASSUME NEW c \in Panels!Calls, Panels!WriteRow(c) PROVE PanelInv'
  <2>1. call[c].phase = "read" /\ UNCHANGED panelRest
      BY <1>9 DEF Panels!WriteRow
  <2>2. CASE call' = [call EXCEPT ![c].phase = "refused"] /\ UNCHANGED Panels!database
      BY <1>3, <2>1, <2>2
  <2>3. CASE Panels!Written(c, call[c].row) /\ call' = Panels!AfterWrite(c)
      BY <1>8, <2>1, <2>3
  <2> QED
      BY <1>9, <2>2, <2>3 DEF Panels!WriteRow
<1>10. ASSUME NEW c \in Presses, Panels!Answered(c), call[c].phase = "done" PROVE PanelInv'
  <2> DEFINE next == [call[c] EXCEPT !.phase = "told"]
  <2>1. call[c] \in PanelCall /\ call' = [call EXCEPT ![c] = next]
      BY <1>0, <1>10 DEF PanelTyped, Panels!Answered
  <2>2. next \in PanelCall /\ next.phase = "told" /\ next.op = call[c].op
      BY <1>0 DEF PanelCall, PanelPhases
  <2> HIDE DEF next
  <2>3. /\ call'[c] = next /\ \A d \in Panels!Calls \ {c} : call'[d] = call[d]
        /\ call' \in [Panels!Calls -> PanelCall]
      BY <1>0, <2>1, <2>2 DEF PanelTyped
  <2>4. /\ UNCHANGED <<page, status, role, last, session, feed, moved, cut, switching>>
        /\ dialog' = None
        /\ load' = IF Panels!Writes(c) THEN Panels!Invalidated ELSE load
        /\ renewal' = IF call[c].op.name = "transfer" /\ session # None /\ renewal = None
                      THEN [asks |-> session.tenant, answer |-> None] ELSE renewal
      BY <1>10 DEF Panels!Answered
  <2>5. session # None => session.tenant \in Tenants
      BY <1>0 DEF PanelTyped, Panels!Sessions
  <2>6. renewal' \in Renewals \union {None} /\ (session' = None => renewal' = None)
      BY <1>0, <2>4, <2>5 DEF PanelTyped, Renewals, PanelInv
  <2>7. /\ load' \in Panels!Loads \union {None}
        /\ Panels!Writes(c) /\ session # None => load' # None
        /\ load' # None => \/ load'.tenant = session.tenant /\ load'.answer = None
                           \/ load # None /\ load'.tenant = load.tenant /\ load'.answer = load.answer
        /\ Panels!Writes(c) /\ load' # None /\ load'.answer # None => load'.joined
      BY <1>0, <2>4, <2>5, PanelInvalidated DEF PanelTyped
  <2>8. PanelTyped'
      BY <1>0, <2>3, <2>4, <2>6, <2>7 DEF PanelTyped
  <2>9. \A d \in Panels!Calls : CallOffered(d)'
    <3>1. ASSUME NEW d \in Panels!Calls \ {c} PROVE CallOffered(d)'
        BY <1>0, <2>3, <2>4 DEF CallOffered, Offers
    <3>2. CallOffered(c)'
        BY <2>2, <2>3 DEF CallOffered
    <3> QED
        BY <3>1, <3>2
  <2>10. ASSUME NEW r \in Rows PROVE WrittenBy(r)'
    <3>1. WrittenBy(r) /\ last'[r] = last[r]
        BY <2>4 DEF PanelInv
    <3>2. CASE last[r] = c
        BY <1>10, <2>2, <2>3, <3>1, <3>2 DEF WrittenBy, Panels!Writes
    <3>3. CASE last[r] # c
        BY <1>0, <2>3, <3>1, <3>3 DEF WrittenBy, Panels!Writes
    <3> QED
        BY <3>2, <3>3
  <2>11. ListsAreOfTheTenant'
    <3>1. ListsAreOfTheTenant
        BY DEF PanelInv
    <3> QED
        BY <2>4, <2>7, <3>1 DEF ListsAreOfTheTenant
  <2>12. ASSUME NEW r \in Rows PROVE OwnIsCurrent(r)'
    <3>1. OwnIsCurrent(r)
        BY DEF PanelInv
    <3>2. \A rows : Current(rows, r)' <=> Current(rows, r)
        BY <2>4 DEF Current, Panels!Listed
    <3>3. CASE Panels!Writes(c)
      <4>1. session # None => load' # None /\ (load'.answer # None => load'.joined)
          BY <2>7, <3>3
      <4> QED
          BY <2>4, <4>1 DEF OwnIsCurrent, IsOwn
    <3>4. CASE ~Panels!Writes(c)
      <4>1. last[r] # c
          BY <3>4 DEF PanelInv, WrittenBy
      <4>2. IsOwn(r)' => IsOwn(r)
          BY <1>0, <2>3, <2>4, <4>1 DEF IsOwn
      <4> QED
          BY <2>4, <3>1, <3>2, <3>4, <4>2 DEF OwnIsCurrent
    <3> QED
        BY <3>3, <3>4
  <2> QED
      BY <2>4, <2>6, <2>8, <2>9, <2>10, <2>11, <2>12 DEF PanelInv
<1>11. ASSUME NEW c \in Presses, Panels!Answered(c) PROVE PanelInv'
  <2>1. CASE call[c].phase = "done"
      BY <1>10, <1>11, <2>1
  <2>2. CASE call[c].phase # "done"
    <3> DEFINE next == [call[c] EXCEPT !.phase = "over"]
    <3>1. /\ call[c] \in PanelCall /\ call' = [call EXCEPT ![c] = next]
          /\ call[c].phase \in {"refused", "limited"} /\ UNCHANGED <<panelRest, status, role, last>>
        BY <1>0, <1>11, <2>2 DEF PanelTyped, Panels!Answered
    <3>2. next \in PanelCall /\ next.phase = "over"
        BY <1>0 DEF PanelCall, PanelPhases
    <3> HIDE DEF next
    <3>3. call'[c] = next
        BY <1>0, <3>1 DEF PanelTyped
    <3>4. CallOffered(c)'
        BY <3>2, <3>3 DEF CallOffered
    <3> QED
        BY <1>0, <3>1, <3>2, <3>4, PanelCallStep
  <2> QED
      BY <2>1, <2>2
<1> QED
    BY <1>1, <1>2, <1>4, <1>5, <1>6, <1>7, <1>9, <1>11 DEF Panels!Handle

\* What the page does: its list, its dialog, its buttons.
LEMMA PanelBrowseStep == PanelInv /\ Panels!Browse => PanelInv'
<1> SUFFICES ASSUME PanelInv, Panels!Browse PROVE PanelInv'
    OBVIOUS
<1> USE PanelConstants DEF Panels!database, Panels!browser, Panels!lists, panelRest
<1>0. /\ PanelTyped /\ (session # None => session.tenant \in Tenants)
      /\ \A r \in Rows : OwnIsCurrent(r)
    BY DEF PanelInv, PanelTyped, Panels!Sessions
<1>1. ASSUME Panels!StartLoad PROVE PanelInv'
  <2>1. /\ session # None /\ load = None /\ load' = Panels!Load(session.tenant)
        /\ UNCHANGED <<page, status, role, last, call, session, feed, moved, cut, dialog, renewal,
                       switching>>
      BY <1>1 DEF Panels!StartLoad
  <2>2. load' \in Panels!Loads /\ load' # None /\ load'.tenant = session.tenant /\ load'.answer = None
      BY <1>0, <2>1, PanelLoad
  <2>3. PanelTyped'
      BY <1>0, <2>1, <2>2 DEF PanelTyped
  <2>4. ListsAreOfTheTenant'
      BY <2>1, <2>2 DEF PanelInv, ListsAreOfTheTenant
  <2>5. \A r \in Rows : OwnIsCurrent(r)'
      BY <2>1, <2>2 DEF OwnIsCurrent
  <2> QED
      BY <2>1, <2>3, <2>4, <2>5, PanelBrowserStep DEF PanelInv
<1>2. ASSUME Panels!ServeList PROVE PanelInv'
  <2>1. PICK answer : /\ answer = [ok |-> Panels!Admitted(load.tenant, Panels!ListNeeds(page)),
                                   rows |-> Panels!Listed(load.tenant)]
                      /\ load' = [load EXCEPT !.answer = answer]
      BY <1>2 DEF Panels!ServeList
  <2>2. /\ load # None /\ load.answer = None
        /\ UNCHANGED <<page, status, role, last, call, session, feed, moved, cut, dialog, renewal,
                       switching>>
      BY <1>2 DEF Panels!ServeList
  <2>3. Panels!Listed(load.tenant) \subseteq Entries
        /\ \A e \in Panels!Listed(load.tenant) : HomeOf[e.row] = load.tenant
      BY <1>0 DEF Panels!Listed, Entries, PanelTyped
  <2>4. answer.rows = Panels!Listed(load.tenant) /\ answer \in Panels!Answers
    <3>1. Panels!Admitted(load.tenant, Panels!ListNeeds(page)) \in BOOLEAN
        BY Zenon DEF Panels!Admitted
    <3>2. PICK ok \in BOOLEAN : answer = [ok |-> ok, rows |-> Panels!Listed(load.tenant)]
        BY <2>1, <3>1, Zenon
    <3> QED
        BY <2>3, <3>2 DEF Panels!Answers, Entries
  <2>5. load' \in Panels!Loads /\ load' # None /\ load'.tenant = load.tenant /\ load'.answer = answer
      BY <1>0, <2>1, <2>2, <2>4 DEF PanelTyped, Panels!Loads
  <2>6. PanelTyped'
      BY <1>0, <2>2, <2>5 DEF PanelTyped
  <2>7. ListsAreOfTheTenant'
      BY <2>2, <2>3, <2>4, <2>5 DEF PanelInv, ListsAreOfTheTenant
  <2>8. ASSUME NEW r \in Rows PROVE OwnIsCurrent(r)'
    <3>1. CASE IsOwn(r)'
      <4>1. ~moved /\ load.tenant = session.tenant
          BY <2>2, <3>1 DEF IsOwn, PanelInv, ListsAreOfTheTenant
      <4>2. Current(Panels!Listed(session.tenant), r)'
          BY <2>2 DEF Current, Panels!Listed
      <4>3. answer.rows = Panels!Listed(session.tenant)'
          BY <2>2, <2>4, <4>1 DEF Panels!Listed
      <4> QED
          BY <2>5, <4>2, <4>3 DEF OwnIsCurrent
    <3>2. CASE ~IsOwn(r)'
        BY <3>2 DEF OwnIsCurrent
    <3> QED
        BY <3>1, <3>2
  <2> QED
      BY <2>2, <2>6, <2>7, <2>8, PanelBrowserStep DEF PanelInv
<1>3. ASSUME Panels!TakeList PROVE PanelInv'
  <2>1. /\ load # None /\ load.answer # None /\ load' = None /\ cut' = load.joined
        /\ load.joined \in BOOLEAN
        /\ feed' = IF load.answer.ok
                   THEN [loaded |-> TRUE, error |-> FALSE, rows |-> load.answer.rows]
                   ELSE [feed EXCEPT !.error = TRUE]
        /\ UNCHANGED <<page, status, role, last, call, session, moved, dialog, renewal, switching>>
      BY <1>0, <1>3 DEF Panels!TakeList, PanelTyped, Panels!Loads
  <2>2. load.answer \in Panels!Answers
      BY <1>0, <2>1 DEF PanelTyped, Panels!Loads
  <2>3. CASE load.answer.ok
    <3>1. /\ feed' \in PanelFeed /\ feed'.rows = load.answer.rows
        BY <2>1, <2>2, <2>3 DEF PanelFeed, Panels!Answers, Entries
    <3>2. PanelTyped'
      <4>1. cut' \in BOOLEAN
          BY <2>1, Zenon
      <4> QED
          BY <1>0, <2>1, <3>1, <4>1, Zenon DEF PanelTyped
    <3>3. ListsAreOfTheTenant'
        BY <2>1, <3>1 DEF PanelInv, ListsAreOfTheTenant
    <3>4. ASSUME NEW r \in Rows PROVE OwnIsCurrent(r)'
      <4>1. \A rows : Current(rows, r)' <=> Current(rows, r)
          BY <2>1 DEF Current, Panels!Listed
      <4> QED
          BY <1>0, <2>1, <2>3, <3>1, <4>1 DEF OwnIsCurrent, IsOwn
    <3> QED
        BY <2>1, <3>2, <3>3, <3>4, PanelBrowserStep DEF PanelInv
  <2>4. CASE ~load.answer.ok
    <3>1. feed' \in PanelFeed /\ feed'.rows = feed.rows /\ feed'.error
        BY <1>0, <2>1, <2>4 DEF PanelFeed, PanelTyped
    <3>2. PanelTyped'
      <4>1. cut' \in BOOLEAN
          BY <2>1, Zenon
      <4> QED
          BY <1>0, <2>1, <3>1, <4>1, Zenon DEF PanelTyped
    <3>3. ListsAreOfTheTenant'
        BY <2>1, <3>1 DEF PanelInv, ListsAreOfTheTenant
    <3>4. \A r \in Rows : OwnIsCurrent(r)'
        BY <2>1, <3>1 DEF OwnIsCurrent
    <3> QED
        BY <2>1, <3>2, <3>3, <3>4, PanelBrowserStep DEF PanelInv
  <2> QED
      BY <2>3, <2>4
<1>4. ASSUME NEW entry \in Panels!Entries, NEW op \in Panels!OpsOf(page),
             Panels!OpenDialog(entry, op)
      PROVE  PanelInv'
  <2>1. Offers(dialog'.op, dialog'.entry.status, dialog'.known)
      BY <1>4 DEF Panels!OpenDialog, Panels!Offered, Offers
  <2>2. UNCHANGED <<page, status, role, last, call, session, feed, load, moved, cut, renewal, switching>>
      BY <1>4 DEF Panels!OpenDialog
  <2>3. PanelTyped' /\ (session = None => renewal' = None)
      BY <1>0, <2>2 DEF PanelTyped, PanelInv
  <2> QED
      BY <2>1, <2>2, <2>3, PanelAsideStep
<1>5. ASSUME Panels!CloseDialog PROVE PanelInv'
  <2>1. dialog' = None
        /\ UNCHANGED <<page, status, role, last, call, session, feed, load, moved, cut, renewal,
                       switching>>
      BY <1>5 DEF Panels!CloseDialog
  <2>2. PanelTyped' /\ (session = None => renewal' = None)
      BY <1>0, <2>1 DEF PanelTyped, PanelInv
  <2> QED
      BY <2>1, <2>2, PanelAsideStep
<1>6. ASSUME NEW c \in Presses, NEW entry \in Panels!Entries, NEW op \in Panels!OpsOf(page),
             Panels!Press(c, entry, op)
      PROVE  PanelInv'
  <2>1. PICK known \in {"OWNER"} \union Panels!Staff :
           /\ \/ dialog # None /\ dialog = [entry |-> entry, op |-> op, known |-> known]
              \/ known = session.roles[session.tenant] /\ op \in Panels!Offered(entry)
           /\ call' = [call EXCEPT ![c] = [phase |-> "sent", op |-> op, row |-> entry.row,
                                           tenant |-> session.tenant, shown |-> entry.status,
                                           known |-> known, held |-> FALSE]]
      BY <1>6 DEF Panels!Press
  <2> DEFINE next == [phase |-> "sent", op |-> op, row |-> entry.row, tenant |-> session.tenant,
                      shown |-> entry.status, known |-> known, held |-> FALSE]
  <2>2. call[c].phase = "idle" /\ session # None /\ UNCHANGED <<panelRest, status, role, last>>
      BY <1>6 DEF Panels!Press
  <2>3. Offers(op, entry.status, known)
      BY <2>1 DEF PanelInv, Offers, Panels!Offered
  <2>4. entry \in Entries /\ op \in PanelOps /\ known \in Panels!Roles
      BY <1>0, EntriesOffered DEF PanelTyped, PanelOps, Panels!Staff, Panels!Roles
  <2>5. next \in PanelCall
      BY <1>0, <2>2, <2>4 DEF PanelCall, PanelPhases, Entries
  <2>6. /\ next.phase = "sent" /\ next.op = op /\ next.row = entry.row /\ next.known = known
        /\ next.tenant = session.tenant /\ next.shown = entry.status
      OBVIOUS
  <2>7. call' = [call EXCEPT ![c] = next]
      BY <2>1
  <2> HIDE DEF next
  <2>8. call'[c] = next /\ c \in Panels!Calls
      BY <1>0, <2>7 DEF PanelTyped, Panels!Calls
  <2>9. CallOffered(c)'
      BY <1>0, <2>2, <2>3, <2>4, <2>6, <2>8 DEF CallOffered, Offers, Entries
  <2> QED
      BY <2>2, <2>5, <2>6, <2>7, <2>8, <2>9, PanelCallStep
<1> QED
    BY <1>1, <1>2, <1>3, <1>4, <1>5, <1>6 DEF Panels!Browse

\* The session: renewed, or moved to another tenant.
LEMMA PanelRenewStep == PanelInv /\ Panels!Renew => PanelInv'
<1> SUFFICES ASSUME PanelInv, Panels!Renew PROVE PanelInv'
    OBVIOUS
<1> USE PanelConstants DEF Panels!database, Panels!browser, Panels!lists
<1>0. /\ PanelTyped /\ (session # None => session.tenant \in Tenants)
      /\ \A r \in Rows : OwnIsCurrent(r)
      /\ dialog # None => Offers(dialog.op, dialog.entry.status, dialog.known)
      /\ session = None => renewal = None
    BY DEF PanelInv, PanelTyped, Panels!Sessions
<1>1. ASSUME Panels!StartRenewal PROVE PanelInv'
  <2>1. /\ session # None /\ renewal' = [asks |-> session.tenant, answer |-> None]
        /\ UNCHANGED <<page, status, role, last, call, session, feed, load, moved, cut, dialog,
                       switching>>
      BY <1>1 DEF Panels!StartRenewal
  <2>2. renewal' \in Renewals
      BY <1>0, <2>1 DEF Renewals
  <2>3. PanelTyped'
      BY <1>0, <2>1, <2>2 DEF PanelTyped
  <2> QED
      BY <1>0, <2>1, <2>3, PanelAsideStep
<1>2. ASSUME Panels!ServeRenewal PROVE PanelInv'
  <2>1. PICK t \in Tenants \union {None} :
           renewal' = [renewal EXCEPT !.answer = [tenant |-> t, roles |-> Panels!Memberships]]
      BY <1>2 DEF Panels!ServeRenewal, Panels!Active
  <2>2. /\ renewal # None
        /\ UNCHANGED <<page, status, role, last, call, session, feed, load, moved, cut, dialog,
                       switching>>
      BY <1>2 DEF Panels!ServeRenewal
  <2>3. renewal' \in Renewals
      BY <1>0, <2>1, <2>2, MembershipsTyped DEF Renewals, PanelTyped
  <2>4. PanelTyped'
      BY <1>0, <2>2, <2>3 DEF PanelTyped
  <2> QED
      BY <1>0, <2>2, <2>4, PanelAsideStep
<1>3. ASSUME Panels!TakeRenewal PROVE PanelInv'
  <2>1. /\ renewal # None /\ renewal.answer # None /\ renewal' = None /\ session # None
        /\ UNCHANGED <<page, status, role, last, call, dialog, switching>>
      BY <1>0, <1>3 DEF Panels!TakeRenewal
  <2>2. renewal.answer \in [tenant : Tenants \union {None}, roles : RoleMap]
      BY <1>0, <2>1 DEF PanelTyped, Renewals
  <2>3. CASE /\ session' = None /\ load' = None /\ feed' = Panels!NoList /\ UNCHANGED <<moved, cut>>
    <3>1. feed' \in PanelFeed /\ feed'.rows = {}
        BY <2>3 DEF Panels!NoList, PanelFeed
    <3>2. PanelTyped'
        BY <1>0, <2>1, <2>3, <3>1 DEF PanelTyped
    <3>3. ListsAreOfTheTenant' /\ \A r \in Rows : OwnIsCurrent(r)'
        BY <2>3, <3>1 DEF ListsAreOfTheTenant, OwnIsCurrent, IsOwn
    <3> QED
        BY <1>0, <2>1, <2>3, <3>2, <3>3, PanelBrowserStep DEF Offers
  <2>4. CASE /\ renewal.answer.tenant # None /\ session' = renewal.answer
             /\ moved' = (moved \/ renewal.answer.tenant # session.tenant)
             /\ UNCHANGED <<load, feed, cut>>
    <3>1. session' \in Panels!Sessions
        BY <2>2, <2>4 DEF Panels!Sessions, RoleMap
    <3>2. moved' \in BOOLEAN /\ (~moved' => ~moved /\ session'.tenant = session.tenant)
      <4>1. moved' \in BOOLEAN
          BY <2>4, Zenon
      <4> QED
          BY <2>4, <4>1
    <3>3. PanelTyped'
        BY <1>0, <2>1, <2>4, <3>1, <3>2 DEF PanelTyped
    <3>4. ListsAreOfTheTenant'
        BY <2>4, <3>2 DEF PanelInv, ListsAreOfTheTenant
    <3>5. ASSUME NEW r \in Rows PROVE OwnIsCurrent(r)'
      <4>1. IsOwn(r)' => IsOwn(r) /\ session'.tenant = session.tenant
          BY <2>1, <3>2 DEF IsOwn
      <4>2. session'.tenant = session.tenant => \A rows : Current(rows, r)' <=> Current(rows, r)
          BY <2>1 DEF Current, Panels!Listed
      <4> QED
          BY <1>0, <2>4, <4>1, <4>2 DEF OwnIsCurrent
    <3> QED
        BY <1>0, <2>1, <3>1, <3>3, <3>4, <3>5, PanelBrowserStep DEF Offers
  <2> QED
      BY <1>3, <2>3, <2>4 DEF Panels!TakeRenewal
<1> QED
    BY <1>1, <1>2, <1>3 DEF Panels!Renew

LEMMA PanelSwitchStep == PanelInv /\ Panels!ChangeTenant => PanelInv'
<1> SUFFICES ASSUME PanelInv, Panels!ChangeTenant PROVE PanelInv'
    OBVIOUS
<1> USE PanelConstants DEF Panels!database, Panels!browser, Panels!lists
<1>0. /\ PanelTyped /\ (session # None => session.tenant \in Tenants)
      /\ \A r \in Rows : OwnIsCurrent(r)
      /\ dialog # None => Offers(dialog.op, dialog.entry.status, dialog.known)
      /\ session = None => renewal = None
    BY DEF PanelInv, PanelTyped, Panels!Sessions
<1>1. ASSUME NEW t \in Tenants, Panels!Switch(t) PROVE PanelInv'
  <2>1. /\ switching' = [to |-> t, answer |-> None] /\ load' = None /\ cut' = (cut \/ load # None)
        /\ UNCHANGED <<page, status, role, last, call, session, feed, moved, dialog, renewal>>
      BY <1>1 DEF Panels!Switch
  <2>2. cut' \in BOOLEAN /\ (~cut' => ~cut /\ load = None)
    <3>1. cut' \in BOOLEAN
        BY <2>1, Zenon
    <3> QED
        BY <2>1, <3>1
  <2>3. switching' \in Switchings
      BY <2>1 DEF Switchings
  <2>4. PanelTyped'
      BY <1>0, <2>1, <2>2, <2>3 DEF PanelTyped
  <2>5. ListsAreOfTheTenant'
      BY <2>1 DEF PanelInv, ListsAreOfTheTenant
  <2>6. ASSUME NEW r \in Rows PROVE OwnIsCurrent(r)'
    <3>1. \A rows : Current(rows, r)' <=> Current(rows, r)
        BY <2>1 DEF Current, Panels!Listed
    <3> QED
        BY <1>0, <2>1, <2>2, <3>1 DEF OwnIsCurrent, IsOwn
  <2> QED
      BY <1>0, <2>1, <2>4, <2>5, <2>6, PanelBrowserStep DEF Offers
<1>2. ASSUME Panels!ServeSwitch PROVE PanelInv'
  <2>1. PICK answer \in {"yes", "no"} : switching' = [switching EXCEPT !.answer = answer]
      BY <1>2 DEF Panels!ServeSwitch
  <2>2. /\ switching # None
        /\ UNCHANGED <<page, status, role, last, call, session, feed, load, moved, cut, dialog, renewal>>
      BY <1>2 DEF Panels!ServeSwitch
  <2>3. switching' \in Switchings
      BY <1>0, <2>1, <2>2 DEF Switchings, PanelTyped
  <2>4. PanelTyped'
      BY <1>0, <2>2, <2>3 DEF PanelTyped
  <2> QED
      BY <1>0, <2>2, <2>4, PanelAsideStep
<1>3. ASSUME Panels!TakeSwitch PROVE PanelInv'
  <2>1. /\ switching # None /\ switching' = None
        /\ UNCHANGED <<page, status, role, last, call, dialog, renewal>>
      BY <1>3 DEF Panels!TakeSwitch
  <2>2. CASE switching.answer = "yes" /\ session # None
    <3>1. /\ session' = [session EXCEPT !.tenant = switching.to] /\ feed' = Panels!NoList
          /\ load' = Panels!Load(switching.to) /\ moved' = FALSE /\ cut' = FALSE
        BY <1>3, <2>2 DEF Panels!TakeSwitch, Panels!ListAfterSwitch
    <3>2. switching.to \in Tenants
        BY <1>0, <2>1 DEF PanelTyped, Switchings
    <3>3. session' \in Panels!Sessions /\ session'.tenant = switching.to
        BY <1>0, <2>2, <3>1, <3>2 DEF PanelTyped, Panels!Sessions
    <3>4. load' \in Panels!Loads /\ load'.tenant = switching.to /\ load'.answer = None
          /\ load' # None
        BY <3>1, <3>2, PanelLoad
    <3>5. feed' \in PanelFeed /\ feed'.rows = {}
        BY <3>1 DEF Panels!NoList, PanelFeed
    <3>6. PanelTyped'
      <4>1. moved' \in BOOLEAN /\ cut' \in BOOLEAN
          BY <3>1, Zenon
      <4> QED
          BY <1>0, <2>1, <3>3, <3>4, <3>5, <4>1, Zenon DEF PanelTyped
    <3>7. ListsAreOfTheTenant' /\ \A r \in Rows : OwnIsCurrent(r)'
        BY <3>3, <3>4, <3>5 DEF ListsAreOfTheTenant, OwnIsCurrent
    <3> QED
        BY <1>0, <2>1, <3>3, <3>6, <3>7, PanelBrowserStep DEF Offers
  <2>3. CASE ~(switching.answer = "yes" /\ session # None)
    <3>1. UNCHANGED <<session, feed, load, moved, cut>>
        BY <1>3, <2>3 DEF Panels!TakeSwitch
    <3>2. PanelTyped'
        BY <1>0, <2>1, <3>1 DEF PanelTyped
    <3> QED
        BY <1>0, <2>1, <3>1, <3>2, PanelAsideStep
  <2> QED
      BY <2>2, <2>3
<1> QED
    BY <1>1, <1>2, <1>3 DEF Panels!ChangeTenant

LEMMA PanelStep == PanelInv /\ Panels!Next => PanelInv'
<1> SUFFICES ASSUME PanelInv, Panels!Next PROVE PanelInv'
    OBVIOUS
<1>1. ASSUME NEW t \in Tenants, NEW r \in Panels!Staff \union {None}, Panels!ChangeRole(t, r)
      PROVE  PanelInv'
  <2>1. /\ role' = [role EXCEPT ![t] = r]
        /\ UNCHANGED <<panelRest, status, last, call>>
      BY <1>1 DEF Panels!ChangeRole, Panels!browser, Panels!lists, panelRest
  <2>2. role' \in RoleMap /\ call' \in [Panels!Calls -> PanelCall]
      BY <2>1 DEF PanelInv, PanelTyped, RoleMap, Panels!Staff, Panels!Roles
  <2>3. \A d \in Panels!Calls : CallOffered(d)'
      BY <2>1 DEF PanelInv, CallOffered, Offers, panelRest
  <2> QED
      BY <2>1, <2>2, <2>3, PanelCallsStep
<1>2. ASSUME NEW t \in Tenants, Panels!ChangeStatus(t) PROVE PanelInv'
  <2>1. UNCHANGED <<panelRest, status, role, last, call>>
      BY <1>2 DEF Panels!ChangeStatus, Panels!browser, Panels!lists, panelRest
  <2>2. role' \in RoleMap /\ call' \in [Panels!Calls -> PanelCall]
      BY <2>1 DEF PanelInv, PanelTyped
  <2>3. \A d \in Panels!Calls : CallOffered(d)'
      BY <2>1 DEF PanelInv, CallOffered, Offers, panelRest
  <2> QED
      BY <2>1, <2>2, <2>3, PanelCallsStep
<1> QED
    BY <1>1, <1>2, PanelHandleStep, PanelBrowseStep, PanelRenewStep, PanelSwitchStep
    DEF Panels!Next

\* What is refused was taken by another, or the role was, or the tenant suspended.
LEMMA PanelRefusals == PanelInv /\ Panels!Next => Panels!RefusesOnlyChanged
<1> SUFFICES ASSUME PanelInv, Panels!Next, NEW c \in Presses,
                    call[c].phase # "refused", call'[c].phase = "refused"
             PROVE  \/ status[call[c].row] # call[c].shown
                    \/ role[call[c].tenant] # call[c].known
                    \/ call[c].tenant \in suspended
                    \/ HomeOf[call[c].row] # call[c].tenant
    BY DEF Panels!RefusesOnlyChanged
<1>0. /\ call \in [Panels!Calls -> PanelCall] /\ c \in Panels!Calls /\ page \in Panels!Pages
      /\ CallOffered(c) /\ Presses \intersect Others = {}
    BY PanelConstants DEF PanelInv, PanelTyped, Panels!Calls
<1>1. CASE Panels!Guard(c)
  <2>1. /\ ~Panels!Admitted(call[c].tenant, call[c].op.needs)
        /\ call[c].phase = "sent"
      BY <1>0, <1>1 DEF Panels!Guard
  <2>2. /\ call[c].op \in Panels!OpsOf(page) /\ Panels!Can(call[c].known, call[c].op.permission)
        /\ call[c].tenant \in Tenants /\ call[c].known \in Panels!Roles
      BY <1>0, <2>1 DEF CallOffered, Offers
  <2>3. CASE role[call[c].tenant] = call[c].known /\ call[c].tenant \notin suspended
      BY <1>0, <2>1, <2>2, <2>3, CanIsAdmitted
  <2> QED
      BY <2>3
<1>2. CASE Panels!ReadRow(c)
  <2>1. Panels!Refuses(c) /\ call[c].phase = "admitted"
      BY <1>0, <1>2 DEF Panels!ReadRow
  <2>2. Offers(call[c].op, call[c].shown, call[c].known)
      BY <1>0, <2>1 DEF CallOffered
  <2>3. Agrees(call[c].op, page)
      BY <1>0, <2>2, OpsAgree DEF Offers
  <2>4. CASE status[call[c].row] \in call[c].op.refused
      BY <2>2, <2>3, <2>4 DEF Agrees, Offers
  <2>5. CASE call[c].op.name = "transfer" /\ role[call[c].tenant] # "OWNER"
    <3>1. call[c].known = "OWNER"
        BY <2>2, <2>3, <2>5 DEF Agrees, Offers, Panels!Can
    <3> QED
        BY <2>5, <3>1
  <2> QED
      BY <2>1, <2>4, <2>5 DEF Panels!Refuses
<1>3. CASE Panels!WriteRow(c)
  <2>1. call[c].phase = "read"
      BY <1>3 DEF Panels!WriteRow
  <2>2. Panels!WriteFails(c)
    <3>1. CASE call' = Panels!AfterWrite(c)
      <4>1. call'[c] = [call[c] EXCEPT !.phase = "done"]
          BY <1>0, <3>1 DEF Panels!AfterWrite
      <4> QED
          BY <1>0, <4>1 DEF PanelCall
    <3> QED
        BY <1>3, <3>1 DEF Panels!WriteRow
  <2>3. Offers(call[c].op, call[c].shown, call[c].known)
      BY <1>0, <2>1 DEF CallOffered
  <2>4. Agrees(call[c].op, page)
      BY <1>0, <2>3, OpsAgree DEF Offers
  <2>5. call[c].shown \in {"ADMIN", "VIEWER"}
      BY <2>2, <2>3, <2>4 DEF Panels!WriteFails, Agrees, Offers
  <2>6. CASE call[c].op.name = "transfer" /\ role[call[c].tenant] # "OWNER"
    <3>1. call[c].known = "OWNER"
        BY <2>3, <2>4, <2>6 DEF Agrees, Offers, Panels!Can
    <3> QED
        BY <2>6, <3>1
  <2> QED
      BY <2>2, <2>5, <2>6 DEF Panels!WriteFails
<1>4. ASSUME NEW d \in Panels!Calls \ {c}, Panels!WriteRow(d) PROVE FALSE
  <2>1. CASE call' = Panels!AfterWrite(d)
    <3>1. call'[c] = [call[c] EXCEPT !.held = @ /\ ~Panels!Stale(c, d)]
        BY <1>0, <1>4, <2>1 DEF Panels!AfterWrite
    <3>2. (call[c].held /\ ~Panels!Stale(c, d)) \in BOOLEAN
        BY Zenon
    <3>3. PICK held : call'[c] = [call[c] EXCEPT !.held = held]
        BY <3>1, Zenon
    <3> QED
        BY <1>0, <3>3 DEF PanelCall
  <2> QED
      BY <1>0, <1>4, <2>1 DEF Panels!WriteRow
<1>5. ASSUME NEW d \in Presses,
             \/ d # c /\ (Panels!Guard(d) \/ Panels!ReadRow(d))
             \/ Panels!LimitReached(d) \/ Panels!Answered(d) \/ Panels!LoseAnswer(d)
      PROVE  FALSE
  <2>1. d \in Panels!Calls
      BY DEF Panels!Calls
  <2>2. CASE d # c
      BY <1>0, <1>5, <2>1, <2>2
      DEF Panels!Guard, Panels!ReadRow, Panels!LimitReached, Panels!Answered, Panels!LoseAnswer
  <2>3. CASE d = c
    <3>1. PICK ph \in {"limited", "told", "over"} : call' = [call EXCEPT ![c].phase = ph]
        BY <1>5, <2>3 DEF Panels!LimitReached, Panels!Answered, Panels!LoseAnswer
    <3> QED
        BY <1>0, <3>1 DEF PanelCall
  <2> QED
      BY <2>2, <2>3
<1>6. ASSUME NEW d \in Others, NEW r \in Rows, NEW op \in Panels!OpsOf(page),
             Panels!ReadForOther(d, r, op)
      PROVE  FALSE
    BY <1>0, <1>6 DEF Panels!ReadForOther
<1>7. ASSUME NEW d \in Presses, NEW entry \in Panels!Entries, NEW op \in Panels!OpsOf(page),
             Panels!Press(d, entry, op)
      PROVE  FALSE
  <2>1. d \in Panels!Calls
      BY DEF Panels!Calls
  <2> QED
      BY <1>0, <1>7, <2>1 DEF Panels!Press
<1>8. ASSUME UNCHANGED call PROVE FALSE
    BY <1>8
<1>9. CASE Panels!Handle
  <2>1. ASSUME NEW r \in Rows, NEW m \in Panels!Moves(page), Panels!Move(r, m) PROVE FALSE
      BY <1>8, <2>1 DEF Panels!Move
  <2> QED
      BY <1>1, <1>2, <1>3, <1>4, <1>5, <1>6, <1>9, <2>1 DEF Panels!Handle
<1>10. CASE Panels!Browse
    BY <1>7, <1>8, <1>10
    DEF Panels!Browse, Panels!StartLoad, Panels!ServeList, Panels!TakeList, Panels!OpenDialog,
        Panels!CloseDialog
<1>11. CASE Panels!Renew
    BY <1>8, <1>11
    DEF Panels!Renew, Panels!StartRenewal, Panels!ServeRenewal, Panels!TakeRenewal
<1>12. CASE Panels!ChangeTenant
    BY <1>8, <1>12
    DEF Panels!ChangeTenant, Panels!Switch, Panels!ServeSwitch, Panels!TakeSwitch
<1>13. ASSUME NEW t \in Tenants, NEW r \in Panels!Staff \union {None}, Panels!ChangeRole(t, r)
       PROVE  FALSE
    BY <1>8, <1>13 DEF Panels!ChangeRole
<1>14. ASSUME NEW t \in Tenants, Panels!ChangeStatus(t) PROVE FALSE
    BY <1>8, <1>14 DEF Panels!ChangeStatus
<1> QED
    BY <1>9, <1>10, <1>11, <1>12, <1>13, <1>14 DEF Panels!Next

LEMMA PanelInvariant == Spec => [](open = "panel" => PanelInv)
<1>1. Init => (open = "panel" => PanelInv)
    BY PanelInit DEF Init
<1>2. (open = "panel" => PanelInv) /\ [Next]_vars => (open = "panel" => PanelInv)'
  <2> SUFFICES ASSUME open = "panel" => PanelInv, [Next]_vars, open' = "panel" PROVE PanelInv'
      OBVIOUS
  <2>1. CASE UNCHANGED vars
    <3>1. UNCHANGED Panels!vars /\ open = "panel"
        BY <2>1 DEF vars, panelVars, Panels!vars, Panels!database, Panels!browser, Panels!lists
    <3>2. PanelInv
        BY <3>1
    <3> QED
        BY <2>1, <3>2
        DEF vars, panelVars, PanelInv, PanelTyped, CallOffered, Offers, WrittenBy, Panels!Writes,
            ListsAreOfTheTenant, OwnIsCurrent, IsOwn, Current, Panels!Listed
  <2>2. CASE Next
      BY <2>2, PanelStep DEF Next, RestOfDesk
  <2> QED
      BY <2>1, <2>2
<1> QED
    BY <1>1, <1>2, PTL DEF Spec

\* A list at rest shows what the page's own requests did, although the load that
\* filled it may have been cancelled, replaced or answered out of turn, unless it
\* is one that a success joined (invalidateQueries of the mutations).
THEOREM OwnIsShown == Spec => []OwnActionsAreShown
<1>1. (open = "panel" => PanelInv) => OwnActionsAreShown
  <2> SUFFICES ASSUME open = "panel", PanelInv PROVE Panels!OwnActionsAreShown
      BY DEF OwnActionsAreShown
  <2> QED
      BY DEF PanelInv, OwnIsCurrent, IsOwn, Current, Panels!OwnActionsAreShown
<1> QED
    BY <1>1, PanelInvariant, PTL

----------------------------------------------------------------------------
(* The desk: its list.                                                        *)

LEMMA DeskConstants ==
    /\ Transactions \subseteq Nat /\ IsFiniteSet(Transactions) /\ None \notin Transactions
    /\ At \in [Transactions -> Nat] /\ PageSize \in Nat \ {0}
<1>1. \A S : Desk!IsFiniteSet(S) = IsFiniteSet(S)
    BY DEF Desk!IsFiniteSet, IsFiniteSet
<1> QED
    BY <1>1, DeskAssumption DEF Desk!ConstantsAssumption

LEMMA CardinalityOfDesk == \A S : Desk!Cardinality(S) = Cardinality(S)
BY DEF Desk!Cardinality, Cardinality

LEMMA BeforeIsStrict ==
    \A r, q, p \in Transactions :
       /\ ~Desk!Before(r, r)
       /\ Desk!Before(r, q) /\ Desk!Before(q, p) => Desk!Before(r, p)
       /\ r # q => Desk!Before(r, q) \/ Desk!Before(q, r)
BY DeskConstants DEF Desk!Before

\* Sorted is what its name says.
LEMMA SortedIsSorted ==
    ASSUME NEW S \in SUBSET Transactions
    PROVE  /\ Cardinality(S) \in Nat /\ Desk!Sorted(S) \in [1 .. Cardinality(S) -> S]
           /\ \A i, j \in 1 .. Cardinality(S) :
                 i < j => Desk!Before(Desk!Sorted(S)[i], Desk!Sorted(S)[j])
<1> DEFINE earlier(r) == {q \in S : Desk!Before(q, r)}
           rank == [r \in S |-> Cardinality(earlier(r))]
           n == Cardinality(S)
<1>1. IsFiniteSet(S) /\ n \in Nat
    BY DeskConstants, FS_Subset, FS_CardinalityType
<1>2. ASSUME NEW r \in S
      PROVE  IsFiniteSet(earlier(r)) /\ Cardinality(earlier(r)) \in 0 .. n - 1
  <2>1. earlier(r) \in SUBSET (S \ {r})
      BY BeforeIsStrict
  <2>2. IsFiniteSet(S \ {r}) /\ Cardinality(S \ {r}) = n - 1
      BY <1>1, FS_RemoveElement
  <2>3. IsFiniteSet(earlier(r)) /\ Cardinality(earlier(r)) <= n - 1
      BY <2>1, <2>2, FS_Subset
  <2>4. Cardinality(earlier(r)) \in Nat
      BY <2>3, FS_CardinalityType
  <2> QED
      BY <1>1, <2>3, <2>4
<1>3. ASSUME NEW r \in S, NEW q \in S, Desk!Before(q, r)
      PROVE  Cardinality(earlier(q)) < Cardinality(earlier(r))
  <2>1. earlier(q) \union {q} \in SUBSET earlier(r) /\ q \notin earlier(q)
      BY <1>3, BeforeIsStrict
  <2>2. Cardinality(earlier(q) \union {q}) = Cardinality(earlier(q)) + 1
    <3> HIDE DEF earlier
    <3> QED
      BY <1>2, <2>1, FS_AddElement, Zenon
  <2>3. Cardinality(earlier(q) \union {q}) <= Cardinality(earlier(r))
    <3> HIDE DEF earlier
    <3> QED
      BY <1>2, <2>1, FS_Subset, Zenon
  <2> HIDE DEF earlier
  <2> QED
      BY <1>1, <1>2, <2>2, <2>3
<1> HIDE DEF earlier
<1>4. \A r \in S : rank[r] \in 0 .. n - 1 /\ rank[r] \in Int
    BY <1>1, <1>2
<1>5. \A r, q \in S : Desk!Before(q, r) => rank[q] < rank[r]
    BY <1>3
<1>6. rank \in Injection(S, 0 .. n - 1)
  <2>1. \A r, q \in S : rank[r] = rank[q] => r = q
      BY <1>4, <1>5, BeforeIsStrict
  <2> QED
      BY <1>4, <2>1 DEF Injection, IsInjective
<1>7. IsFiniteSet(0 .. n - 1) /\ Cardinality(0 .. n - 1) = n
    BY <1>1, FS_Interval
<1> HIDE DEF n
<1>8. rank \in Surjection(S, 0 .. n - 1)
    BY <1>6, <1>7, FS_Injection DEF n
<1>9. \A i \in 1 .. n : \E r \in S : rank[r] = i - 1
  <2>1. \A i \in 1 .. n : i - 1 \in 0 .. n - 1
      BY <1>1
  <2> QED
      BY <1>8, <2>1 DEF Surjection
<1>10. \A r \in S : rank[r] = Desk!Cardinality({q \in S : Desk!Before(q, r)})
    BY CardinalityOfDesk DEF earlier
<1> HIDE DEF rank
<1>11. /\ \A i \in 1 .. n : Desk!Sorted(S)[i] \in S /\ rank[Desk!Sorted(S)[i]] = i - 1
       /\ Desk!Sorted(S) \in [1 .. n -> S]
  <2>1. \A i \in 1 .. n : \E r \in S : Desk!Cardinality({q \in S : Desk!Before(q, r)}) = i - 1
      BY <1>9, <1>10
  <2>2. Desk!Sorted(S) = [i \in 1 .. n |->
           CHOOSE r \in S : Desk!Cardinality({q \in S : Desk!Before(q, r)}) = i - 1]
      BY CardinalityOfDesk DEF Desk!Sorted, n
  <2>3. ASSUME NEW i \in 1 .. n
        PROVE  /\ Desk!Sorted(S)[i] \in S
               /\ Desk!Cardinality({q \in S : Desk!Before(q, Desk!Sorted(S)[i])}) = i - 1
      BY <2>1, <2>2
  <2> QED
      BY <1>10, <2>2, <2>3
<1>12. ASSUME NEW i \in 1 .. n, NEW j \in 1 .. n, i < j
       PROVE  Desk!Before(Desk!Sorted(S)[i], Desk!Sorted(S)[j])
  <2>1. rank[Desk!Sorted(S)[i]] = i - 1 /\ rank[Desk!Sorted(S)[j]] = j - 1
        /\ Desk!Sorted(S)[i] \in S /\ Desk!Sorted(S)[j] \in S
      BY <1>11
  <2>2. i - 1 < j - 1 /\ ~(j - 1 < i - 1)
      BY <1>1, <1>12
  <2> QED
      BY <1>5, <2>1, <2>2, BeforeIsStrict
<1> QED
    BY <1>1, <1>11, <1>12 DEF n

\* The rows of a list: each before those that follow it.
Falls(rows) == \A i, j \in DOMAIN rows : i < j => Desk!Before(rows[i].row, rows[j].row)

\* The cursor is the last row of what was got.
Reaches(rows, cursor) == IF rows = <<>> THEN cursor = None ELSE cursor = rows[Len(rows)].row

\* An answer goes on where the cursor is.
Continues(answer, cursor) ==
    /\ Falls(answer.rows)
    /\ \A i \in DOMAIN answer.rows : Desk!PastCursor(cursor, answer.rows[i].row)
    /\ answer.more => answer.rows # <<>>

DeskAnswers == [rows : Seq(Desk!Entries), more : BOOLEAN]
DeskFeed ==
    [loaded : BOOLEAN, error : BOOLEAN, rows : Seq(Desk!Entries), pages : Nat, more : BOOLEAN]
DeskLoads ==
    [kind : {"first", "again", "more"}, want : Nat, got : Seq(Desk!Entries), n : Nat,
     cursor : Transactions \union {None}, answer : DeskAnswers \union {None}]

ListInv ==
    /\ feed \in DeskFeed /\ load \in DeskLoads \union {None}
    /\ Falls(feed.rows) /\ (feed.more => feed.rows # <<>>)
    /\ load # None => /\ Falls(load.got) /\ Reaches(load.got, load.cursor)
                      /\ load.answer # None => Continues(load.answer, load.cursor)

DeskStatuses == status \in [Transactions -> Desk!Statuses]

\* A page of the API goes on after its cursor.
LEMMA PageContinues ==
    ASSUME DeskStatuses, NEW cursor \in Transactions \union {None}
    PROVE  Desk!Page(cursor) \in DeskAnswers /\ Continues(Desk!Page(cursor), cursor)
<1> DEFINE rest == {r \in Desk!Committed : Desk!PastCursor(cursor, r)}
           found == Desk!Sorted(rest)
           n == IF Len(found) > PageSize THEN PageSize ELSE Len(found)
           rows == [i \in 1 .. n |-> Desk!Entry(found[i])]
           more == Len(found) > PageSize
<1>1. rest \in SUBSET Transactions /\ \A r \in rest : status[r] # "NONE" /\ Desk!PastCursor(cursor, r)
    BY DEF Desk!Committed
<1>2. Desk!Page(cursor) = [rows |-> rows, more |-> more]
    BY DEF Desk!Page
<1> HIDE DEF rest
<1>3. /\ Cardinality(rest) \in Nat /\ found \in [1 .. Cardinality(rest) -> rest]
      /\ \A i, j \in 1 .. Cardinality(rest) : i < j => Desk!Before(found[i], found[j])
    BY <1>1, SortedIsSorted
<1> HIDE DEF found
<1>4. found \in Seq(rest) /\ Len(found) = Cardinality(rest)
    BY <1>3
<1>5. n \in Nat /\ n <= Len(found) /\ 1 .. n \subseteq 1 .. Len(found)
    BY <1>3, <1>4, DeskConstants
<1> HIDE DEF n
<1>6. \A i \in 1 .. n : rows[i] \in Desk!Entries /\ rows[i].row = found[i] /\ found[i] \in rest
    BY <1>1, <1>3, <1>4, <1>5 DEF Desk!Entry, Desk!Entries, DeskStatuses
<1>7. rows \in Seq(Desk!Entries) /\ DOMAIN rows = 1 .. n /\ Len(rows) = n
    BY <1>5, <1>6
<1> HIDE DEF rows
<1>8. Falls(rows)
    BY <1>3, <1>4, <1>5, <1>6, <1>7 DEF Falls
<1>9. \A i \in DOMAIN rows : Desk!PastCursor(cursor, rows[i].row)
    BY <1>1, <1>6, <1>7
<1>10. more => rows # <<>>
    BY <1>4, <1>7, <1>3, DeskConstants DEF n
<1>11. PICK b \in BOOLEAN : b = more
  <2>1. CASE more
      BY <2>1, Zenon
  <2>2. CASE ~more
    <3>1. more = FALSE
        BY <2>2, <1>3, <1>4, DeskConstants
    <3> QED
        BY <3>1, Zenon
  <2> QED
      BY <2>1, <2>2
<1> HIDE DEF more
<1> QED
    BY <1>2, <1>7, <1>8, <1>9, <1>10, <1>11 DEF DeskAnswers, Continues

LEMMA RowsAreTransactions ==
    ASSUME NEW rows \in Seq(Desk!Entries)
    PROVE  /\ \A i \in DOMAIN rows : rows[i].row \in Transactions
           /\ rows # <<>> => /\ Len(rows) \in DOMAIN rows
                             /\ Desk!NextCursor(rows) = rows[Len(rows)].row
                             /\ Desk!NextCursor(rows) \in Transactions
<1>1. \A i \in DOMAIN rows : rows[i] \in Desk!Entries
    OBVIOUS
<1>2. \A i \in DOMAIN rows : rows[i].row \in Transactions
    BY <1>1 DEF Desk!Entries
<1>3. rows # <<>> => Len(rows) \in DOMAIN rows
    OBVIOUS
<1> QED
    BY <1>2, <1>3 DEF Desk!NextCursor

LEMMA PastIsAfter ==
    \A r, q \in Transactions : Desk!PastCursor(q, r) => Desk!Before(q, r)
BY DeskConstants DEF Desk!PastCursor, Desk!Before

\* What was got and the page after it.
LEMMA PagesJoin ==
    ASSUME NEW got \in Seq(Desk!Entries), NEW rows \in Seq(Desk!Entries),
           NEW cursor \in Transactions \union {None},
           Falls(got), Falls(rows), Reaches(got, cursor),
           \A i \in DOMAIN rows : Desk!PastCursor(cursor, rows[i].row)
    PROVE  got \o rows \in Seq(Desk!Entries) /\ Falls(got \o rows)
<1> DEFINE all == got \o rows
<1>1. /\ all \in Seq(Desk!Entries) /\ DOMAIN all = 1 .. Len(got) + Len(rows)
      /\ \A i \in 1 .. Len(got) + Len(rows) :
            all[i] = IF i <= Len(got) THEN got[i] ELSE rows[i - Len(got)]
      /\ DOMAIN got = 1 .. Len(got) /\ DOMAIN rows = 1 .. Len(rows)
      /\ Len(got) \in Nat /\ Len(rows) \in Nat
    OBVIOUS
<1> HIDE DEF all
<1>2. /\ \A i \in DOMAIN got : got[i].row \in Transactions
      /\ \A i \in DOMAIN rows : rows[i].row \in Transactions
    BY RowsAreTransactions
<1>3. SUFFICES ASSUME NEW i \in DOMAIN all, NEW j \in DOMAIN all, i < j
               PROVE  Desk!Before(all[i].row, all[j].row)
    BY <1>1 DEF Falls, all
<1>4. CASE j <= Len(got)
  <2>1. i \in DOMAIN got /\ j \in DOMAIN got /\ all[i] = got[i] /\ all[j] = got[j]
      BY <1>1, <1>3, <1>4
  <2> QED
      BY <1>3, <2>1 DEF Falls
<1>5. CASE i > Len(got)
  <2>1. /\ i - Len(got) \in DOMAIN rows /\ j - Len(got) \in DOMAIN rows
        /\ i - Len(got) < j - Len(got)
        /\ all[i] = rows[i - Len(got)] /\ all[j] = rows[j - Len(got)]
      BY <1>1, <1>3, <1>5
  <2> QED
      BY <2>1 DEF Falls
<1>6. CASE i <= Len(got) /\ j > Len(got)
  <2>1. /\ i \in DOMAIN got /\ Len(got) \in DOMAIN got /\ all[i] = got[i]
        /\ j - Len(got) \in DOMAIN rows /\ all[j] = rows[j - Len(got)]
      BY <1>1, <1>3, <1>6
  <2>2. cursor = got[Len(got)].row /\ cursor \in Transactions /\ cursor # None
      BY <1>2, <2>1, DeskConstants DEF Reaches
  <2>3. i = Len(got) \/ Desk!Before(all[i].row, cursor)
    <3>1. i \in Nat /\ Len(got) \in Nat /\ (i = Len(got) \/ i < Len(got))
        BY <1>1, <1>3, <1>6
    <3>2. i < Len(got) => Desk!Before(got[i].row, got[Len(got)].row)
        BY <2>1, Zenon DEF Falls
    <3> QED
        BY <2>1, <2>2, <3>1, <3>2
  <2>4. Desk!PastCursor(cursor, all[j].row) /\ all[j].row \in Transactions
      BY <1>2, <2>1
  <2>5. Desk!Before(cursor, all[j].row)
      BY <2>2, <2>4, PastIsAfter
  <2>6. CASE i = Len(got)
      BY <2>1, <2>2, <2>5, <2>6
  <2>7. CASE Desk!Before(all[i].row, cursor)
      BY <1>2, <2>1, <2>2, <2>4, <2>5, <2>7, BeforeIsStrict
  <2> QED
      BY <2>3, <2>6, <2>7
<1> QED
    BY <1>1, <1>3, <1>4, <1>5, <1>6

LEMMA InvalidateKeepsList == ListInv /\ Desk!Invalidate => ListInv'
<1> SUFFICES ASSUME ListInv, Desk!Invalidate PROVE ListInv'
    OBVIOUS
<1>1. feed' = feed /\ (load' = load \/ load' = Desk!Again)
    BY DEF Desk!Invalidate, Desk!InvalidateList
<1>2. /\ Desk!Again \in DeskLoads /\ Desk!Again.got = <<>> /\ Desk!Again.cursor = None
      /\ Desk!Again.answer = None
    BY DEF ListInv, Desk!Again, Desk!Load, DeskLoads, DeskFeed
<1>3. Falls(<<>>) /\ Reaches(<<>>, None)
    BY DEF Falls, Reaches
<1> QED
    BY <1>1, <1>2, <1>3 DEF ListInv

\* An empty load.
LEMMA FreshLoad ==
    ASSUME NEW how \in {"first", "again", "more"}, NEW want \in Nat
    PROVE  LET l == Desk!Load(how, want, <<>>, None)
           IN  /\ l \in DeskLoads /\ Falls(l.got) /\ Reaches(l.got, l.cursor) /\ l.answer = None
BY DEF Desk!Load, DeskLoads, Falls, Reaches

LEMMA ListInit == Desk!Init => ListInv
<1> SUFFICES ASSUME Desk!Init PROVE ListInv
    OBVIOUS
<1>1. feed \in DeskFeed /\ feed.rows = <<>> /\ feed.more = FALSE
    BY DEF Desk!Init, DeskFeed
<1>2. load = None \/ load = Desk!Load("first", 1, <<>>, None)
    BY DEF Desk!Init
<1> QED
    BY <1>1, <1>2, FreshLoad DEF ListInv, Falls

LEMMA ListStep == DeskStatuses /\ ListInv /\ Desk!Next => ListInv'
<1> SUFFICES ASSUME DeskStatuses, ListInv, Desk!Next PROVE ListInv'
    OBVIOUS
<1> USE DEF Desk!list, Desk!queries, Desk!totals
<1>1. ASSUME UNCHANGED <<feed, load>> PROVE ListInv'
    BY <1>1 DEF ListInv, Falls, Reaches, Continues
<1>2. ASSUME Desk!ServePage PROVE ListInv'
  <2>1. load # None /\ load \in DeskLoads /\ feed' = feed
        /\ load' = [load EXCEPT !.answer = Desk!Page(load.cursor)]
      BY <1>2 DEF Desk!ServePage, ListInv
  <2>2. load.cursor \in Transactions \union {None}
      BY <2>1 DEF DeskLoads
  <2>3. Desk!Page(load.cursor) \in DeskAnswers /\ Continues(Desk!Page(load.cursor), load.cursor)
      BY <2>2, PageContinues
  <2>4. /\ load' \in DeskLoads /\ load'.got = load.got /\ load'.cursor = load.cursor
        /\ load'.answer = Desk!Page(load.cursor)
      BY <2>1, <2>3 DEF DeskLoads
  <2> QED
      BY <2>1, <2>3, <2>4 DEF ListInv
<1>3. ASSUME Desk!TakePage PROVE ListInv'
  <2> DEFINE got == load.got \o load.answer.rows
  <2>1. /\ load # None /\ load \in DeskLoads /\ load.answer # None /\ load.answer \in DeskAnswers
        /\ Continues(load.answer, load.cursor) /\ Falls(load.got) /\ Reaches(load.got, load.cursor)
      BY <1>3 DEF Desk!TakePage, ListInv, DeskLoads
  <2>2. /\ load.got \in Seq(Desk!Entries) /\ load.answer.rows \in Seq(Desk!Entries)
        /\ load.cursor \in Transactions \union {None} /\ load.n \in Nat
      BY <2>1 DEF DeskLoads, DeskAnswers
  <2>3. got \in Seq(Desk!Entries) /\ Falls(got)
      BY <2>1, <2>2, PagesJoin DEF Continues
  <2>4. load.answer.more => got # <<>>
      BY <2>1, <2>2 DEF Continues
  <2>5. CASE /\ load.answer.more
             /\ load' = [load EXCEPT !.got = got, !.n = load.n + 1, !.answer = None,
                                     !.cursor = Desk!NextCursor(got)]
             /\ UNCHANGED feed
    <3> HIDE DEF got
    <3>1. got # <<>>
        BY <2>4, <2>5
    <3>2. Desk!NextCursor(got) = got[Len(got)].row /\ Desk!NextCursor(got) \in Transactions
        BY <2>3, <3>1, RowsAreTransactions
    <3>3. PICK next \in Transactions, n \in Nat : next = Desk!NextCursor(got) /\ n = load.n + 1
        BY <2>2, <3>2
    <3> DEFINE l1 == [load EXCEPT !.got = got]
               l2 == [l1 EXCEPT !.n = n]
               l3 == [l2 EXCEPT !.answer = None]
               l4 == [l3 EXCEPT !.cursor = next]
    <3>5. load' = l4
        BY <2>5, <3>3, Zenon
    <3>6. l1 \in DeskLoads /\ l1.got = got
        BY <2>1, <2>3 DEF DeskLoads
    <3> HIDE DEF l1
    <3>7. l2 \in DeskLoads /\ l2.got = got
        BY <3>6 DEF DeskLoads
    <3> HIDE DEF l2
    <3>8. l3 \in DeskLoads /\ l3.got = got /\ l3.answer = None
        BY <3>7 DEF DeskLoads
    <3> HIDE DEF l3
    <3>9. l4 \in DeskLoads /\ l4.got = got /\ l4.answer = None /\ l4.cursor = next
        BY <3>8 DEF DeskLoads
    <3> HIDE DEF l4
    <3>4. /\ load' \in DeskLoads /\ load'.got = got /\ load'.cursor = next /\ load'.answer = None
        BY <3>5, <3>9
    <3> QED
        BY <2>3, <2>5, <3>1, <3>2, <3>3, <3>4 DEF ListInv, Reaches
  <2>6. CASE /\ load' = None
             /\ feed' = [loaded |-> TRUE, error |-> FALSE, rows |-> got,
                         pages |-> IF load.kind = "more" THEN feed.pages + 1 ELSE load.n + 1,
                         more |-> load.answer.more]
    <3> HIDE DEF got
    <3>1. feed' \in DeskFeed /\ feed'.rows = got /\ feed'.more = load.answer.more
        BY <2>1, <2>2, <2>3, <2>6 DEF DeskFeed, DeskAnswers, ListInv
    <3> QED
        BY <2>3, <2>4, <2>6, <3>1 DEF ListInv
  <2> QED
      BY <1>3, <2>5, <2>6 DEF Desk!TakePage
<1>4. ASSUME Desk!LoadFails \/ Desk!PageRefused PROVE ListInv'
  <2>1. load' = None /\ feed' = [feed EXCEPT !.error = TRUE]
      BY <1>4 DEF Desk!LoadFails, Desk!PageRefused, Desk!LoadEnds
  <2>2. feed' \in DeskFeed /\ feed'.rows = feed.rows /\ feed'.more = feed.more
      BY <2>1 DEF ListInv, DeskFeed
  <2> QED
      BY <2>1, <2>2 DEF ListInv
<1>5. ASSUME Desk!Reload PROVE ListInv'
  <2>1. load' = Desk!Load("again", feed.pages, <<>>, None) /\ feed' = feed /\ feed.pages \in Nat
      BY <1>5 DEF Desk!Reload, Desk!Again, ListInv, DeskFeed
  <2> QED
      BY <2>1, FreshLoad DEF ListInv
<1>6. ASSUME Desk!LoadMore PROVE ListInv'
  <2>1. /\ feed.more /\ feed' = feed
        /\ load' = Desk!Load("more", 1, feed.rows, Desk!NextCursor(feed.rows))
      BY <1>6 DEF Desk!LoadMore
  <2>2. feed.rows \in Seq(Desk!Entries) /\ feed.rows # <<>>
      BY <2>1 DEF ListInv, DeskFeed
  <2>4. /\ Desk!NextCursor(feed.rows) = feed.rows[Len(feed.rows)].row
        /\ Desk!NextCursor(feed.rows) \in Transactions
      BY <2>2, RowsAreTransactions
  <2>5. /\ load' \in DeskLoads /\ load'.got = feed.rows /\ load'.answer = None
        /\ load'.cursor = Desk!NextCursor(feed.rows)
      BY <2>1, <2>2, <2>4 DEF Desk!Load, DeskLoads
  <2> QED
      BY <2>1, <2>2, <2>4, <2>5 DEF ListInv, Reaches
<1>7. ASSUME Desk!Hear PROVE ListInv'
    BY <1>7, InvalidateKeepsList DEF Desk!Hear
<1>8. ASSUME NEW c \in Desk!Calls, Desk!Answered(c) PROVE ListInv'
    BY <1>1, <1>8, InvalidateKeepsList DEF Desk!Answered
<1>9. CASE Desk!Handle
    BY <1>1, <1>8, <1>9
    DEF Desk!Handle, Desk!SayCreated, Desk!Guard, Desk!ReadRow, Desk!WriteRow, Desk!SayWritten
<1>10. CASE Desk!Fetch
    BY <1>1, <1>2, <1>3, <1>4, <1>10
    DEF Desk!Fetch, Desk!ServeSums, Desk!SumsRefused, Desk!TakeSums
<1>11. CASE Desk!Listen
    BY <1>1, <1>7, <1>11 DEF Desk!Listen, Desk!Join, Desk!SayConnected
<1>12. CASE \/ \E r \in Transactions : Desk!Capture(r)
            \/ \E c \in Others, r \in Transactions, op \in Desk!Ops : Desk!ReadForOther(c, r, op)
            \/ \E c \in Presses, entry \in Desk!Entries, op \in Desk!Ops : Desk!Press(c, entry, op)
            \/ Desk!Drop \/ Desk!Restart \/ Desk!ChangeInside \/ Desk!Renew
            \/ \E r \in Desk!Roles : Desk!ChangeRole(r)
    BY <1>1, <1>12
    DEF Desk!Capture, Desk!ReadForOther, Desk!Press, Desk!Drop, Desk!Restart, Desk!ChangeRole,
        Desk!ChangeInside, Desk!Renew
<1> QED
    BY <1>4, <1>5, <1>6, <1>9, <1>10, <1>11, <1>12 DEF Desk!Next

----------------------------------------------------------------------------
(* The desk: its requests.                                                    *)

DeskPhases == {"idle", "sent", "admitted", "read", "written", "done", "refused", "over"}

DeskCall ==
    [phase : DeskPhases, op : Desk!Ops \union {None}, row : Transactions \union {None},
     shown : Desk!Statuses \union {None}, known : Desk!Roles \union {None},
     seen : Desk!Statuses \union {None}]

\* What a request was offered for and to whom, and what its handler had read.
KnowsItsRow(c) ==
    /\ call[c].phase \in {"sent", "admitted", "read", "written"} =>
          call[c].op \in Desk!Ops /\ call[c].row \in Transactions
    /\ call[c].phase \in {"sent", "admitted"} =>
          call[c].shown \in Desk!AllowedFrom(call[c].op) /\ Desk!CanReview(call[c].known)
    /\ call[c].phase = "read" => call[c].seen \in Desk!AllowedFrom(call[c].op)

RequestsInv ==
    /\ DeskStatuses
    /\ call \in [Desk!Calls -> DeskCall]
    /\ \A c \in Desk!Calls : KnowsItsRow(c)

LEMMA DeskIdle ==
    /\ Desk!Idle \in DeskCall /\ Desk!Idle.phase = "idle"
    /\ Desk!Over \in DeskCall /\ Desk!Over.phase = "over"
BY DEF Desk!Idle, Desk!Over, DeskCall, DeskPhases

LEMMA RequestsInit == Desk!Init => RequestsInv
<1> SUFFICES ASSUME Desk!Init PROVE RequestsInv
    OBVIOUS
<1>1. DeskStatuses
    BY DEF Desk!Init, DeskStatuses, Desk!Statuses
<1>2. call \in [Desk!Calls -> DeskCall] /\ \A c \in Desk!Calls : call[c].phase = "idle"
    BY DeskIdle DEF Desk!Init
<1> QED
    BY <1>1, <1>2 DEF RequestsInv, KnowsItsRow

\* A step of one request.
LEMMA RequestStep ==
    ASSUME RequestsInv, NEW c \in Desk!Calls, NEW next \in DeskCall,
           call' = [call EXCEPT ![c] = next], DeskStatuses', KnowsItsRow(c)'
    PROVE  RequestsInv'
<1>1. /\ call' \in [Desk!Calls -> DeskCall]
      /\ \A d \in Desk!Calls \ {c} : call'[d] = call[d]
    BY DEF RequestsInv
<1>2. ASSUME NEW d \in Desk!Calls \ {c} PROVE KnowsItsRow(d)'
    BY <1>1 DEF RequestsInv, KnowsItsRow
<1> QED
    BY <1>1, <1>2 DEF RequestsInv

LEMMA RequestsStep == RequestsInv /\ Desk!Next => RequestsInv'
<1> SUFFICES ASSUME RequestsInv, Desk!Next PROVE RequestsInv'
    OBVIOUS
<1>0. /\ DeskStatuses /\ \A c \in Desk!Calls : call[c] \in DeskCall /\ KnowsItsRow(c)
      /\ call \in [Desk!Calls -> DeskCall]
    BY DEF RequestsInv
<1>1. ASSUME UNCHANGED call, DeskStatuses' PROVE RequestsInv'
    BY <1>1 DEF RequestsInv, KnowsItsRow
<1>2. ASSUME UNCHANGED <<status, call>> PROVE RequestsInv'
    BY <1>0, <1>1, <1>2 DEF DeskStatuses
<1>3. ASSUME NEW r \in Transactions, Desk!Capture(r) PROVE RequestsInv'
    BY <1>0, <1>1, <1>3 DEF Desk!Capture, DeskStatuses, Desk!Statuses
<1>17. ASSUME NEW c \in Desk!Calls, Desk!Guard(c) PROVE RequestsInv'
  <2>1. PICK ph \in {"refused", "admitted"} : call' = [call EXCEPT ![c].phase = ph]
      BY <1>17 DEF Desk!Guard
  <2> DEFINE next == [call[c] EXCEPT !.phase = ph]
  <2>2. call' = [call EXCEPT ![c] = next] /\ call[c].phase = "sent" /\ UNCHANGED status
        /\ call[c] \in DeskCall
      BY <1>0, <1>17, <2>1 DEF Desk!Guard
  <2>3. /\ next \in DeskCall /\ next.phase = ph /\ next.op = call[c].op /\ next.row = call[c].row
        /\ next.shown = call[c].shown /\ next.known = call[c].known
      BY <2>2 DEF DeskCall, DeskPhases
  <2> HIDE DEF next
  <2>4. call'[c] = next
      BY <1>0, <2>2
  <2>5. KnowsItsRow(c)'
      BY <1>0, <2>1, <2>2, <2>3, <2>4 DEF KnowsItsRow
  <2>6. DeskStatuses'
      BY <1>0, <2>2 DEF DeskStatuses
  <2> QED
      BY <2>2, <2>3, <2>5, <2>6, RequestStep
<1>4. ASSUME NEW c \in Desk!Calls, Desk!ReadRow(c) PROVE RequestsInv'
  <2>1. PICK ph \in {"refused", "read"} :
           /\ call' = [call EXCEPT ![c].phase = ph, ![c].seen = status[call[c].row]]
           /\ ph = "read" => ~Desk!Refuses(c)
      BY <1>4 DEF Desk!ReadRow
  <2> DEFINE next == [call[c] EXCEPT !.phase = ph, !.seen = status[call[c].row]]
  <2>2. call' = [call EXCEPT ![c] = next] /\ call[c].phase = "admitted" /\ UNCHANGED status
      BY <1>0, <1>4, <2>1 DEF Desk!ReadRow
  <2>3. call[c].op \in Desk!Ops /\ call[c].row \in Transactions /\ call[c] \in DeskCall
        /\ status[call[c].row] \in Desk!Statuses
      BY <1>0, <2>2 DEF KnowsItsRow, DeskStatuses
  <2>4. /\ next \in DeskCall /\ next.phase = ph /\ next.op = call[c].op /\ next.row = call[c].row
        /\ next.seen = status[call[c].row]
      BY <2>3 DEF DeskCall, DeskPhases
  <2> HIDE DEF next
  <2>5. call'[c] = next
      BY <1>0, <2>2
  <2>6. KnowsItsRow(c)'
      BY <2>1, <2>3, <2>4, <2>5 DEF KnowsItsRow, Desk!Refuses
  <2>7. DeskStatuses'
      BY <1>0, <2>2 DEF DeskStatuses
  <2> QED
      BY <2>2, <2>4, <2>6, <2>7, RequestStep
<1>5. ASSUME NEW c \in Desk!Calls, NEW ph \in {"written", "done"},
             call' = [call EXCEPT ![c].phase = ph], call[c].phase \in {"read", "written"},
             DeskStatuses'
      PROVE  RequestsInv'
  <2> DEFINE next == [call[c] EXCEPT !.phase = ph]
  <2>1. call' = [call EXCEPT ![c] = next] /\ call[c] \in DeskCall
        /\ call[c].op \in Desk!Ops /\ call[c].row \in Transactions
      BY <1>0, <1>5 DEF KnowsItsRow
  <2>2. next \in DeskCall /\ next.phase = ph /\ next.op = call[c].op /\ next.row = call[c].row
      BY <2>1 DEF DeskCall, DeskPhases
  <2> HIDE DEF next
  <2>3. call'[c] = next
      BY <1>0, <2>1
  <2>4. KnowsItsRow(c)'
      BY <2>1, <2>2, <2>3 DEF KnowsItsRow
  <2> QED
      BY <1>5, <2>1, <2>2, <2>4, RequestStep
<1>6. ASSUME NEW c \in Desk!Calls, call' = [call EXCEPT ![c] = Desk!Over], DeskStatuses'
      PROVE  RequestsInv'
  <2>1. KnowsItsRow(c)'
      BY <1>0, <1>6, DeskIdle DEF KnowsItsRow
  <2> QED
      BY <1>6, <2>1, DeskIdle, RequestStep
<1>7. ASSUME NEW c \in Desk!Calls, Desk!WriteRow(c) PROVE RequestsInv'
  <2>1. Desk!Becomes(call[c].op) \in Desk!Statuses
      BY DEF Desk!Becomes, Desk!Statuses
  <2>2. DeskStatuses'
      BY <1>0, <1>7, <2>1 DEF Desk!WriteRow, DeskStatuses
  <2> QED
      BY <1>5, <1>7, <2>2 DEF Desk!WriteRow
<1>8. ASSUME NEW c \in Desk!Calls, Desk!SayWritten(c) PROVE RequestsInv'
  <2>1. call[c].phase = "written" /\ DeskStatuses'
      BY <1>0, <1>8 DEF Desk!SayWritten, DeskStatuses
  <2>2. CASE c \in Presses
    <3>1. call' = [call EXCEPT ![c].phase = "done"]
        BY <1>8, <2>2 DEF Desk!SayWritten
    <3> QED
        BY <1>5, <2>1, <3>1
  <2>3. CASE c \notin Presses
    <3>1. call' = [call EXCEPT ![c] = Desk!Over]
        BY <1>8, <2>3 DEF Desk!SayWritten
    <3> QED
        BY <1>6, <2>1, <3>1
  <2> QED
      BY <2>2, <2>3
<1>9. ASSUME NEW c \in Desk!Calls, Desk!Answered(c) PROVE RequestsInv'
    BY <1>0, <1>6, <1>9 DEF Desk!Answered, DeskStatuses
<1>10. ASSUME NEW c \in Others, NEW r \in Transactions, NEW op \in Desk!Ops,
              Desk!ReadForOther(c, r, op)
       PROVE  RequestsInv'
  <2> DEFINE next == [phase |-> "read", op |-> op, row |-> r, shown |-> None, known |-> None,
                      seen |-> status[r]]
  <2>1. /\ call' = [call EXCEPT ![c] = next] /\ status[r] \in Desk!AllowedFrom(op)
        /\ c \in Desk!Calls /\ UNCHANGED status /\ status[r] \in Desk!Statuses
      BY <1>0, <1>10 DEF Desk!ReadForOther, Desk!Calls, DeskStatuses
  <2>2. /\ next \in DeskCall /\ next.phase = "read" /\ next.op = op /\ next.row = r
        /\ next.seen = status[r]
      BY <2>1 DEF DeskCall, DeskPhases
  <2> HIDE DEF next
  <2>3. call'[c] = next
      BY <1>0, <2>1
  <2>4. KnowsItsRow(c)'
      BY <2>1, <2>2, <2>3 DEF KnowsItsRow
  <2>5. DeskStatuses'
      BY <1>0, <2>1 DEF DeskStatuses
  <2> QED
      BY <2>1, <2>2, <2>4, <2>5, RequestStep
<1>11. ASSUME NEW c \in Presses, NEW entry \in Desk!Entries, NEW op \in Desk!Ops,
              Desk!Press(c, entry, op)
       PROVE  RequestsInv'
  <2> DEFINE next == [phase |-> "sent", op |-> op, row |-> entry.row, shown |-> entry.status,
                      known |-> member.known, seen |-> None]
  <2>1. /\ call' = [call EXCEPT ![c] = next] /\ op \in Desk!Offered(entry)
        /\ c \in Desk!Calls /\ UNCHANGED status
        /\ entry.row \in Transactions /\ entry.status \in Desk!Statuses \ {"NONE"}
        /\ Desk!CanReview(member.known)
      BY <1>0, <1>11 DEF Desk!Press, Desk!Offered, Desk!Calls, Desk!Entries
  <2>2. /\ next \in DeskCall /\ next.phase = "sent" /\ next.op = op /\ next.row = entry.row
        /\ next.shown = entry.status /\ next.known = member.known
      BY <2>1 DEF DeskCall, DeskPhases, Desk!CanReview, Desk!Roles
  <2> HIDE DEF next
  <2>3. call'[c] = next
      BY <1>0, <2>1
  <2>4. entry.status \in Desk!AllowedFrom(op)
      BY <2>1 DEF Desk!Offered, Desk!AllowedFrom, Desk!Statuses, Desk!Ops
  <2>5. KnowsItsRow(c)'
      BY <2>1, <2>2, <2>3, <2>4 DEF KnowsItsRow
  <2>6. DeskStatuses'
      BY <1>0, <2>1 DEF DeskStatuses
  <2> QED
      BY <2>1, <2>2, <2>5, <2>6, RequestStep
<1>12. ASSUME Desk!Restart PROVE RequestsInv'
  <2>1. /\ call' = [c \in Desk!Calls |-> IF call[c].phase = "idle" THEN call[c] ELSE Desk!Over]
        /\ UNCHANGED status
      BY <1>12 DEF Desk!Restart
  <2>2. ASSUME NEW c \in Desk!Calls
        PROVE  call'[c] \in DeskCall /\ call'[c].phase \in {"idle", "over"}
      BY <1>0, <2>1, DeskIdle
  <2>3. call' \in [Desk!Calls -> DeskCall]
      BY <2>1, <2>2
  <2> QED
      BY <1>0, <2>1, <2>2, <2>3 DEF RequestsInv, KnowsItsRow, DeskStatuses
<1>13. CASE Desk!Handle
    BY <1>2, <1>4, <1>7, <1>8, <1>9, <1>13, <1>17 DEF Desk!Handle, Desk!SayCreated
<1>14. CASE Desk!Fetch
    BY <1>2, <1>14
    DEF Desk!Fetch, Desk!ServePage, Desk!PageRefused, Desk!LoadEnds, Desk!TakePage,
        Desk!ServeSums, Desk!SumsRefused, Desk!TakeSums, Desk!server
<1>15. CASE Desk!Listen
    BY <1>2, <1>15 DEF Desk!Listen, Desk!Join, Desk!SayConnected, Desk!Hear, Desk!server
<1>16. CASE \/ Desk!LoadFails \/ Desk!Reload \/ Desk!LoadMore \/ Desk!Drop
            \/ (\E r \in Desk!Roles : Desk!ChangeRole(r)) \/ Desk!ChangeInside \/ Desk!Renew
    BY <1>2, <1>16
    DEF Desk!LoadFails, Desk!LoadEnds, Desk!Reload, Desk!LoadMore, Desk!Drop, Desk!ChangeRole,
        Desk!ChangeInside, Desk!Renew, Desk!server
<1> QED
    BY <1>3, <1>10, <1>11, <1>12, <1>13, <1>14, <1>15, <1>16 DEF Desk!Next

\* A button that is refused was offered for another status or to another role, or
\* to a member who is no longer inside.
LEMMA DeskRefusals == RequestsInv /\ Desk!Next => Desk!RefusesOnlyChanged
<1> SUFFICES ASSUME RequestsInv, Desk!Next, NEW c \in Presses,
                    call[c].phase # "refused", call'[c].phase = "refused"
             PROVE  \/ status[call[c].row] # call[c].shown
                    \/ member.role # call[c].known
                    \/ ~member.inside
    BY DEF Desk!RefusesOnlyChanged
<1>0. call \in [Desk!Calls -> DeskCall] /\ c \in Desk!Calls /\ KnowsItsRow(c)
    BY DEF RequestsInv, Desk!Calls
<1>1. ASSUME UNCHANGED call PROVE FALSE
    BY <1>1
<1>2. ASSUME NEW d \in Desk!Calls \ {c}, NEW next, call' = [call EXCEPT ![d] = next] PROVE FALSE
    BY <1>0, <1>2
<1>13. CASE Desk!Guard(c)
  <2>1. call[c].phase = "sent" /\ ~Desk!Admitted("OPERATOR")
      BY <1>0, <1>13 DEF Desk!Guard, DeskCall
  <2>2. call[c].known = "OPERATOR"
      BY <1>0, <2>1 DEF KnowsItsRow, Desk!CanReview
  <2> QED
      BY <2>1, <2>2 DEF Desk!Admitted, Desk!Satisfies
<1>3. CASE Desk!ReadRow(c)
  <2>1. Desk!Refuses(c) /\ call[c].phase = "admitted"
      BY <1>0, <1>3 DEF Desk!ReadRow, DeskCall
  <2> QED
      BY <1>0, <2>1 DEF KnowsItsRow, Desk!Refuses
<1>4. ASSUME NEW d \in Desk!Calls,
             \/ d # c /\ (Desk!Guard(d) \/ Desk!ReadRow(d))
             \/ Desk!WriteRow(d) \/ Desk!SayWritten(d) \/ Desk!Answered(d)
      PROVE  FALSE
  <2>1. CASE d # c
    <3>1. \E next : call' = [call EXCEPT ![d] = next]
        BY <1>4, <2>1
        DEF Desk!Guard, Desk!ReadRow, Desk!WriteRow, Desk!SayWritten, Desk!Answered
    <3> QED
        BY <1>2, <2>1, <3>1
  <2>2. CASE d = c
    <3>1. \/ \E ph \in {"written", "done"} : call' = [call EXCEPT ![c].phase = ph]
          \/ call' = [call EXCEPT ![c] = Desk!Over]
        BY <1>4, <2>2 DEF Desk!WriteRow, Desk!SayWritten, Desk!Answered
    <3> QED
        BY <1>0, <3>1, DeskIdle DEF DeskCall
  <2> QED
      BY <2>1, <2>2
<1>5. ASSUME NEW d \in Desk!Calls, NEW next, next.phase # "refused",
             call' = [call EXCEPT ![d] = next]
      PROVE  FALSE
    BY <1>0, <1>2, <1>5
<1>6. CASE \/ \E d \in Others, r \in Transactions, op \in Desk!Ops : Desk!ReadForOther(d, r, op)
           \/ \E d \in Presses, entry \in Desk!Entries, op \in Desk!Ops : Desk!Press(d, entry, op)
    BY <1>5, <1>6 DEF Desk!ReadForOther, Desk!Press, Desk!Calls
<1>7. CASE Desk!Restart
    BY <1>0, <1>7, DeskIdle DEF Desk!Restart
<1>8. CASE Desk!Handle
    BY <1>1, <1>3, <1>4, <1>8, <1>13 DEF Desk!Handle, Desk!SayCreated
<1>9. CASE Desk!Fetch
    BY <1>1, <1>9
    DEF Desk!Fetch, Desk!ServePage, Desk!PageRefused, Desk!LoadEnds, Desk!TakePage,
        Desk!ServeSums, Desk!SumsRefused, Desk!TakeSums, Desk!server
<1>10. CASE Desk!Listen
    BY <1>1, <1>10 DEF Desk!Listen, Desk!Join, Desk!SayConnected, Desk!Hear, Desk!server
<1>11. CASE \/ Desk!LoadFails \/ Desk!Reload \/ Desk!LoadMore \/ Desk!Drop
            \/ (\E r \in Desk!Roles : Desk!ChangeRole(r)) \/ Desk!ChangeInside \/ Desk!Renew
    BY <1>1, <1>11
    DEF Desk!LoadFails, Desk!LoadEnds, Desk!Reload, Desk!LoadMore, Desk!Drop, Desk!ChangeRole,
        Desk!ChangeInside, Desk!Renew, Desk!server
<1>12. ASSUME NEW r \in Transactions, Desk!Capture(r) PROVE FALSE
    BY <1>1, <1>12 DEF Desk!Capture
<1> QED
    BY <1>6, <1>7, <1>8, <1>9, <1>10, <1>11, <1>12 DEF Desk!Next

\* Who takes a dispute back had read the row before.
LEMMA DisputesLeft == RequestsInv /\ Desk!Next => Desk!LeavesDisputeByCrossing
<1> SUFFICES ASSUME RequestsInv, Desk!Next, NEW r \in Transactions,
                    status[r] = "DISPUTED", status'[r] # "DISPUTED"
             PROVE  \E c \in Desk!Calls : /\ call[c].row = r /\ call[c].seen = "CAPTURED"
                                          /\ call[c].phase = "read" /\ call'[c].phase = "written"
    BY DEF Desk!LeavesDisputeByCrossing
<1>0. /\ status \in [Transactions -> Desk!Statuses] /\ call \in [Desk!Calls -> DeskCall]
      /\ \A c \in Desk!Calls : KnowsItsRow(c)
    BY DEF RequestsInv, DeskStatuses
<1>1. ASSUME NEW c \in Desk!Calls, Desk!WriteRow(c)
      PROVE  /\ call[c].row = r /\ call[c].seen = "CAPTURED"
             /\ call[c].phase = "read" /\ call'[c].phase = "written"
  <2>1. /\ call[c].phase = "read" /\ call' = [call EXCEPT ![c].phase = "written"]
        /\ status' = [status EXCEPT ![call[c].row] = Desk!Becomes(call[c].op)]
      BY <1>1 DEF Desk!WriteRow
  <2>2. call[c].row = r /\ Desk!Becomes(call[c].op) # "DISPUTED"
      BY <1>0, <2>1
  <2>3. call[c].seen = "CAPTURED"
      BY <1>0, <2>1, <2>2 DEF KnowsItsRow, Desk!Becomes, Desk!AllowedFrom
  <2> QED
      BY <1>0, <2>1, <2>2, <2>3 DEF DeskCall
<1>2. ASSUME UNCHANGED status PROVE FALSE
    BY <1>2
<1>3. ASSUME NEW q \in Transactions, Desk!Capture(q) PROVE FALSE
    BY <1>0, <1>3 DEF Desk!Capture
<1>4. CASE Desk!Handle
    BY <1>1, <1>2, <1>4
    DEF Desk!Handle, Desk!SayCreated, Desk!Guard, Desk!ReadRow, Desk!SayWritten, Desk!Answered
<1>5. CASE Desk!Fetch
    BY <1>2, <1>5
    DEF Desk!Fetch, Desk!ServePage, Desk!PageRefused, Desk!LoadEnds, Desk!TakePage,
        Desk!ServeSums, Desk!SumsRefused, Desk!TakeSums, Desk!server
<1>6. CASE Desk!Listen
    BY <1>2, <1>6 DEF Desk!Listen, Desk!Join, Desk!SayConnected, Desk!Hear, Desk!server
<1>7. CASE \/ Desk!LoadFails \/ Desk!Reload \/ Desk!LoadMore \/ Desk!Drop \/ Desk!Restart
           \/ (\E q \in Desk!Roles : Desk!ChangeRole(q)) \/ Desk!ChangeInside \/ Desk!Renew
           \/ \E c \in Others, q \in Transactions, op \in Desk!Ops : Desk!ReadForOther(c, q, op)
           \/ \E c \in Presses, entry \in Desk!Entries, op \in Desk!Ops : Desk!Press(c, entry, op)
    BY <1>2, <1>7
    DEF Desk!LoadFails, Desk!LoadEnds, Desk!Reload, Desk!LoadMore, Desk!Drop, Desk!Restart,
        Desk!ChangeRole, Desk!ChangeInside, Desk!Renew, Desk!server, Desk!ReadForOther,
        Desk!Press
<1> QED
    BY <1>1, <1>3, <1>4, <1>5, <1>6, <1>7 DEF Desk!Next

DeskInv == RequestsInv /\ ListInv

LEMMA DeskInvariant == Spec => [](open = "desk" => DeskInv)
<1>1. Init => (open = "desk" => DeskInv)
    BY RequestsInit, ListInit DEF Init, DeskInv
<1>2. (open = "desk" => DeskInv) /\ [Next]_vars => (open = "desk" => DeskInv)'
  <2> SUFFICES ASSUME open = "desk" => DeskInv, [Next]_vars, open' = "desk" PROVE DeskInv'
      OBVIOUS
  <2>1. CASE UNCHANGED vars
    <3>1. open = "desk" /\ UNCHANGED <<status, call, feed, load>>
        BY <2>1 DEF vars
    <3> QED
        BY <3>1 DEF DeskInv, RequestsInv, KnowsItsRow, DeskStatuses, ListInv, Falls, Reaches, Continues
  <2>2. CASE Next
      BY <2>2, RequestsStep, ListStep DEF Next, DeskInv, RequestsInv
  <2> QED
      BY <2>1, <2>2
<1> QED
    BY <1>1, <1>2, PTL DEF Spec

----------------------------------------------------------------------------
(* The desk and the panel: the theorems.                                      *)

\* A dispute is taken back only by a request that had read the row before it
\* (transition's allowedFrom).
THEOREM DisputesHold == Spec => DisputeHoldsUnlessCrossed
<1>1. (open = "desk" => DeskInv) /\ [Next]_vars
        => [open = "desk" => Desk!LeavesDisputeByCrossing]_vars
    BY DisputesLeft DEF Next, DeskInv
<1> QED
    BY <1>1, DeskInvariant, PTL DEF Spec, DisputeHoldsUnlessCrossed

\* What the desk and the panels offer is refused only when the row or the role
\* is another than the page knew, or the person is not inside any more: their
\* rules agree with those of the guards and the handlers (TENANT_PERMISSIONS,
\* @RequireRoles).
THEOREM RefusalsAreEarned == Spec => RefusedOnlyIfChanged
<1>1. (open = "desk" => DeskInv) /\ (open = "panel" => PanelInv) /\ [Next]_vars
        => [/\ open = "desk" => Desk!RefusesOnlyChanged
            /\ open = "panel" => Panels!RefusesOnlyChanged]_vars
    BY DeskRefusals, PanelRefusals DEF Next, DeskInv
<1> QED
    BY <1>1, DeskInvariant, PanelInvariant, PTL DEF Spec, RefusedOnlyIfChanged

\* A panel shows only rows of the active tenant, whatever loads, switches and
\* renewals cross, and the pages of the desk's list join without a row twice
\* (TenantSwitcher, buildWhere's cursor).
THEOREM NothingForeignNorTwice == Spec => []NothingForeignOrTwice
<1>1. PanelInv => Panels!ShownRowsAreOfTheTenant
    BY DEF PanelInv, ListsAreOfTheTenant, Panels!ShownRowsAreOfTheTenant
<1>2. DeskInv => Desk!NoRowTwice
  <2> SUFFICES ASSUME DeskInv, NEW i \in DOMAIN feed.rows, NEW j \in DOMAIN feed.rows,
                      feed.rows[i].row = feed.rows[j].row
               PROVE  i = j
      BY DEF Desk!NoRowTwice
  <2>1. feed.rows \in Seq(Desk!Entries) /\ Falls(feed.rows)
      BY DEF DeskInv, ListInv, DeskFeed
  <2>2. feed.rows[i].row \in Transactions /\ i \in Nat /\ j \in Nat
      BY <2>1, RowsAreTransactions
  <2>3. ~Desk!Before(feed.rows[i].row, feed.rows[j].row)
        /\ ~Desk!Before(feed.rows[j].row, feed.rows[i].row)
      BY <2>2, BeforeIsStrict
  <2>4. ~(i < j) /\ ~(j < i)
      BY <2>1, <2>3 DEF Falls
  <2> QED
      BY <2>2, <2>4
<1>3. (open = "desk" => DeskInv) /\ (open = "panel" => PanelInv) => NothingForeignOrTwice
    BY <1>1, <1>2 DEF NothingForeignOrTwice
<1> QED
    BY <1>3, DeskInvariant, PanelInvariant, PTL
=============================================================================
