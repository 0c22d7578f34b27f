------------------------------ MODULE Sessions -----------------------------
(***************************************************************************)
(* The sessions of one user: refresh tokens that rotate at every use, the  *)
(* tabs of one browser that share them in a cookie, and the password       *)
(* changes that end them.                                                  *)
(*                                                                         *)
(* A call is one request from its sending to its answer.  The API works on *)
(* it at READ COMMITTED: an UPDATE of several rows takes the rows that are *)
(* committed when it starts, waits for those that others hold, and leaves  *)
(* the ones that appear meanwhile; so it is a snapshot and a write here.   *)
(* The user keeps an active membership and a verified e-mail, and knows    *)
(* the password.                                                           *)
(***************************************************************************)
EXTENDS Integers, FiniteSets

CONSTANTS
  Tabs,        \* tabs of the browser
  Calls,       \* requests in flight at once
  MaxTokens,   \* bound: refresh tokens
  MaxLinks,    \* bound: links to reset the password
  MaxCalls     \* bound: requests sent, reloads, expirations and lost answers

ASSUME SessionsAssumption ==
  MaxTokens \in Nat /\ MaxLinks \in Nat /\ MaxCalls \in Nat

Tokens == 1..MaxTokens
Links == 1..MaxLinks
None == 0
Elsewhere == "elsewhere"   \* a page that has no session, or has gone

ASSUME TabsAssumption == Elsewhere \notin Tabs

VARIABLES
  token,       \* [Tokens -> refresh_tokens row]
  cookie,      \* the browser's refresh token
  tab,         \* [Tabs -> status of AuthSessionProvider]
  call,        \* [Calls -> request]
  link,        \* [Links -> password reset token]
  passwords,   \* how often the password has changed
  reused,      \* history: families that were revoked after a reuse
  overlapped,  \* history: two calls of the browser were in flight at once
  lost,        \* history: an answer that set the cookie may have been lost
  sent         \* calls, reloads, expirations and losses so far

server == <<token, link, passwords, reused>>
browser == <<cookie, tab, overlapped, lost>>
vars == <<token, cookie, tab, call, link, passwords, reused, overlapped, lost, sent>>

-----------------------------------------------------------------------------
(* Types *)

NoToken == [state |-> "none", family |-> None, expired |-> FALSE, under |-> 0, crossed |-> FALSE]

(* "presented" is the token or link that came with the request, "given" the *)
(* token of its answer, "rows" the snapshot of an UPDATE.                   *)
NoCall == [op |-> "none", at |-> "idle", from |-> Elsewhere, presented |-> None,
           given |-> None, rows |-> {}, under |-> 0, crossed |-> FALSE]

Ops == {"none", "login", "refresh", "manual", "logout", "reset", "change"}
Stages == {"idle", "read", "act", "family", "familyWrite", "password", "passwordWrite", "answer"}

TypeOK ==
  /\ token \in [Tokens -> [state : {"none", "live", "revoked"}, family : Tokens \cup {None},
                           expired : BOOLEAN, under : Nat, crossed : BOOLEAN]]
  /\ cookie \in Tokens \cup {None}
  /\ tab \in [Tabs -> {"closed", "loading", "in", "out"}]
  /\ call \in [Calls -> [op : Ops, at : Stages, from : Tabs \cup {Elsewhere},
                         presented : Tokens \cup Links \cup {None}, given : Tokens \cup {None},
                         rows : SUBSET Tokens, under : Nat, crossed : BOOLEAN]]
  /\ link \in [Links -> {"none", "open", "consumed"}]
  /\ passwords \in Nat
  /\ reused \subseteq Tokens
  /\ overlapped \in BOOLEAN /\ lost \in BOOLEAN
  /\ sent \in Nat

Init ==
  /\ token = [t \in Tokens |-> NoToken]
  /\ cookie = None
  /\ tab = [b \in Tabs |-> "closed"]
  /\ call = [q \in Calls |-> NoCall]
  /\ link = [n \in Links |-> "none"]
  /\ passwords = 0
  /\ reused = {}
  /\ overlapped = FALSE /\ lost = FALSE
  /\ sent = 0

-----------------------------------------------------------------------------
(* Calls *)

Live(t) == token[t].state = "live"
Family(t) == token[t].family
InFlight == {q \in Calls : call[q].at # "idle"}
OfTabs == {"login", "refresh", "manual", "logout"}

(* Calls whose UPDATE may leave out what others commit meanwhile.           *)
Revoking == {q \in Calls : call[q].at \in {"family", "familyWrite", "password", "passwordWrite"}}

Count == sent < MaxCalls /\ sent' = sent + 1

Send(q, op, stage, from, presented) ==
  /\ call[q].at = "idle"
  /\ call' = [call EXCEPT ![q] = [NoCall EXCEPT !.op = op, !.at = stage, !.from = from,
                                                 !.presented = presented]]
  /\ overlapped' = (overlapped \/ (op \in OfTabs /\ \E c \in InFlight : call[c].op \in OfTabs))
  /\ Count
  /\ UNCHANGED server

(* What the call read holds from here on; a revocation may cross it.        *)
Reads(q, stage) ==
  [call EXCEPT ![q].at = stage, ![q].under = passwords, ![q].crossed = Revoking # {}]

(* A revocation starts: it crosses every call that has read.                *)
Revokes(q, stage) ==
  [c \in Calls |-> IF c = q THEN [call[q] EXCEPT !.at = stage]
                   ELSE [call[c] EXCEPT !.crossed = @ \/ call[c].at # "idle"]]

Answers(q, given) == [call EXCEPT ![q].at = "answer", ![q].given = given, ![q].rows = {}]

-----------------------------------------------------------------------------
(* The dashboard sends *)

(* A page load refreshes at once with the cookie; what the tab had sent is  *)
(* abandoned.                                                               *)
Load(q, b) ==
  LET old == {c \in Calls : call[c].from = b}
  IN  /\ call[q].at = "idle"
      /\ tab' = [tab EXCEPT ![b] = "loading"]
      /\ call' = [c \in Calls |->
                    IF c = q THEN [NoCall EXCEPT !.op = "refresh", !.at = "read", !.from = b,
                                                 !.presented = cookie]
                    ELSE IF c \in old THEN [call[c] EXCEPT !.from = Elsewhere]
                    ELSE call[c]]
      /\ lost' = (lost \/ old # {})
      /\ overlapped' = (overlapped \/ \E c \in InFlight : call[c].op \in OfTabs)
      /\ Count
      /\ UNCHANGED <<server, cookie>>

(* The timer sends one at a time; pages call refreshSession beside it.      *)
TimerRefresh(q, b) ==
  /\ tab[b] = "in"
  /\ \A c \in Calls : ~(call[c].op = "refresh" /\ call[c].from = b)
  /\ Send(q, "refresh", "read", b, cookie)
  /\ UNCHANGED <<cookie, tab, lost>>

RefreshSession(q, b) ==
  /\ tab[b] = "in"
  /\ Send(q, "manual", "read", b, cookie)
  /\ UNCHANGED <<cookie, tab, lost>>

Login(q, b) ==
  /\ tab[b] = "out"
  /\ Send(q, "login", "read", b, None)
  /\ UNCHANGED <<cookie, tab, lost>>

Logout(q, b) ==
  /\ tab[b] = "in"
  /\ Send(q, "logout", "act", b, cookie)
  /\ UNCHANGED <<cookie, tab, lost>>

ChangePassword(q, b) ==
  /\ tab[b] = "in"
  /\ Send(q, "change", "read", b, None)
  /\ UNCHANGED <<cookie, tab, lost>>

(* Whoever has the link                                                     *)
ResetPassword(q, n) ==
  /\ link[n] = "open"
  /\ Send(q, "reset", "password", Elsewhere, n)
  /\ UNCHANGED <<cookie, tab, lost>>

-----------------------------------------------------------------------------
(* The API: login and refresh *)

(* Tokens are handed out in order.                                          *)
Fresh(t) == token[t].state = "none" /\ \A u \in Tokens : u < t => token[u].state # "none"

NewToken(q, family, crossed) ==
  [state |-> "live", family |-> family, expired |-> FALSE, under |-> call[q].under,
   crossed |-> crossed \/ call[q].crossed]

VerifyPassword(q) ==
  /\ call[q].at = "read" /\ call[q].op \in {"login", "change"}
  /\ call' = Reads(q, IF call[q].op = "login" THEN "act" ELSE "password")
  /\ UNCHANGED <<server, browser, sent>>

StartSession(q, t) ==
  /\ call[q].at = "act" /\ call[q].op = "login"
  /\ Fresh(t)
  /\ token' = [token EXCEPT ![t] = NewToken(q, t, FALSE)]
  /\ call' = Answers(q, t)
  /\ UNCHANGED <<browser, link, passwords, reused, sent>>

ReadToken(q) ==
  LET t == call[q].presented
  IN  /\ call[q].at = "read" /\ call[q].op \in {"refresh", "manual"}
      /\ \/ /\ t = None
            /\ call' = Answers(q, None) /\ UNCHANGED token
         \/ /\ t # None /\ ~Live(t)
            /\ call' = Revokes(q, "family") /\ UNCHANGED token
         \/ /\ t # None /\ Live(t) /\ token[t].expired
            /\ token' = [token EXCEPT ![t].state = "revoked"]
            /\ call' = Answers(q, None)
         \/ /\ t # None /\ Live(t) /\ ~token[t].expired
            /\ call' = Reads(q, "act") /\ UNCHANGED token
      /\ UNCHANGED <<browser, link, passwords, reused, sent>>

(* A mutant: the token is revoked by its id.                                *)
LiveWhenRead(t) == TRUE

(* updateMany .. WHERE revokedAt IS NULL                                    *)
StillLive(t) == Live(t)

Rotate(q, t) ==
  LET old == call[q].presented
  IN  /\ call[q].at = "act" /\ call[q].op \in {"refresh", "manual"}
      /\ \/ /\ StillLive(old) /\ Fresh(t)
            /\ token' = [token EXCEPT ![old].state = "revoked",
                                      ![t] = NewToken(q, Family(old), token[old].crossed)]
            /\ call' = Answers(q, t)
         \/ /\ ~StillLive(old)
            /\ call' = Revokes(q, "family") /\ UNCHANGED token
      /\ UNCHANGED <<browser, link, passwords, reused, sent>>

FamilyRows(q) == {t \in Tokens : Live(t) /\ Family(t) = Family(call[q].presented)}

FamilySnapshot(q) ==
  /\ call[q].at = "family"
  /\ call' = [call EXCEPT ![q].at = "familyWrite", ![q].rows = FamilyRows(q)]
  /\ UNCHANGED <<server, browser, sent>>

Revoked(rows) ==
  [t \in Tokens |-> IF t \in rows THEN [token[t] EXCEPT !.state = "revoked"] ELSE token[t]]

FamilyWrite(q) ==
  /\ call[q].at = "familyWrite"
  /\ token' = Revoked(call[q].rows)
  /\ reused' = reused \cup {Family(call[q].presented)}
  /\ call' = Answers(q, None)
  /\ UNCHANGED <<browser, link, passwords, sent>>

RevokePresented(q) ==
  /\ call[q].at = "act" /\ call[q].op = "logout"
  /\ token' = Revoked({call[q].presented} \cap Tokens)
  /\ call' = Answers(q, None)
  /\ UNCHANGED <<browser, link, passwords, reused, sent>>

-----------------------------------------------------------------------------
(* The API: passwords *)

ForgotPassword(n) ==
  /\ link[n] = "none" /\ \A m \in Links : m < n => link[m] # "none"
  /\ link' = [m \in Links |-> IF m = n THEN "open"
                              ELSE IF link[m] = "open" THEN "consumed" ELSE link[m]]
  /\ Count
  /\ UNCHANGED <<token, call, passwords, reused, browser>>

(* updateMany .. WHERE consumedAt IS NULL                                   *)
StillOpen(n) == link[n] = "open"

(* A mutant: the sessions of the browser that changes it stay.              *)
RowsOfOthers == {t \in Tokens : Live(t)} \ {cookie}

RowsOfUser == {t \in Tokens : Live(t)}

Takes(q) == [Revokes(q, "passwordWrite") EXCEPT ![q].rows = RowsOfUser]

SnapshotForChange(q) ==
  /\ call[q].at = "password" /\ call[q].op = "change"
  /\ call' = Takes(q)
  /\ UNCHANGED <<server, browser, sent>>

SnapshotForReset(q) ==
  LET n == call[q].presented
  IN  /\ call[q].at = "password" /\ call[q].op = "reset"
      /\ \/ /\ StillOpen(n)
            /\ link' = [link EXCEPT ![n] = "consumed"]
            /\ call' = Takes(q)
         \/ ~StillOpen(n) /\ call' = Answers(q, None) /\ UNCHANGED link
      /\ UNCHANGED <<token, passwords, reused, browser, sent>>

PasswordWrite(q) ==
  /\ call[q].at = "passwordWrite"
  /\ token' = Revoked(call[q].rows)
  /\ passwords' = passwords + 1
  /\ call' = [Revokes(q, "answer") EXCEPT ![q].rows = {}]
  /\ UNCHANGED <<browser, link, reused, sent>>

-----------------------------------------------------------------------------
(* The browser receives *)

(* A mutant: only a login sets the cookie.                                  *)
CookieOfLogin(q) == IF call[q].op = "login" THEN call[q].given ELSE cookie

CookieAfter(q) ==
  IF call[q].given # None THEN call[q].given
  ELSE IF call[q].op = "logout" THEN None ELSE cookie

(* A mutant: the provider does not catch a failed refresh.                  *)
StatusUncaught(q, status) ==
  CASE call[q].given # None -> "in" [] call[q].op = "logout" -> "out" [] OTHER -> status

(* clearSession, unless the page that called refreshSession handles it      *)
StatusAfter(q, status) ==
  CASE call[q].given # None -> "in"
    [] call[q].given = None /\ call[q].op \in {"refresh", "logout"} -> "out"
    [] OTHER -> status

Settle(q) ==
  tab' = [b \in Tabs |-> IF b = call[q].from THEN StatusAfter(q, tab[b]) ELSE tab[b]]

Receive(q) ==
  /\ call[q].at = "answer"
  /\ call' = [call EXCEPT ![q] = NoCall]
  /\ cookie' = IF call[q].from = Elsewhere THEN cookie ELSE CookieAfter(q)
  /\ Settle(q)
  /\ UNCHANGED <<server, overlapped, lost, sent>>

(* The answer does not arrive: to the page, a call that failed.             *)
LoseAnswer(q) ==
  /\ call[q].at = "answer" /\ call[q].op \in OfTabs
  /\ call' = [call EXCEPT ![q].given = None, ![q].from = Elsewhere]
  /\ tab' = [b \in Tabs |-> IF b = call[q].from /\ call[q].op \in {"refresh", "logout"}
                            THEN "out" ELSE tab[b]]
  /\ lost' = TRUE
  /\ Count
  /\ UNCHANGED <<server, cookie, overlapped>>

TokenExpires(t) ==
  /\ Live(t) /\ ~token[t].expired
  /\ token' = [token EXCEPT ![t].expired = TRUE]
  /\ Count
  /\ UNCHANGED <<call, link, passwords, reused, browser>>

-----------------------------------------------------------------------------
Sends(q) ==
  \/ \E b \in Tabs : \/ Load(q, b) \/ TimerRefresh(q, b) \/ RefreshSession(q, b)
                     \/ Login(q, b) \/ Logout(q, b) \/ ChangePassword(q, b)
  \/ \E n \in Links : ResetPassword(q, n)

Serves(q) ==
  \/ VerifyPassword(q)
  \/ ReadToken(q)
  \/ \E t \in Tokens : StartSession(q, t) \/ Rotate(q, t)
  \/ FamilySnapshot(q) \/ FamilyWrite(q)
  \/ RevokePresented(q)
  \/ SnapshotForChange(q) \/ SnapshotForReset(q) \/ PasswordWrite(q)

Next ==
  \/ \E q \in Calls : Sends(q) \/ Serves(q) \/ Receive(q) \/ LoseAnswer(q)
  \/ \E n \in Links : ForgotPassword(n)
  \/ \E t \in Tokens : TokenExpires(t)

Spec == Init /\ [][Next]_vars

(* The API works on every call and the browser receives its answer or       *)
(* gives it up.                                                             *)
FairSpec == Spec /\ \A q \in Calls : WF_vars(Serves(q)) /\ WF_vars(Receive(q))

-----------------------------------------------------------------------------
(* Properties *)

(* Two refreshes that present the same token at once get one token between  *)
(* them: a family never has two that work (refresh's guarded rotation).     *)
OneLivePerFamily ==
  \A t, u \in Tokens : Live(t) /\ Live(u) /\ Family(t) = Family(u) => t = u

(* "Si posteriormente se presenta RT1 nuevamente .. se revoca toda la       *)
(* cadena": after a reuse no token of the family works, but for one that a  *)
(* rotation made while the revocation ran (revokeTokenFamily).              *)
ReuseEndsFamily ==
  \A t \in Tokens : Live(t) /\ Family(t) \in reused => token[t].crossed

(* "Al restablecer contrasena se revocan todas las sesiones": a token that  *)
(* works was given under the current password, or by a call that a change   *)
(* of password crossed (resetPassword, changePassword).                     *)
SessionsEndWithThePassword ==
  \A t \in Tokens : Live(t) /\ token[t].under < passwords => token[t].crossed

(* A browser that made one call at a time and lost no answer holds a token  *)
(* that works, unless it expired or the password changed: rotation never    *)
(* throws an honest user out (refresh and its cookie, AuthSessionProvider). *)
BrowserKeepsItsSession ==
  ~overlapped /\ ~lost /\ InFlight = {} /\ cookie # None =>
    Live(cookie) \/ token[cookie].expired \/ token[cookie].under < passwords

(* A page that loads comes to know whether there is a session.              *)
LoadingEnds == \A b \in Tabs : tab[b] = "loading" ~> tab[b] # "loading"
=============================================================================
