--------------------------- MODULE SessionsProofs --------------------------
(***************************************************************************)
(* Theorems about Sessions, for any number of tabs, calls, tokens and      *)
(* links: a family has one token that works, a revocation of a family or   *)
(* of all sessions leaves only tokens of calls it crossed, and a browser   *)
(* that makes one call at a time keeps its session.                        *)
(***************************************************************************)
EXTENDS Sessions, TLAPS

TokenRow == [state : {"none", "live", "revoked"}, family : Tokens \cup {None},
             expired : BOOLEAN, under : Nat, crossed : BOOLEAN]
Call == [op : Ops, at : Stages, from : Tabs \cup {Elsewhere},
         presented : Tokens \cup Links \cup {None}, given : Tokens \cup {None},
         rows : SUBSET Tokens, under : Nat, crossed : BOOLEAN]

Given(t) == token[t].state # "none"

(* Revocations that run: they crossed every call when they started.         *)
Running == {c \in Calls : call[c].at \in {"family", "familyWrite", "passwordWrite"}}

(* Cookies and families refer to tokens that were given.                    *)
Referring ==
  /\ cookie # None => Given(cookie)
  /\ \A t \in Tokens : Given(t) => Family(t) # None /\ Given(Family(t))
  /\ \A f \in reused : Given(f)

(* And so do calls that rotate or revoke a family.                          *)
PresentsGiven(c) ==
  LET presents == call[c].op \in {"refresh", "manual", "logout"} /\ call[c].at \in {"read", "act"}
      rotates == call[c].op \in {"refresh", "manual"} /\ call[c].at = "act"
      revokes == call[c].at \in {"family", "familyWrite"}
  IN  /\ (presents \/ revokes) /\ call[c].presented # None =>
           call[c].presented \in Tokens /\ Given(call[c].presented)
      /\ rotates \/ revokes => call[c].presented # None
      /\ call[c].given # None => Given(call[c].given)
      /\ \A t \in call[c].rows : Given(t)

(* A call that will give a token is crossed by every revocation that runs,  *)
(* and by every change of password since it read.                           *)
CrossedIfGiving(c) ==
  call[c].at = "act" /\ call[c].op \in {"login", "refresh", "manual"} =>
    call[c].crossed \/ (call[c].under = passwords /\ Running = {})

(* A running revocation has every token it must revoke, but for the crossed.*)
HasItsRows(c) ==
  /\ call[c].at = "passwordWrite" =>
       \A t \in Tokens : Live(t) => t \in call[c].rows \/ token[t].crossed
  /\ call[c].at = "familyWrite" =>
       \A t \in Tokens : Live(t) /\ Family(t) = Family(call[c].presented) =>
         t \in call[c].rows \/ token[t].crossed

CallInv(c) == PresentsGiven(c) /\ CrossedIfGiving(c) /\ HasItsRows(c)

Safe == OneLivePerFamily /\ ReuseEndsFamily /\ SessionsEndWithThePassword

Inv == TypeOK /\ Referring /\ (\A c \in Calls : CallInv(c)) /\ Safe
USE SessionsAssumption

-----------------------------------------------------------------------------
(* Types *)

LEMMA Numbers == Tokens \subseteq Nat \ {0} /\ Links \subseteq Nat \ {0} /\ None = 0
BY DEF Tokens, Links, None

LEMMA NoCallTyped ==
  /\ NoCall \in Call /\ NoCall.at = "idle" /\ NoCall.given = None
  /\ NoToken \in TokenRow /\ NoToken.state = "none"
BY Numbers DEF NoCall, Call, NoToken, TokenRow, Ops, Stages

LEMMA TypeOKRows ==
  TypeOK <=>
    /\ token \in [Tokens -> TokenRow]
    /\ cookie \in Tokens \cup {None}
    /\ tab \in [Tabs -> {"closed", "loading", "in", "out"}]
    /\ call \in [Calls -> Call]
    /\ link \in [Links -> {"none", "open", "consumed"}]
    /\ passwords \in Nat
    /\ reused \subseteq Tokens
    /\ overlapped \in BOOLEAN /\ lost \in BOOLEAN
    /\ sent \in Nat
BY DEF TypeOK, TokenRow, Call

LEMMA TypeOKRowsNext ==
  ASSUME token' \in [Tokens -> TokenRow],
         cookie' \in Tokens \cup {None},
         tab' \in [Tabs -> {"closed", "loading", "in", "out"}],
         call' \in [Calls -> Call],
         link' \in [Links -> {"none", "open", "consumed"}],
         passwords' \in Nat,
         reused' \subseteq Tokens,
         overlapped' \in BOOLEAN, lost' \in BOOLEAN,
         sent' \in Nat
  PROVE  TypeOK'
BY DEF TypeOK, TokenRow, Call

(* A call moves on, and answers.                                            *)
LEMMA Moves ==
  ASSUME TypeOK, NEW q \in Calls, NEW stage \in Stages
  PROVE  /\ [call EXCEPT ![q].at = stage] \in [Calls -> Call]
         /\ \A g \in Tokens \cup {None} : Answers(q, g) \in [Calls -> Call]
         /\ Reads(q, stage) \in [Calls -> Call]
         /\ Revokes(q, stage) \in [Calls -> Call]
<1> USE DEF TypeOK
<1>1. call \in [Calls -> Call] /\ passwords \in Nat
  BY TypeOKRows
<1>2. [call EXCEPT ![q].at = stage] \in [Calls -> Call]
  BY <1>1 DEF Call
<1>3. ASSUME NEW g \in Tokens \cup {None} PROVE Answers(q, g) \in [Calls -> Call]
  <2>1. [[[call[q] EXCEPT !.at = "answer"] EXCEPT !.given = g] EXCEPT !.rows = {}] \in Call
    BY <1>1 DEF Call, Stages
  <2>2. Answers(q, g) =
          [call EXCEPT ![q] = [[[call[q] EXCEPT !.at = "answer"] EXCEPT !.given = g]
                                 EXCEPT !.rows = {}]]
    BY <1>1 DEF Answers, Call
  <2> QED BY <1>1, <2>1, <2>2
<1>4. Reads(q, stage) \in [Calls -> Call]
  <2> DEFINE x == Revoking # {}
             row == [[[call[q] EXCEPT !.at = stage] EXCEPT !.under = passwords]
                       EXCEPT !.crossed = x]
  <2>1. row \in Call
    BY <1>1 DEF Call
  <2>2. Reads(q, stage) = [call EXCEPT ![q] = row]
    BY <1>1 DEF Reads, Call
  <2> HIDE DEF row
  <2> QED BY <1>1, <2>1, <2>2
<1>5. Revokes(q, stage) \in [Calls -> Call]
  <2>1. [call[q] EXCEPT !.at = stage] \in Call
    BY <1>1 DEF Call
  <2>2. ASSUME NEW c \in Calls
        PROVE  [call[c] EXCEPT !.crossed = @ \/ call[c].at # "idle"] \in Call
    <3> DEFINE x == call[c].crossed \/ call[c].at # "idle"
    <3>1. call[c] \in Call
      BY <1>1
    <3>2. x \in BOOLEAN
      OBVIOUS
    <3>3. [call[c] EXCEPT !.crossed = x] \in Call
      <4> HIDE DEF x
      <4> QED BY <3>1, <3>2 DEF Call
    <3> QED BY <3>3
  <2> QED BY <2>1, <2>2 DEF Revokes
<1> QED BY <1>2, <1>3, <1>4, <1>5

LEMMA RevokedTyped ==
  ASSUME TypeOK, NEW rows
  PROVE  Revoked(rows) \in [Tokens -> TokenRow]
BY TypeOKRows, TypeOKRowsNext DEF Revoked, TokenRow

LEMMA InitTypes == Init => TypeOK
<1> SUFFICES ASSUME Init PROVE TypeOK
  OBVIOUS
<1>1. /\ token \in [Tokens -> TokenRow] /\ call \in [Calls -> Call]
      /\ link \in [Links -> {"none", "open", "consumed"}]
  BY NoCallTyped DEF Init
<1>2. tab \in [Tabs -> {"closed", "loading", "in", "out"}]
  BY DEF Init
<1> QED BY <1>1, <1>2, TypeOKRows DEF Init

(* What the dashboard sends and receives keeps the types.                   *)
LEMMA SendTypes ==
  ASSUME TypeOK, NEW q \in Calls, NEW op \in Ops, NEW stage \in Stages,
         NEW from \in Tabs \cup {Elsewhere}, NEW presented \in Tokens \cup Links \cup {None},
         Send(q, op, stage, from, presented), UNCHANGED <<cookie, tab, lost>>
  PROVE  TypeOK'
<1> DEFINE row == [[[[NoCall EXCEPT !.op = op] EXCEPT !.at = stage] EXCEPT !.from = from]
                    EXCEPT !.presented = presented]
<1>1. row \in Call
  BY NoCallTyped DEF Call
<1>2. call' = [call EXCEPT ![q] = row]
  BY NoCallTyped DEF Send, Call
<1> HIDE DEF row
<1> QED BY <1>1, <1>2, TypeOKRows, TypeOKRowsNext DEF Send, Count, server

LEMMA SendsTypes ==
  ASSUME TypeOK, NEW q \in Calls, Sends(q)
  PROVE  TypeOK'
<1>0. /\ {"login", "refresh", "manual", "logout", "reset", "change"} \subseteq Ops
      /\ {"read", "act", "password"} \subseteq Stages
      /\ cookie \in Tokens \cup {None}
  BY DEF Ops, Stages, TypeOK
<1>1. ASSUME NEW b \in Tabs, Load(q, b) PROVE TypeOK'
  <2> DEFINE row == [[[[NoCall EXCEPT !.op = "refresh"] EXCEPT !.at = "read"] EXCEPT !.from = b]
                      EXCEPT !.presented = cookie]
  <2>1. row \in Call
    BY <1>0, NoCallTyped DEF Call
  <2>2. \A c \in Calls : [call[c] EXCEPT !.from = Elsewhere] \in Call
    BY TypeOKRows, TypeOKRowsNext DEF Call
  <2>3. \A c \in Calls : call'[c] = row \/ call'[c] = [call[c] EXCEPT !.from = Elsewhere]
                          \/ call'[c] = call[c]
    BY <1>1, NoCallTyped DEF Load, Call
  <2>4. call' \in [Calls -> Call]
    <3> HIDE DEF row
    <3> QED BY <1>1, <2>1, <2>2, <2>3, TypeOKRows, TypeOKRowsNext DEF Load
  <2> QED BY <1>1, <2>4, TypeOKRows, TypeOKRowsNext DEF Load, Count, server
<1>2. ASSUME NEW b \in Tabs, TimerRefresh(q, b) \/ RefreshSession(q, b) \/ Login(q, b)
                                \/ Logout(q, b) \/ ChangePassword(q, b)
      PROVE  TypeOK'
  BY <1>0, <1>2, SendTypes DEF TimerRefresh, RefreshSession, Login, Logout, ChangePassword
<1>3. ASSUME NEW n \in Links, ResetPassword(q, n) PROVE TypeOK'
  BY <1>0, <1>3, SendTypes DEF ResetPassword
<1> QED BY <1>1, <1>2, <1>3 DEF Sends

LEMMA ReceiveTypes ==
  ASSUME TypeOK, NEW q \in Calls, Receive(q) \/ LoseAnswer(q)
  PROVE  TypeOK'
<1>1. CASE Receive(q)
  <2>1. call' \in [Calls -> Call]
    BY <1>1, NoCallTyped, TypeOKRows, TypeOKRowsNext DEF Receive
  <2>2. cookie' \in Tokens \cup {None}
    BY <1>1 DEF Receive, CookieAfter, TypeOK
  <2>3. tab' \in [Tabs -> {"closed", "loading", "in", "out"}]
    BY <1>1 DEF Receive, Settle, StatusAfter, TypeOK
  <2> QED BY <1>1, <2>1, <2>2, <2>3, TypeOKRows, TypeOKRowsNext DEF Receive, server
<1>2. CASE LoseAnswer(q)
  <2>1. [[call[q] EXCEPT !.given = None] EXCEPT !.from = Elsewhere] \in Call
    BY TypeOKRows, TypeOKRowsNext DEF Call
  <2>2. call' = [call EXCEPT ![q] = [[call[q] EXCEPT !.given = None] EXCEPT !.from = Elsewhere]]
    BY <1>2, TypeOKRows, TypeOKRowsNext DEF LoseAnswer, Call
  <2>3. call' \in [Calls -> Call]
    BY <2>1, <2>2, TypeOKRows
  <2> QED BY <1>2, <2>3, TypeOKRows, TypeOKRowsNext DEF LoseAnswer, Count, server
<1> QED BY <1>1, <1>2

(* And so does the work of the API.                                         *)
LEMMA NewTokenTyped ==
  ASSUME TypeOK, NEW q \in Calls, NEW f \in Tokens, NEW crossed \in BOOLEAN
  PROVE  NewToken(q, f, crossed) \in TokenRow
BY TypeOKRows, TypeOKRowsNext DEF NewToken, TokenRow, Call

LEMMA ServesTypes ==
  ASSUME TypeOK, Referring, NEW q \in Calls, PresentsGiven(q), Serves(q)
  PROVE  TypeOK'
<1>0. {"act", "family", "familyWrite", "password", "passwordWrite", "answer"} \subseteq Stages
  BY DEF Stages
<1>a. \A stage \in Stages : /\ Reads(q, stage) \in [Calls -> Call]
                             /\ Revokes(q, stage) \in [Calls -> Call]
  BY Moves
<1>b. \A g \in Tokens \cup {None} : Answers(q, g) \in [Calls -> Call]
  BY <1>0, Moves
<1>c. Answers(q, None) \in [Calls -> Call]
  BY <1>b
<1>1. CASE VerifyPassword(q)
  BY <1>0, <1>1, Moves, TypeOKRows, TypeOKRowsNext DEF VerifyPassword, server, browser
<1>2. CASE ReadToken(q)
  <2> DEFINE t == call[q].presented
  <2>1. CASE UNCHANGED token /\ (call' = Answers(q, None) \/ call' = Revokes(q, "family")
                                   \/ call' = Reads(q, "act"))
    <3>1. call' \in [Calls -> Call]
      BY <1>0, <2>1, <1>a, <1>c
    <3> QED BY <1>2, <2>1, <3>1, TypeOKRows, TypeOKRowsNext DEF ReadToken, browser
  <2>2. CASE token' = [token EXCEPT ![t].state = "revoked"] /\ call' = Answers(q, None)
    <3>1. token' \in [Tokens -> TokenRow]
      BY <2>2, TypeOKRows, TypeOKRowsNext DEF TokenRow
    <3> QED BY <1>0, <1>2, <2>2, <3>1, Moves, TypeOKRows, TypeOKRowsNext DEF ReadToken, browser
  <2> QED BY <1>2, <2>1, <2>2 DEF ReadToken
<1>3. ASSUME NEW t \in Tokens, StartSession(q, t) PROVE TypeOK'
  <2>1. token' \in [Tokens -> TokenRow]
    BY <1>3, NewTokenTyped, TypeOKRows, TypeOKRowsNext DEF StartSession
  <2> QED BY <1>0, <1>3, <2>1, Moves, TypeOKRows, TypeOKRowsNext DEF StartSession, browser
<1>4. ASSUME NEW t \in Tokens, Rotate(q, t) PROVE TypeOK'
  <2> DEFINE old == call[q].presented
  <2>1. CASE /\ token' = [token EXCEPT ![old].state = "revoked",
                                       ![t] = NewToken(q, Family(old), token[old].crossed)]
             /\ call' = Answers(q, t)
             /\ StillLive(old)
    <3>1. old \in Tokens /\ Live(old) /\ Family(old) \in Tokens \cup {None}
      <4>1. old \in Tokens /\ Live(old)
        BY <1>4, <2>1 DEF Rotate, PresentsGiven, StillLive
      <4> QED BY <4>1, TypeOKRows DEF Family, TokenRow
    <3>2. NewToken(q, Family(old), token[old].crossed) \in TokenRow
      BY <3>1, TypeOKRows, TypeOKRowsNext DEF NewToken, TokenRow, Call
    <3>3. [token EXCEPT ![old].state = "revoked"] \in [Tokens -> TokenRow]
      BY <3>1, TypeOKRows, TypeOKRowsNext DEF TokenRow
    <3>4. token' = [[token EXCEPT ![old].state = "revoked"]
                     EXCEPT ![t] = NewToken(q, Family(old), token[old].crossed)]
      BY <2>1
    <3>5. token' \in [Tokens -> TokenRow]
      BY <3>2, <3>3, <3>4
    <3> QED BY <1>0, <1>4, <2>1, <3>5, Moves, TypeOKRows, TypeOKRowsNext DEF Rotate, browser
  <2>2. CASE call' = Revokes(q, "family") /\ UNCHANGED token
    BY <1>0, <1>4, <2>2, Moves, TypeOKRows, TypeOKRowsNext DEF Rotate, browser
  <2> QED BY <1>4, <2>1, <2>2 DEF Rotate
<1>5. CASE FamilySnapshot(q)
  <2>1. [[call[q] EXCEPT !.at = "familyWrite"] EXCEPT !.rows = FamilyRows(q)] \in Call
    BY <1>0, TypeOKRows, TypeOKRowsNext DEF Call, FamilyRows
  <2>2. call' = [call EXCEPT ![q] = [[call[q] EXCEPT !.at = "familyWrite"]
                                       EXCEPT !.rows = FamilyRows(q)]]
    BY <1>5, TypeOKRows, TypeOKRowsNext DEF FamilySnapshot, Call
  <2>3. call' \in [Calls -> Call]
    BY <2>1, <2>2, TypeOKRows
  <2> QED BY <1>5, <2>3, TypeOKRows, TypeOKRowsNext DEF FamilySnapshot, server, browser
<1>6. CASE FamilyWrite(q)
  <2>1. Family(call[q].presented) \in Tokens
    <3>1. call[q].presented \in Tokens /\ Given(call[q].presented)
      BY <1>6 DEF FamilyWrite, PresentsGiven
    <3> QED BY <3>1, TypeOKRows DEF Referring, Family, TokenRow
  <2> QED BY <1>0, <1>6, <2>1, Moves, RevokedTyped, TypeOKRows, TypeOKRowsNext DEF FamilyWrite, browser
<1>7. CASE RevokePresented(q)
  BY <1>0, <1>7, Moves, RevokedTyped, TypeOKRows, TypeOKRowsNext DEF RevokePresented, browser
<1>8. Takes(q) \in [Calls -> Call]
  <2>1. Revokes(q, "passwordWrite") \in [Calls -> Call] /\ RowsOfUser \in SUBSET Tokens
    BY <1>0, Moves DEF RowsOfUser
  <2> QED BY <2>1 DEF Takes, Call
<1>9. CASE SnapshotForChange(q)
  BY <1>8, <1>9, TypeOKRows, TypeOKRowsNext DEF SnapshotForChange, server, browser
<1>10. CASE SnapshotForReset(q)
  <2>1. call' \in [Calls -> Call]
    BY <1>c, <1>8, <1>10 DEF SnapshotForReset
  <2>2. link' \in [Links -> {"none", "open", "consumed"}]
    BY <1>10, TypeOKRows DEF SnapshotForReset
  <2> QED BY <1>10, <2>1, <2>2, TypeOKRows, TypeOKRowsNext DEF SnapshotForReset, browser
<1>11. CASE PasswordWrite(q)
  <2>1. [Revokes(q, "answer") EXCEPT ![q].rows = {}] \in [Calls -> Call]
    <3>1. Revokes(q, "answer") \in [Calls -> Call]
      BY <1>0, Moves
    <3> QED BY <3>1 DEF Call
  <2> QED BY <1>11, <2>1, RevokedTyped, TypeOKRows, TypeOKRowsNext DEF PasswordWrite, browser
<1> QED BY <1>1, <1>2, <1>3, <1>4, <1>5, <1>6, <1>7, <1>9, <1>10, <1>11 DEF Serves

-----------------------------------------------------------------------------
(* What a step does to the tokens and to the calls                          *)

(* No token is given, none works again and none changes otherwise.          *)
TokensShrink ==
  \A t \in Tokens :
    /\ token'[t].state = "none" <=> token[t].state = "none"
    /\ token'[t].state = "live" => token[t].state = "live"
    /\ token'[t].family = token[t].family
    /\ token'[t].under = token[t].under
    /\ token'[t].crossed = token[t].crossed

(* A call that another's step leaves alone may be crossed by it.            *)
Kept(c) ==
  /\ call'[c].op = call[c].op
  /\ call'[c].at = call[c].at
  /\ call'[c].presented = call[c].presented
  /\ call'[c].given = call[c].given
  /\ call'[c].rows = call[c].rows
  /\ call'[c].under = call[c].under
  /\ call[c].crossed => call'[c].crossed

Others(q) == Calls \ {q}
Crosses(others) == \A c \in others : call[c].at # "idle" => call'[c].crossed

(* A revocation that starts with the step crosses every other call.         *)
StartsCrossing(others) == Running' \subseteq Running \/ Crosses(others)

LEMMA ShrinkSafe ==
  ASSUME Inv, TypeOK', TokensShrink, UNCHANGED <<passwords, reused>>,
         cookie' # None => Given(cookie')
  PROVE  Referring' /\ Safe'
<1> USE DEF Inv, TokensShrink, Given, Live, Family
<1>0. /\ cookie \in Tokens \cup {None} /\ cookie' \in Tokens \cup {None}
      /\ reused \subseteq Tokens
      /\ \A t \in Tokens : token[t].family \in Tokens \cup {None}
  BY TypeOKRows DEF TypeOK, TokenRow
<1>1. Referring'
  BY <1>0 DEF Referring
<1>2. OneLivePerFamily'
  BY DEF Safe, OneLivePerFamily
<1>3. ReuseEndsFamily'
  BY DEF Safe, ReuseEndsFamily
<1>4. SessionsEndWithThePassword'
  BY DEF Safe, SessionsEndWithThePassword
<1> QED BY <1>1, <1>2, <1>3, <1>4 DEF Safe

LEMMA OthersKept ==
  ASSUME Inv, TypeOK', TokensShrink, UNCHANGED passwords, NEW others \in SUBSET Calls,
         \A c \in others : Kept(c), StartsCrossing(others)
  PROVE  \A c \in others : CallInv(c)'
<1> SUFFICES ASSUME NEW c \in others PROVE CallInv(c)'
  OBVIOUS
<1>0. /\ Kept(c) /\ CallInv(c)
      /\ call[c].presented \in Tokens \cup Links \cup {None}
      /\ call[c].given \in Tokens \cup {None} /\ call[c].rows \subseteq Tokens
  BY TypeOKRows DEF Inv, Call
<1>1. PresentsGiven(c)'
  BY <1>0 DEF CallInv, PresentsGiven, Kept, TokensShrink, Given
<1>2. CrossedIfGiving(c)'
  <2>1. CASE Crosses(others)
    BY <1>0, <2>1 DEF Crosses, CrossedIfGiving, Kept
  <2>2. CASE Running' \subseteq Running
    BY <1>0, <2>2 DEF CallInv, CrossedIfGiving, Kept
  <2> QED BY <2>1, <2>2 DEF StartsCrossing
<1>3. HasItsRows(c)'
  <2>1. ASSUME call[c].at = "passwordWrite", NEW t \in Tokens, token'[t].state = "live"
        PROVE  t \in call[c].rows \/ token'[t].crossed
    BY <1>0, <2>1 DEF CallInv, HasItsRows, TokensShrink, Live
  <2>2. ASSUME call[c].at = "familyWrite", NEW t \in Tokens, token'[t].state = "live",
               token'[t].family = token'[call[c].presented].family
        PROVE  t \in call[c].rows \/ token'[t].crossed
    <3>1. call[c].presented \in Tokens
      BY <1>0, <2>2 DEF CallInv, PresentsGiven
    <3> QED BY <1>0, <2>2, <3>1 DEF CallInv, HasItsRows, TokensShrink, Live, Family
  <2> QED BY <1>0, <2>1, <2>2 DEF HasItsRows, Kept, Live, Family
<1> QED BY <1>1, <1>2, <1>3 DEF CallInv

(* A step that gives no token and ends no revocation                        *)
LEMMA QuietStep ==
  ASSUME Inv, TypeOK', TokensShrink, UNCHANGED <<passwords, reused>>,
         cookie' # None => Given(cookie'),
         NEW q \in Calls, \A c \in Others(q) : Kept(c), StartsCrossing(Others(q)), CallInv(q)'
  PROVE  Inv'
BY ShrinkSafe, OthersKept DEF Inv, Others

(* Calls of which nothing is asked                                          *)
LEMMA IdleCall ==
  ASSUME NEW q \in Calls, call'[q].at \in {"idle", "password", "answer"}, call'[q].given = None,
         \A t \in call'[q].rows : Given(t)'
  PROVE  CallInv(q)'
BY DEF CallInv, PresentsGiven, CrossedIfGiving, HasItsRows

(* The cookie in hand was given.                                            *)
LEMMA SameCookie ==
  ASSUME Inv, TypeOK', TokensShrink, UNCHANGED cookie
  PROVE  cookie' # None => Given(cookie')
BY DEF Inv, Referring, TokensShrink, Given, TypeOK

(* A call that moves on by itself                                           *)
LEMMA MovesKeep ==
  ASSUME Inv, NEW q \in Calls, NEW row, call' = [call EXCEPT ![q] = row]
  PROVE  /\ \A c \in Others(q) : Kept(c)
         /\ call'[q] = row
         /\ row.at \notin {"family", "familyWrite", "passwordWrite"} \/ q \in Running =>
              StartsCrossing(Others(q))
<1>1. call \in [Calls -> Call]
  BY TypeOKRows DEF Inv
<1>2. \A c \in Others(q) : Kept(c) /\ call'[c] = call[c]
  BY <1>1 DEF Kept, Others
<1>3. call'[q] = row
  BY <1>1
<1> QED BY <1>2, <1>3 DEF StartsCrossing, Running, Others

(* A revocation that starts                                                 *)
LEMMA RevokesKeep ==
  ASSUME Inv, NEW q \in Calls, NEW stage \in Stages, call' = Revokes(q, stage)
  PROVE  /\ \A c \in Others(q) : Kept(c)
         /\ StartsCrossing(Others(q)) /\ Crosses(Others(q))
         /\ call'[q] = [call[q] EXCEPT !.at = stage]
<1>1. call \in [Calls -> Call]
  BY TypeOKRows DEF Inv
<1>2. call'[q] = [call[q] EXCEPT !.at = stage]
  BY DEF Revokes
<1>3. ASSUME NEW c \in Others(q) PROVE Kept(c) /\ (call[c].at # "idle" => call'[c].crossed)
  <2>1. call'[c] = [call[c] EXCEPT !.crossed = @ \/ call[c].at # "idle"]
    BY DEF Revokes, Others
  <2> QED BY <1>1, <2>1 DEF Kept, Call, Others
<1> QED BY <1>2, <1>3 DEF StartsCrossing, Crosses

-----------------------------------------------------------------------------
(* The dashboard                                                            *)

LEMMA Unchanged == UNCHANGED token => TokensShrink
BY DEF TokensShrink

(* A request presents the cookie, or nothing that would be rotated.         *)
LEMMA SendInv ==
  ASSUME Inv, TypeOK', NEW q \in Calls, NEW op \in Ops, NEW stage \in {"read", "act", "password"},
         NEW from, NEW presented, Send(q, op, stage, from, presented), UNCHANGED cookie,
         op \in {"refresh", "manual", "logout"} => presented = cookie,
         op \in {"login", "refresh", "manual"} => stage = "read"
  PROVE  Inv'
<1> DEFINE row == [NoCall EXCEPT !.op = op, !.at = stage, !.from = from, !.presented = presented]
<1>1. call' = [call EXCEPT ![q] = row] /\ UNCHANGED server
  BY DEF Send
<1>2. row.op = op /\ row.at = stage /\ row.presented = presented /\ row.given = None /\ row.rows = {}
  BY NoCallTyped DEF NoCall
<1> HIDE DEF row
<1>3. CallInv(q)'
  <2>1. call'[q] = row /\ UNCHANGED token
    BY <1>1, MovesKeep DEF server
  <2>2. cookie # None => cookie \in Tokens /\ Given(cookie)
    BY DEF Inv, Referring, TypeOK
  <2> QED BY <1>2, <2>1, <2>2
          DEF CallInv, PresentsGiven, CrossedIfGiving, HasItsRows, Given
<1> QED BY <1>1, <1>2, <1>3, MovesKeep, Unchanged, SameCookie, QuietStep DEF server

LEMMA SendsInv ==
  ASSUME Inv, NEW q \in Calls, Sends(q)
  PROVE  Inv'
<1>0. TypeOK'
  BY SendsTypes DEF Inv
<1>1. ASSUME NEW b \in Tabs, Load(q, b) PROVE Inv'
  <2> DEFINE row == [NoCall EXCEPT !.op = "refresh", !.at = "read", !.from = b,
                                   !.presented = cookie]
  <2>1. /\ call'[q] = row /\ UNCHANGED server /\ UNCHANGED cookie
        /\ \A c \in Others(q) : call'[c] = call[c] \/ call'[c] = [call[c] EXCEPT !.from = Elsewhere]
    BY <1>1 DEF Load, Others
  <2>2. row.op = "refresh" /\ row.at = "read" /\ row.presented = cookie /\ row.given = None
        /\ row.rows = {}
    BY NoCallTyped DEF NoCall
  <2> HIDE DEF row
  <2>3. ASSUME NEW c \in Others(q) PROVE Kept(c)
    <3>1. call[c] \in Call
      BY TypeOKRows DEF Inv, Others
    <3>2. CASE call'[c] = call[c]
      BY <3>2 DEF Kept
    <3>3. CASE call'[c] = [call[c] EXCEPT !.from = Elsewhere]
      BY <3>1, <3>3 DEF Kept, Call
    <3> QED BY <2>1, <3>2, <3>3
  <2>4. Running' \subseteq Running
    BY <2>1, <2>2, <2>3 DEF Running, Kept, Others
  <2>5. CallInv(q)'
    <3>1. cookie # None => cookie \in Tokens /\ Given(cookie)
      BY DEF Inv, Referring, TypeOK
    <3> QED BY <2>1, <2>2, <3>1
            DEF CallInv, PresentsGiven, CrossedIfGiving, HasItsRows, Given, server
  <2> QED BY <1>0, <2>1, <2>3, <2>4, <2>5, Unchanged, SameCookie, QuietStep
          DEF server, StartsCrossing
<1>2. ASSUME NEW b \in Tabs, TimerRefresh(q, b) PROVE Inv'
  BY <1>0, <1>2, SendInv DEF TimerRefresh, Ops
<1>3. ASSUME NEW b \in Tabs, RefreshSession(q, b) PROVE Inv'
  BY <1>0, <1>3, SendInv DEF RefreshSession, Ops
<1>4. ASSUME NEW b \in Tabs, Login(q, b) PROVE Inv'
  BY <1>0, <1>4, SendInv DEF Login, Ops
<1>5. ASSUME NEW b \in Tabs, Logout(q, b) PROVE Inv'
  BY <1>0, <1>5, SendInv DEF Logout, Ops
<1>6. ASSUME NEW b \in Tabs, ChangePassword(q, b) PROVE Inv'
  BY <1>0, <1>6, SendInv DEF ChangePassword, Ops
<1>7. ASSUME NEW n \in Links, ResetPassword(q, n) PROVE Inv'
  BY <1>0, <1>7, SendInv DEF ResetPassword, Ops
<1> QED BY <1>1, <1>2, <1>3, <1>4, <1>5, <1>6, <1>7 DEF Sends

LEMMA ReceiveInv ==
  ASSUME Inv, NEW q \in Calls, Receive(q) \/ LoseAnswer(q)
  PROVE  Inv'
<1>0. TypeOK' /\ call \in [Calls -> Call]
  BY ReceiveTypes, TypeOKRows DEF Inv
<1>1. CASE Receive(q)
  <2>1. call' = [call EXCEPT ![q] = NoCall] /\ UNCHANGED server
    BY <1>1 DEF Receive
  <2>2. cookie' # None => Given(cookie')
    <3>1. cookie' \in {cookie, call[q].given, None}
      BY <1>1 DEF Receive, CookieAfter
    <3>2. call[q].given # None => Given(call[q].given)
      BY DEF Inv, CallInv, PresentsGiven
    <3>3. cookie # None => Given(cookie)
      BY DEF Inv, Referring
    <3> QED BY <2>1, <3>1, <3>2, <3>3 DEF Given, server
  <2>3. CallInv(q)' /\ \A c \in Others(q) : Kept(c)
    <3>1. call'[q] = NoCall /\ \A c \in Others(q) : Kept(c)
      BY <2>1, MovesKeep
    <3>2. NoCall.rows = {}
      BY DEF NoCall
    <3> QED BY <3>1, <3>2, IdleCall, NoCallTyped
  <2>4. StartsCrossing(Others(q))
    BY <2>1, MovesKeep, NoCallTyped
  <2> QED BY <1>0, <2>1, <2>2, <2>3, <2>4, Unchanged, QuietStep DEF server
<1>2. CASE LoseAnswer(q)
  <2> DEFINE row == [[call[q] EXCEPT !.given = None] EXCEPT !.from = Elsewhere]
  <2>1. call' = [call EXCEPT ![q] = row] /\ UNCHANGED <<server, cookie>>
    BY <1>0, <1>2 DEF LoseAnswer, Call
  <2>2. row.at = "answer" /\ row.given = None /\ \A t \in row.rows : Given(t)'
    BY <1>0, <1>2, <2>1 DEF LoseAnswer, Call, Inv, CallInv, PresentsGiven, Given, server
  <2> HIDE DEF row
  <2>3. CallInv(q)' /\ \A c \in Others(q) : Kept(c)
    BY <2>1, <2>2, MovesKeep, IdleCall
  <2>4. StartsCrossing(Others(q))
    BY <2>1, <2>2, MovesKeep
  <2> QED BY <1>0, <2>1, <2>3, <2>4, Unchanged, SameCookie, QuietStep DEF server
<1> QED BY <1>1, <1>2

(* Links and expirations                                                    *)
LEMMA OtherStepsInv ==
  ASSUME Inv, (\E n \in Links : ForgotPassword(n)) \/ (\E t \in Tokens : TokenExpires(t))
                \/ UNCHANGED vars
  PROVE  Inv'
<1>0. /\ token \in [Tokens -> TokenRow]
      /\ link \in [Links -> {"none", "open", "consumed"}]
      /\ TypeOK
  BY TypeOKRows DEF Inv
<1>1. UNCHANGED <<call, passwords, reused, cookie, tab, overlapped, lost>>
  BY DEF ForgotPassword, TokenExpires, vars, browser
<1>2. TokensShrink /\ token' \in [Tokens -> TokenRow]
  <2>1. ASSUME NEW t \in Tokens, TokenExpires(t)
        PROVE  TokensShrink /\ token' \in [Tokens -> TokenRow]
    BY <1>0, <2>1 DEF TokenExpires, TokensShrink, TokenRow
  <2> QED BY <1>0, <2>1, Unchanged DEF ForgotPassword, vars
<1>3. link' \in [Links -> {"none", "open", "consumed"}]
  BY <1>0 DEF ForgotPassword, TokenExpires, vars
<1>4. sent' \in Nat
  BY DEF ForgotPassword, TokenExpires, vars, Count, Inv, TypeOK
<1>5. TypeOK'
  BY <1>0, <1>1, <1>2, <1>3, <1>4, TypeOKRows, TypeOKRowsNext
<1>6. \A c \in Calls : CallInv(c)'
  BY <1>1, <1>2, <1>5, OthersKept DEF Kept, StartsCrossing, Running
<1> QED BY <1>1, <1>2, <1>5, <1>6, ShrinkSafe, SameCookie DEF Inv

-----------------------------------------------------------------------------
(* The API                                                                  *)

LEMMA AnswersKeep ==
  ASSUME Inv, NEW q \in Calls, NEW g, call' = Answers(q, g)
  PROVE  /\ \A c \in Others(q) : Kept(c)
         /\ StartsCrossing(Others(q))
         /\ call'[q].at = "answer" /\ call'[q].given = g /\ call'[q].rows = {}
<1> DEFINE row == [[[call[q] EXCEPT !.at = "answer"] EXCEPT !.given = g] EXCEPT !.rows = {}]
<1>1. call[q] \in Call /\ call \in [Calls -> Call]
  BY TypeOKRows DEF Inv
<1>2. call' = [call EXCEPT ![q] = row]
  BY <1>1 DEF Answers, Call
<1>3. row.at = "answer" /\ row.given = g /\ row.rows = {}
  BY <1>1 DEF Call
<1> HIDE DEF row
<1> QED BY <1>2, <1>3, MovesKeep

LEMMA ReadsKeep ==
  ASSUME Inv, NEW q \in Calls, call[q].at = "read", NEW stage \in {"act", "password"},
         call' = Reads(q, stage), UNCHANGED passwords
  PROVE  /\ \A c \in Others(q) : Kept(c)
         /\ StartsCrossing(Others(q))
         /\ call'[q].at = stage /\ call'[q].op = call[q].op
         /\ call'[q].presented = call[q].presented /\ call'[q].given = call[q].given
         /\ call'[q].rows = call[q].rows
         /\ call'[q].crossed \/ (call'[q].under = passwords' /\ Running' = {})
<1> DEFINE x == Revoking # {}
           row == [[[call[q] EXCEPT !.at = stage] EXCEPT !.under = passwords]
                     EXCEPT !.crossed = x]
<1>1. call[q] \in Call /\ call \in [Calls -> Call]
  BY TypeOKRows DEF Inv
<1>2. call' = [call EXCEPT ![q] = row]
  BY <1>1 DEF Reads, Call
<1>3. /\ row.at = stage /\ row.op = call[q].op /\ row.presented = call[q].presented
      /\ row.given = call[q].given /\ row.rows = call[q].rows /\ row.under = passwords /\ row.crossed = x
  BY <1>1 DEF Call
<1>4. ~x => Running' = {}
  <2> HIDE DEF row
  <2> QED BY <1>1, <1>2, <1>3 DEF Revoking, Running
<1> HIDE DEF row
<1> QED BY <1>2, <1>3, <1>4, MovesKeep

(* A call that reads may give a token once it acts.                         *)
LEMMA ReadingInv ==
  ASSUME Inv, TypeOK', NEW q \in Calls, call[q].at = "read", NEW stage \in {"act", "password"},
         call' = Reads(q, stage), UNCHANGED <<server, browser>>,
         call[q].op \in {"refresh", "manual"} => call[q].presented # None
  PROVE  Inv'
<1>1. CallInv(q)'
  <2>1. UNCHANGED <<token, passwords>> /\ CallInv(q)
    BY DEF server, Inv
  <2> QED BY <2>1, ReadsKeep
          DEF CallInv, PresentsGiven, CrossedIfGiving, HasItsRows, Given
<1> QED BY <1>1, ReadsKeep, Unchanged, SameCookie, QuietStep DEF server, browser

(* A call that has met a reuse revokes the family next.                     *)
LEMMA ReuseInv ==
  ASSUME Inv, TypeOK', NEW q \in Calls, call[q].op \in {"refresh", "manual"},
         call[q].at \in {"read", "act"}, call[q].presented # None,
         call' = Revokes(q, "family"), UNCHANGED <<server, browser>>
  PROVE  Inv'
<1>0. "family" \in Stages /\ call[q] \in Call
  BY TypeOKRows DEF Stages, Inv
<1>1. CallInv(q)'
  <2>1. UNCHANGED token /\ CallInv(q)
    BY DEF server, Inv
  <2>2. call'[q] = [call[q] EXCEPT !.at = "family"]
    BY <1>0, RevokesKeep
  <2>3. /\ call'[q].at = "family" /\ call'[q].presented = call[q].presented
        /\ call'[q].given = call[q].given /\ call'[q].op = call[q].op
        /\ call'[q].rows = call[q].rows
    BY <1>0, <2>2 DEF Call
  <2> QED BY <2>1, <2>3 DEF CallInv, PresentsGiven, CrossedIfGiving, HasItsRows, Given
<1> QED BY <1>0, <1>1, RevokesKeep, Unchanged, SameCookie, QuietStep DEF server, browser

(* The only steps that give a token: a login's begins a family, a rotation's*)
(* takes the place of the one that works.                                   *)
LEMMA GivesInv ==
  ASSUME Inv, TypeOK', NEW q \in Calls, NEW t \in Tokens,
         call[q].at = "act", call[q].op \in {"login", "refresh", "manual"}, Fresh(t),
         call' = Answers(q, t), UNCHANGED <<cookie, passwords, reused>>,
         token'[t].state = "live", token'[t].under = call[q].under,
         call[q].crossed => token'[t].crossed,
         \A u \in Tokens \ {t} :
           /\ token'[u].state = "none" <=> token[u].state = "none"
           /\ token'[u].state = "live" => token[u].state = "live"
           /\ token'[u].family = token[u].family
           /\ token'[u].under = token[u].under
           /\ token'[u].crossed = token[u].crossed,
         \/ token'[t].family = t
         \/ \E old \in Tokens \ {t} :
              /\ Live(old) /\ token'[old].state # "live"
              /\ token'[t].family = Family(old)
              /\ token[old].crossed => token'[t].crossed
  PROVE  Inv'
<1>0. /\ token[t].state = "none" /\ CrossedIfGiving(q) /\ Referring /\ Safe
      /\ reused \subseteq Tokens /\ cookie \in Tokens \cup {None}
      /\ \A u \in Tokens : token[u].family \in Tokens \cup {None}
      /\ call \in [Calls -> Call]
  BY TypeOKRows DEF Inv, CallInv, Fresh, TokenRow
<1>1. \A u \in Tokens : Given(u) => u # t /\ Given(u)' /\ Family(u)' = Family(u)
  BY <1>0 DEF Given, Family
<1>2. Referring'
  <2>1. ASSUME NEW u \in Tokens \ {t}, Given(u)' PROVE Family(u)' # None /\ Given(Family(u))'
    BY <1>0, <1>1, <2>1 DEF Referring, Given, Family
  <2>2. Family(t)' # None /\ Given(Family(t))'
    <3>1. CASE token'[t].family = t
      BY <3>1, Numbers DEF Given, Family
    <3>2. ASSUME NEW old \in Tokens \ {t}, Live(old), token'[t].family = Family(old)
          PROVE  Family(t)' # None /\ Given(Family(t))'
      BY <1>0, <1>1, <3>2 DEF Referring, Given, Family, Live
    <3> QED BY <3>1, <3>2
  <2> QED BY <1>0, <1>1, <2>1, <2>2 DEF Referring, Given
<1>3. OneLivePerFamily'
  BY <1>0 DEF Safe, OneLivePerFamily, Referring, Live, Family, Given
<1>4. ReuseEndsFamily'
  BY <1>0 DEF Safe, ReuseEndsFamily, Referring, Live, Family, Given
<1>5. SessionsEndWithThePassword'
  <2>1. call[q].under < passwords => call[q].crossed
    BY <1>0 DEF CrossedIfGiving, Call, Inv, TypeOK
  <2> QED BY <1>0, <2>1 DEF Safe, SessionsEndWithThePassword, Live
<1>6. ASSUME NEW c \in Others(q) PROVE CallInv(c)'
  <2>0. /\ c \in Calls /\ CallInv(c) /\ Kept(c)
        /\ call[c].given \in Tokens \cup {None} /\ call[c].rows \subseteq Tokens
    BY <1>0, AnswersKeep DEF Inv, Others, Call
  <2>1. PresentsGiven(c)'
    BY <1>1, <2>0 DEF CallInv, PresentsGiven, Kept
  <2>2. CrossedIfGiving(c)'
    <3>1. Running' \subseteq Running
      <4>1. call'[q].at = "answer" /\ \A d \in Others(q) : call'[d].at = call[d].at
        BY AnswersKeep DEF Kept
      <4> QED BY <4>1 DEF Running, Others
    <3> QED BY <2>0, <3>1 DEF CallInv, CrossedIfGiving, Kept
  <2>3. HasItsRows(c)'
    <3>1. call[c].at \in {"passwordWrite", "familyWrite"} => token'[t].crossed
      BY <1>0, <2>0 DEF CrossedIfGiving, Running
    <3>2. ASSUME call[c].at = "passwordWrite", NEW u \in Tokens, token'[u].state = "live"
          PROVE  u \in call[c].rows \/ token'[u].crossed
      BY <2>0, <3>1, <3>2 DEF CallInv, HasItsRows, Live
    <3>3. ASSUME call[c].at = "familyWrite", NEW u \in Tokens, token'[u].state = "live",
                 token'[u].family = token'[call[c].presented].family
          PROVE  u \in call[c].rows \/ token'[u].crossed
      <4>1. call[c].presented \in Tokens /\ call[c].presented # t
        BY <1>1, <2>0, <3>3 DEF CallInv, PresentsGiven
      <4> QED BY <2>0, <3>1, <3>3, <4>1 DEF CallInv, HasItsRows, Live, Family
    <3> QED BY <2>0, <3>2, <3>3 DEF HasItsRows, Kept, Live, Family
  <2> QED BY <2>1, <2>2, <2>3 DEF CallInv
<1>7. CallInv(q)'
  BY AnswersKeep DEF CallInv, PresentsGiven, CrossedIfGiving, HasItsRows, Given
<1> QED BY <1>2, <1>3, <1>4, <1>5, <1>6, <1>7 DEF Inv, Safe, Others

(* What is revoked was given and works no more.                             *)
LEMMA RevokedShrinks ==
  ASSUME Inv, NEW rows \in SUBSET Tokens, \A t \in rows : Given(t), token' = Revoked(rows)
  PROVE  TokensShrink /\ \A t \in Tokens : token'[t].state = "live" => t \notin rows
<1>1. token \in [Tokens -> TokenRow]
  BY TypeOKRows DEF Inv
<1>2. ASSUME NEW t \in Tokens
      PROVE  /\ t \in rows => token'[t] = [token[t] EXCEPT !.state = "revoked"]
             /\ t \notin rows => token'[t] = token[t]
  BY DEF Revoked
<1>3. ASSUME NEW t \in Tokens
      PROVE  /\ token'[t].state = IF t \in rows THEN "revoked" ELSE token[t].state
             /\ token'[t].family = token[t].family /\ token'[t].under = token[t].under
             /\ token'[t].crossed = token[t].crossed
  <2>1. token[t] \in TokenRow
    BY <1>1
  <2> QED BY <1>2, <2>1 DEF TokenRow
<1> QED BY <1>3 DEF TokensShrink, Given

(* A call that ends without a token, whatever it revoked.                   *)
LEMMA AnswersInv ==
  ASSUME Inv, TypeOK', NEW q \in Calls, call' = Answers(q, None), TokensShrink,
         UNCHANGED <<cookie, passwords, reused>>
  PROVE  Inv'
<1>1. CallInv(q)'
  BY AnswersKeep, IdleCall
<1> QED BY <1>1, AnswersKeep, SameCookie, QuietStep

(* The end of a family's revocation: what it does not have was crossed.     *)
LEMMA FamilyWriteInv ==
  ASSUME Inv, TypeOK', NEW q \in Calls, FamilyWrite(q)
  PROVE  Inv'
<1> DEFINE f == Family(call[q].presented)
<1>0. CallInv(q) /\ call[q].rows \subseteq Tokens /\ call[q].at = "familyWrite"
  BY TypeOKRows DEF Inv, FamilyWrite, Call
<1>1. TokensShrink /\ \A t \in Tokens : token'[t].state = "live" => t \notin call[q].rows
  BY <1>0, RevokedShrinks DEF FamilyWrite, CallInv, PresentsGiven
<1>2. /\ reused' = reused \cup {f} /\ call' = Answers(q, None)
      /\ UNCHANGED <<cookie, passwords>>
  BY DEF FamilyWrite, browser
<1>3. Given(f) /\ f \in Tokens
  BY <1>0, TypeOKRows DEF CallInv, PresentsGiven, Inv, Referring, Family, TokenRow
<1>4. Referring'
  BY <1>1, <1>2, <1>3, TypeOKRows
     DEF Inv, Referring, TokensShrink, Given, Family, TokenRow
<1>5. OneLivePerFamily' /\ SessionsEndWithThePassword'
  BY <1>1, <1>2 DEF Inv, Safe, OneLivePerFamily, SessionsEndWithThePassword, TokensShrink, Live,
                    Family
<1>6. ReuseEndsFamily'
  <2>1. ASSUME NEW t \in Tokens, token'[t].state = "live", token'[t].family \in reused'
        PROVE  token'[t].crossed
    <3>1. CASE token[t].family \in reused
      BY <1>1, <2>1, <3>1 DEF Inv, Safe, ReuseEndsFamily, TokensShrink, Live, Family
    <3>2. CASE token[t].family = f
      BY <1>0, <1>1, <2>1, <3>2 DEF CallInv, HasItsRows, TokensShrink, Live, Family
    <3> QED BY <1>1, <1>2, <2>1, <3>1, <3>2 DEF TokensShrink
  <2> QED BY <2>1 DEF ReuseEndsFamily, Live, Family
<1>7. CallInv(q)' /\ \A c \in Others(q) : CallInv(c)'
  <2>1. /\ \A c \in Others(q) : Kept(c)
        /\ StartsCrossing(Others(q)) /\ CallInv(q)'
    BY <1>2, AnswersKeep, IdleCall
  <2> QED BY <1>1, <1>2, <2>1, OthersKept DEF Others
<1> QED BY <1>4, <1>5, <1>6, <1>7 DEF Inv, Safe, Others

(* And of a change of password.                                             *)
LEMMA PasswordWriteInv ==
  ASSUME Inv, TypeOK', NEW q \in Calls, PasswordWrite(q)
  PROVE  Inv'
<1>0. /\ CallInv(q) /\ call[q] \in Call /\ call[q].at = "passwordWrite"
      /\ passwords \in Nat /\ call \in [Calls -> Call]
  BY TypeOKRows DEF Inv, PasswordWrite
<1>1. TokensShrink /\ \A t \in Tokens : token'[t].state = "live" => t \notin call[q].rows
  BY <1>0, RevokedShrinks DEF PasswordWrite, CallInv, PresentsGiven, Call
<1>2. UNCHANGED <<cookie, reused>> /\ passwords' = passwords + 1
  BY DEF PasswordWrite, browser
<1>3. Referring'
  BY <1>1, <1>2, TypeOKRows DEF Inv, Referring, TokensShrink, Given, Family, TokenRow, TypeOK
<1>4. OneLivePerFamily' /\ ReuseEndsFamily'
  BY <1>1, <1>2 DEF Inv, Safe, OneLivePerFamily, ReuseEndsFamily, TokensShrink, Live, Family
<1>5. SessionsEndWithThePassword'
  BY <1>0, <1>1 DEF CallInv, HasItsRows, SessionsEndWithThePassword, TokensShrink, Live
<1>6. ASSUME NEW c \in Others(q)
      PROVE  Kept(c) /\ (call[c].at # "idle" => call'[c].crossed)
  <2>1. call[c] \in Call
    BY <1>0 DEF Others
  <2>2. call'[c] = [call[c] EXCEPT !.crossed = @ \/ call[c].at # "idle"]
    BY <1>6 DEF PasswordWrite, Revokes, Others
  <2> QED BY <2>1, <2>2 DEF Kept, Call
<1>7. call'[q].at = "answer" /\ call'[q].rows = {} /\ call'[q].given = call[q].given
  <2>1. Revokes(q, "answer")[q] = [call[q] EXCEPT !.at = "answer"]
    BY DEF Revokes
  <2>2. call'[q] = [[call[q] EXCEPT !.at = "answer"] EXCEPT !.rows = {}]
    BY <2>1 DEF PasswordWrite, Revokes
  <2> QED BY <1>0, <2>2 DEF Call
<1>8. ASSUME NEW c \in Calls PROVE CallInv(c)'
  <2>0. CallInv(c) /\ call[c].given \in Tokens \cup {None}
        /\ call[c].presented \in Tokens \cup Links \cup {None} /\ call[c].rows \subseteq Tokens
    BY TypeOKRows DEF Inv, Call
  <2>1. CASE c = q
    BY <1>1, <1>7, <2>0, <2>1
       DEF CallInv, PresentsGiven, CrossedIfGiving, HasItsRows, TokensShrink, Given
  <2>2. CASE c # q
    <3>1. Kept(c) /\ (call[c].at # "idle" => call'[c].crossed)
      BY <1>6, <2>2 DEF Others
    <3>2. PresentsGiven(c)'
      BY <1>1, <2>0, <3>1 DEF CallInv, PresentsGiven, TokensShrink, Given, Kept
    <3>3. CrossedIfGiving(c)'
      BY <3>1 DEF CrossedIfGiving, Kept
    <3>4. HasItsRows(c)'
      <4>1. call[c].at = "familyWrite" => call[c].presented \in Tokens
        BY <2>0 DEF CallInv, PresentsGiven
      <4> QED BY <1>1, <2>0, <3>1, <4>1 DEF CallInv, HasItsRows, TokensShrink, Live, Family, Kept
    <3> QED BY <3>2, <3>3, <3>4 DEF CallInv
  <2> QED BY <2>1, <2>2
<1> QED BY <1>3, <1>4, <1>5, <1>8 DEF Inv, Safe

(* The steps of the API                                                     *)
LEMMA ReadTokenInv ==
  ASSUME Inv, TypeOK', NEW q \in Calls, ReadToken(q)
  PROVE  Inv'
<1> DEFINE t == call[q].presented
<1>0. /\ call[q].at = "read" /\ call[q].op \in {"refresh", "manual"}
      /\ UNCHANGED <<browser, link, passwords, reused>>
  BY DEF ReadToken
<1>1. CASE call' = Answers(q, None) /\ UNCHANGED token
  BY <1>0, <1>1, AnswersInv, Unchanged DEF browser
<1>2. CASE t # None /\ call' = Revokes(q, "family") /\ UNCHANGED token
  BY <1>0, <1>2, ReuseInv DEF server
<1>3. CASE /\ t # None /\ Live(t)
           /\ token' = [token EXCEPT ![t].state = "revoked"]
           /\ call' = Answers(q, None)
  <2>1. t \in Tokens /\ token \in [Tokens -> TokenRow]
    BY <1>0, <1>3, TypeOKRows DEF Inv, CallInv, PresentsGiven
  <2>2. TokensShrink
    BY <1>3, <2>1 DEF TokensShrink, TokenRow, Live
  <2> QED BY <1>0, <1>3, <2>2, AnswersInv DEF browser
<1>4. CASE t # None /\ call' = Reads(q, "act") /\ UNCHANGED token
  BY <1>0, <1>4, ReadingInv DEF server
<1> QED BY <1>1, <1>2, <1>3, <1>4 DEF ReadToken

LEMMA RotateInv ==
  ASSUME Inv, TypeOK', NEW q \in Calls, NEW t \in Tokens, Rotate(q, t)
  PROVE  Inv'
<1> DEFINE old == call[q].presented
           new == NewToken(q, Family(old), token[old].crossed)
<1>0. /\ call[q].at = "act" /\ call[q].op \in {"refresh", "manual"}
      /\ UNCHANGED <<browser, link, passwords, reused>>
      /\ old \in Tokens /\ token \in [Tokens -> TokenRow]
  BY TypeOKRows DEF Rotate, Inv, CallInv, PresentsGiven
<1>1. CASE /\ StillLive(old) /\ Fresh(t)
           /\ token' = [token EXCEPT ![old].state = "revoked", ![t] = new]
           /\ call' = Answers(q, t)
  <2>1. Live(old) /\ old # t
    BY <1>1 DEF StillLive, Live, Fresh
  <2>2. /\ token'[t] = new
        /\ token'[old] = [token[old] EXCEPT !.state = "revoked"]
        /\ \A u \in Tokens \ {t, old} : token'[u] = token[u]
    <3> HIDE DEF new, old
    <3> QED BY <1>0, <1>1, <2>1
  <2>3. /\ new.state = "live" /\ new.family = Family(old) /\ new.under = call[q].under
        /\ new.crossed = (token[old].crossed \/ call[q].crossed)
    BY DEF NewToken
  <2>4. token[old] \in TokenRow
    BY <1>0
  <2>5. /\ token'[old].state = "revoked" /\ token'[old].family = token[old].family
        /\ token'[old].under = token[old].under /\ token'[old].crossed = token[old].crossed
    BY <2>2, <2>4 DEF TokenRow
  <2> HIDE DEF new
  <2>6. \A u \in Tokens \ {t} :
           /\ token'[u].state = "none" <=> token[u].state = "none"
           /\ token'[u].state = "live" => token[u].state = "live"
           /\ token'[u].family = token[u].family
           /\ token'[u].under = token[u].under
           /\ token'[u].crossed = token[u].crossed
    BY <2>1, <2>2, <2>5 DEF Live
  <2> QED BY <1>0, <1>1, <2>1, <2>2, <2>3, <2>5, <2>6, GivesInv DEF browser
<1>2. CASE call' = Revokes(q, "family") /\ UNCHANGED token
  BY <1>0, <1>2, Numbers, ReuseInv DEF server
<1> QED BY <1>1, <1>2 DEF Rotate

LEMMA StartSessionInv ==
  ASSUME Inv, TypeOK', NEW q \in Calls, NEW t \in Tokens, StartSession(q, t)
  PROVE  Inv'
<1>1. /\ call[q].at = "act" /\ call[q].op = "login" /\ Fresh(t)
      /\ token' = [token EXCEPT ![t] = NewToken(q, t, FALSE)]
      /\ call' = Answers(q, t)
      /\ UNCHANGED <<cookie, passwords, reused>>
      /\ token \in [Tokens -> TokenRow]
  BY TypeOKRows DEF StartSession, browser, Inv
<1>2. /\ NewToken(q, t, FALSE).state = "live" /\ NewToken(q, t, FALSE).family = t
      /\ NewToken(q, t, FALSE).under = call[q].under
      /\ NewToken(q, t, FALSE).crossed = (FALSE \/ call[q].crossed)
  BY DEF NewToken
<1>3. token'[t] = NewToken(q, t, FALSE) /\ \A u \in Tokens \ {t} : token'[u] = token[u]
  BY <1>1
<1> QED BY <1>1, <1>2, <1>3, GivesInv

(* The snapshots take all the tokens that the revocation is for.            *)
LEMMA FamilySnapshotInv ==
  ASSUME Inv, TypeOK', NEW q \in Calls, FamilySnapshot(q)
  PROVE  Inv'
<1> DEFINE row == [[call[q] EXCEPT !.at = "familyWrite"] EXCEPT !.rows = FamilyRows(q)]
<1>0. call[q] \in Call /\ CallInv(q) /\ call[q].at = "family" /\ UNCHANGED <<server, browser>>
  BY TypeOKRows DEF Inv, FamilySnapshot
<1>1. call' = [call EXCEPT ![q] = row]
  BY <1>0, TypeOKRows DEF FamilySnapshot, Call, Inv
<1>2. /\ row.at = "familyWrite" /\ row.rows = FamilyRows(q) /\ row.given = call[q].given
      /\ row.presented = call[q].presented /\ row.op = call[q].op
  BY <1>0 DEF Call
<1> HIDE DEF row
<1>3. call'[q] = row /\ (\A c \in Others(q) : Kept(c)) /\ StartsCrossing(Others(q))
  BY <1>0, <1>1, MovesKeep DEF Running
<1>4. CallInv(q)'
  BY <1>0, <1>2, <1>3
     DEF CallInv, PresentsGiven, CrossedIfGiving, HasItsRows, FamilyRows, Live, Family, Given, server
<1> QED BY <1>0, <1>3, <1>4, Unchanged, SameCookie, QuietStep DEF server, browser

LEMMA TakesInv ==
  ASSUME Inv, TypeOK', NEW q \in Calls, call' = Takes(q), UNCHANGED <<browser, token, passwords, reused>>
  PROVE  Inv'
<1>0. call \in [Calls -> Call] /\ call[q] \in Call /\ CallInv(q) /\ "passwordWrite" \in Stages
  BY TypeOKRows DEF Inv, Stages
<1>1. Revokes(q, "passwordWrite")[q] = [call[q] EXCEPT !.at = "passwordWrite"]
  BY DEF Revokes
<1>2. call'[q] = [[call[q] EXCEPT !.at = "passwordWrite"] EXCEPT !.rows = RowsOfUser]
  BY <1>1 DEF Takes, Revokes
<1>3. call'[q].at = "passwordWrite" /\ call'[q].rows = RowsOfUser /\ call'[q].given = call[q].given
  BY <1>0, <1>2 DEF Call
<1>4. ASSUME NEW c \in Others(q)
      PROVE  Kept(c) /\ (call[c].at # "idle" => call'[c].crossed)
  <2>1. call[c] \in Call
    BY <1>0 DEF Others
  <2>2. call'[c] = [call[c] EXCEPT !.crossed = @ \/ call[c].at # "idle"]
    BY DEF Takes, Revokes, Others
  <2> QED BY <2>1, <2>2 DEF Kept, Call
<1>5. StartsCrossing(Others(q))
  BY <1>4 DEF StartsCrossing, Crosses
<1>6. CallInv(q)'
  BY <1>0, <1>3 DEF CallInv, PresentsGiven, CrossedIfGiving, HasItsRows, RowsOfUser, Live, Given
<1> QED BY <1>4, <1>5, <1>6, Unchanged, SameCookie, QuietStep DEF browser

LEMMA ServesInv ==
  ASSUME Inv, NEW q \in Calls, Serves(q)
  PROVE  Inv'
<1>0. TypeOK'
  BY ServesTypes DEF Inv, CallInv
<1>1. CASE VerifyPassword(q)
  <2>1. /\ call[q].at = "read" /\ call[q].op \in {"login", "change"}
        /\ UNCHANGED <<server, browser>>
        /\ call' = Reads(q, "act") \/ call' = Reads(q, "password")
    BY <1>1 DEF VerifyPassword
  <2> QED BY <1>0, <2>1, ReadingInv
<1>2. CASE ReadToken(q)
  BY <1>0, <1>2, ReadTokenInv
<1>3. ASSUME NEW t \in Tokens, StartSession(q, t) \/ Rotate(q, t) PROVE Inv'
  BY <1>0, <1>3, StartSessionInv, RotateInv
<1>4. CASE FamilySnapshot(q) \/ FamilyWrite(q)
  BY <1>0, <1>4, FamilySnapshotInv, FamilyWriteInv
<1>5. CASE RevokePresented(q)
  <2> DEFINE rows == {call[q].presented} \cap Tokens
  <2>1. \A t \in rows : Given(t)
    BY <1>5, Numbers DEF RevokePresented, Inv, CallInv, PresentsGiven
  <2>2. TokensShrink
    BY <1>5, <2>1, RevokedShrinks DEF RevokePresented
  <2> QED BY <1>0, <1>5, <2>2, AnswersInv DEF RevokePresented, browser
<1>6. CASE SnapshotForChange(q)
  BY <1>0, <1>6, TakesInv DEF SnapshotForChange, server
<1>7. CASE SnapshotForReset(q)
  <2>1. CASE call' = Takes(q)
    BY <1>0, <1>7, <2>1, TakesInv DEF SnapshotForReset
  <2>2. CASE call' = Answers(q, None)
    BY <1>0, <1>7, <2>2, AnswersInv, Unchanged DEF SnapshotForReset, browser
  <2> QED BY <1>7, <2>1, <2>2 DEF SnapshotForReset
<1>8. CASE PasswordWrite(q)
  BY <1>0, <1>8, PasswordWriteInv
<1> QED BY <1>1, <1>2, <1>3, <1>4, <1>5, <1>6, <1>7, <1>8 DEF Serves

LEMMA InitInv == Init => Inv
<1> SUFFICES ASSUME Init PROVE Inv
  OBVIOUS
<1>1. \A t \in Tokens : token[t] = NoToken
  BY DEF Init
<1>2. \A c \in Calls : call[c] = NoCall
  BY DEF Init
<1>3. Referring
  BY <1>1, NoCallTyped DEF Init, Referring, Given
<1>4. Safe
  BY <1>1, NoCallTyped
     DEF Init, Safe, OneLivePerFamily, ReuseEndsFamily, SessionsEndWithThePassword, Live
<1>5. \A c \in Calls : CallInv(c)
  BY <1>2, NoCallTyped DEF CallInv, PresentsGiven, CrossedIfGiving, HasItsRows, NoCall
<1> QED BY <1>3, <1>4, <1>5, InitTypes DEF Inv

LEMMA InvAlways == Spec => []Inv
<1>1. Inv /\ [Next]_vars => Inv'
  BY SendsInv, ServesInv, ReceiveInv, OtherStepsInv DEF Next
<1> QED BY InitInv, <1>1, PTL DEF Spec

(* Every reachable state has its type.                                      *)
THEOREM TypeCorrect == Spec => []TypeOK
BY InvAlways, PTL DEF Inv

(* However many calls present a token at once, its family has one that      *)
(* works (refresh's guarded rotation).                                      *)
THEOREM OneTokenWorks == Spec => []OneLivePerFamily
BY InvAlways, PTL DEF Inv, Safe

(* A reuse ends the family, but for a rotation that crossed the revocation  *)
(* (revokeTokenFamily).                                                     *)
THEOREM ReuseEnds == Spec => []ReuseEndsFamily
BY InvAlways, PTL DEF Inv, Safe

(* A change of password ends every session, but for what a login or a       *)
(* rotation that crossed it gave (resetPassword, changePassword).           *)
THEOREM PasswordEndsSessions == Spec => []SessionsEndWithThePassword
BY InvAlways, PTL DEF Inv, Safe

-----------------------------------------------------------------------------
(* The browser                                                              *)

(* One call of the browser at a time, and no answer lost                    *)
Honest == ~overlapped /\ ~lost

(* It works, unless the user would have to log in whatever the rotation did.*)
Lasts(t) == Live(t) \/ token[t].expired \/ token[t].under < passwords
CookieLasts == cookie # None => Lasts(cookie)

(* The calls that the browser counts, and what none but they do             *)
Own(c) == call[c].op \in OfTabs
Shape(c) ==
  /\ call[c].at = "idle" => call[c].op = "none"
  /\ call[c].at \in {"family", "familyWrite"} => call[c].op \in {"refresh", "manual"}
  /\ call[c].at \in {"password", "passwordWrite"} => ~Own(c)
  /\ ~Own(c) => call[c].given = None
  /\ call[c].under <= passwords
ShapeInv == (\A c \in Calls : Shape(c)) /\ \A t \in Tokens : token[t].under <= passwords

(* The call in flight presents the cookie, or brings the next one.          *)
Pending(c) ==
  /\ call[c].from \in Tabs
  /\ call[c].op # "login" => call[c].presented = cookie
  /\ call[c].at \in {"family", "familyWrite"} => cookie # None /\ ~Live(cookie)
  /\ call[c].at # "answer" => CookieLasts
  /\ call[c].at = "answer" => /\ call[c].given # None => Lasts(call[c].given)
                              /\ call[c].given = None /\ call[c].op # "logout" => CookieLasts

OneOwn == \A c, d \in Calls : Own(c) /\ Own(d) => c = d
BrowserInv ==
  Honest => /\ OneOwn
            /\ \A c \in Calls : Own(c) => Pending(c)
            /\ (\A c \in Calls : ~Own(c)) => CookieLasts

(* What the API does to a call leaves what the browser knows of it.         *)
Worked(q) ==
  /\ \A c \in Others(q) : Kept(c)
  /\ \A c \in Calls : /\ call'[c].op = call[c].op /\ call'[c].from = call[c].from
                      /\ call'[c].presented = call[c].presented

LEMMA StageWorks ==
  ASSUME Inv, NEW q \in Calls, NEW row \in Call, call' = [call EXCEPT ![q] = row],
         row.op = call[q].op, row.from = call[q].from, row.presented = call[q].presented
  PROVE  Worked(q) /\ call'[q] = row
<1>1. call \in [Calls -> Call]
  BY TypeOKRows DEF Inv
<1>2. \A c \in Others(q) : Kept(c) /\ call'[c] = call[c]
  BY <1>1 DEF Kept, Others
<1>3. call'[q] = row
  BY <1>1
<1> QED BY <1>2, <1>3 DEF Worked, Others

LEMMA AnswersWorks ==
  ASSUME Inv, NEW q \in Calls, NEW g \in Tokens \cup {None}, call' = Answers(q, g)
  PROVE  /\ Worked(q) /\ call'[q].at = "answer" /\ call'[q].given = g
         /\ call'[q].under = call[q].under
<1> DEFINE row == [[[call[q] EXCEPT !.at = "answer"] EXCEPT !.given = g] EXCEPT !.rows = {}]
<1>1. call[q] \in Call /\ call \in [Calls -> Call] /\ "answer" \in Stages
  BY TypeOKRows DEF Inv, Stages
<1>2. call' = [call EXCEPT ![q] = row]
  BY <1>1 DEF Answers, Call
<1>3. /\ row \in Call /\ row.at = "answer" /\ row.given = g /\ row.under = call[q].under
      /\ row.op = call[q].op /\ row.from = call[q].from /\ row.presented = call[q].presented
  BY <1>1 DEF Call
<1> HIDE DEF row
<1> QED BY <1>2, <1>3, StageWorks

LEMMA ReadsWorks ==
  ASSUME Inv, NEW q \in Calls, NEW stage \in Stages, call' = Reads(q, stage)
  PROVE  /\ Worked(q) /\ call'[q].at = stage /\ call'[q].given = call[q].given
         /\ call'[q].under = passwords
<1> DEFINE x == Revoking # {}
           row == [[[call[q] EXCEPT !.at = stage] EXCEPT !.under = passwords]
                     EXCEPT !.crossed = x]
<1>1. call[q] \in Call /\ call \in [Calls -> Call] /\ passwords \in Nat
  BY TypeOKRows DEF Inv
<1>2. call' = [call EXCEPT ![q] = row]
  BY <1>1 DEF Reads, Call
<1>3. /\ row \in Call /\ row.at = stage /\ row.given = call[q].given /\ row.under = passwords
      /\ row.op = call[q].op /\ row.from = call[q].from /\ row.presented = call[q].presented
  BY <1>1 DEF Call
<1> HIDE DEF row
<1> QED BY <1>2, <1>3, StageWorks

(* A revocation may note its rows besides.                                  *)
LEMMA RevokesWorks ==
  ASSUME Inv, NEW q \in Calls, NEW stage \in Stages, NEW rows,
         call' = Revokes(q, stage) \/ call' = [Revokes(q, stage) EXCEPT ![q].rows = rows]
  PROVE  /\ Worked(q) /\ call'[q].at = stage /\ call'[q].given = call[q].given
         /\ call'[q].under = call[q].under
<1> DEFINE row == [call[q] EXCEPT !.at = stage]
<1>1. call \in [Calls -> Call]
  BY TypeOKRows DEF Inv
<1>2. ASSUME NEW c \in Others(q)
      PROVE  Kept(c) /\ call'[c].from = call[c].from
  <2>1. call'[c] = [call[c] EXCEPT !.crossed = @ \/ call[c].at # "idle"]
    BY DEF Revokes, Others
  <2> QED BY <1>1, <2>1 DEF Kept, Call, Others
<1>3. call'[q] = row \/ call'[q] = [row EXCEPT !.rows = rows]
  <2>1. Revokes(q, stage)[q] = row
    BY DEF Revokes
  <2> QED BY <2>1 DEF Revokes
<1>4. /\ call'[q].at = stage /\ call'[q].given = call[q].given
      /\ call'[q].under = call[q].under /\ call'[q].op = call[q].op
      /\ call'[q].from = call[q].from /\ call'[q].presented = call[q].presented
  BY <1>1, <1>3 DEF Call
<1> QED BY <1>2, <1>4 DEF Worked, Others, Kept

(* The same after the step, for the token it is asked of before             *)
Works(t) == token'[t].state = "live"
GoesOn(t) == Works(t) \/ token'[t].expired \/ token'[t].under < passwords'

(* Steps that leave the calls of the browser alone                          *)
LEMMA OthersStep ==
  ASSUME Inv, BrowserInv, Honest' => Honest, UNCHANGED cookie,
         \A c \in Calls : Own(c)' => Own(c),
         \A c \in Calls : Own(c) =>
           /\ call'[c].op = call[c].op /\ call'[c].at = call[c].at
           /\ call'[c].from = call[c].from /\ call'[c].presented = call[c].presented
           /\ call'[c].given = call[c].given,
         \A t \in Tokens : (Lasts(t) => GoesOn(t)) /\ (Works(t) => Live(t))
  PROVE  BrowserInv'
<1> SUFFICES ASSUME Honest'
             PROVE  /\ OneOwn' /\ \A c \in Calls : Own(c)' => Pending(c)'
                    /\ (\A c \in Calls : ~Own(c)') => CookieLasts'
  BY Zenon DEF BrowserInv
<1>1. /\ OneOwn /\ \A c \in Calls : Own(c) => Pending(c)
      /\ (\A c \in Calls : ~Own(c)) => CookieLasts
  BY Zenon DEF BrowserInv
<1>2. \A c \in Calls : Own(c)' <=> Own(c)
  BY DEF Own
<1>3. cookie \in Tokens \cup {None} /\ \A c \in Calls : call[c].given \in Tokens \cup {None}
  BY TypeOKRows DEF Inv, Call
<1>4. CookieLasts => CookieLasts'
  BY <1>3 DEF CookieLasts, Lasts, GoesOn, Works, Live
<1>5. OneOwn'
  BY <1>1, <1>2 DEF OneOwn
<1>6. ASSUME NEW c \in Calls, Own(c)' PROVE Pending(c)'
  <2>1. Own(c) /\ Pending(c)
    BY <1>1, <1>2, <1>6
  <2>2. call[c].given # None => (Lasts(call[c].given) => GoesOn(call[c].given))
    BY <1>3
  <2>3. cookie # None => (Works(cookie) => Live(cookie))
    BY <1>3
  <2>4. /\ call'[c].op = call[c].op /\ call'[c].at = call[c].at
        /\ call'[c].from = call[c].from /\ call'[c].presented = call[c].presented
        /\ call'[c].given = call[c].given
    BY <2>1
  <2>5. CASE call[c].at = "answer"
    <3>1. call'[c].given # None => GoesOn(call'[c].given)
      BY <2>1, <2>2, <2>4, <2>5 DEF Pending
    <3>2. call'[c].given = None /\ call'[c].op # "logout" => CookieLasts'
      BY <1>4, <2>1, <2>4, <2>5 DEF Pending
    <3> QED BY <2>1, <2>4, <2>5, <3>1, <3>2 DEF Pending, GoesOn, Works, Lasts, Live
  <2>6. CASE call[c].at # "answer"
    BY <1>4, <2>1, <2>3, <2>4, <2>6 DEF Pending, Works, Live
  <2> QED BY <2>5, <2>6
<1> QED BY <1>1, <1>2, <1>4, <1>5, <1>6

(* A step of the one call of the browser, or a call that becomes it         *)
LEMMA OwnStep ==
  ASSUME BrowserInv, NEW q \in Calls, Honest' => Honest, Honest' => \A c \in Others(q) : ~Own(c)',
         Honest' /\ Own(q)' => Pending(q)', Honest' /\ ~Own(q)' => CookieLasts'
  PROVE  BrowserInv'
BY Zenon DEF BrowserInv, OneOwn, Others

LEMMA NoOthers ==
  ASSUME BrowserInv, NEW q \in Calls, Own(q), Honest
  PROVE  /\ \A c \in Others(q) : ~Own(c)
         /\ Pending(q)
BY Zenon DEF BrowserInv, OneOwn, Others

(* The shape of the calls that another's step leaves alone                  *)
LEMMA OthersShape ==
  ASSUME Inv, TypeOK', ShapeInv, passwords' >= passwords, NEW q \in Calls,
         \A c \in Others(q) : Kept(c), Shape(q)',
         \A t \in Tokens : token'[t].under <= passwords'
  PROVE  ShapeInv'
<1>0. /\ passwords \in Nat /\ passwords' \in Nat
      /\ \A c \in Calls : call[c].under \in Nat
  BY TypeOKRows DEF Inv, TypeOK, Call
<1>1. ASSUME NEW c \in Others(q) PROVE Shape(c)'
  <2>1. Kept(c) /\ Shape(c) /\ call[c].under \in Nat
    BY <1>0 DEF Others, ShapeInv
  <2> QED BY <1>0, <2>1 DEF Shape, Own, Kept
<1> QED BY <1>1 DEF ShapeInv, Others

LEMMA ShrinkUnder ==
  ASSUME Inv, TypeOK', ShapeInv, TokensShrink, passwords' >= passwords
  PROVE  \A t \in Tokens : token'[t].under <= passwords'
<1>1. \A t \in Tokens : token[t].under \in Nat /\ passwords \in Nat /\ passwords' \in Nat
  BY TypeOKRows DEF Inv, TypeOK, TokenRow
<1> QED BY <1>1 DEF ShapeInv, TokensShrink

LEMMA OwnInFlight ==
  ASSUME ShapeInv, NEW c \in Calls, Own(c)
  PROVE  c \in InFlight
BY DEF ShapeInv, Shape, Own, InFlight, OfTabs

(* A request of the browser's presents the cookie in hand.                  *)
LEMMA SendBrowser ==
  ASSUME Inv, TypeOK', ShapeInv, BrowserInv, NEW q \in Calls, NEW op \in Ops \ {"none"},
         NEW stage \in {"read", "act", "password"}, NEW from \in Tabs \cup {Elsewhere}, NEW presented,
         Send(q, op, stage, from, presented), UNCHANGED <<cookie, lost>>,
         stage = "password" => op \notin OfTabs,
         op \in OfTabs => from \in Tabs /\ (op # "login" => presented = cookie)
  PROVE  ShapeInv' /\ BrowserInv'
<1> DEFINE row == [NoCall EXCEPT !.op = op, !.at = stage, !.from = from, !.presented = presented]
<1>1. /\ call[q].at = "idle" /\ call' = [call EXCEPT ![q] = row]
      /\ UNCHANGED <<token, link, passwords, reused>>
  BY DEF Send, server
<1>2. /\ row.op = op /\ row.at = stage /\ row.presented = presented /\ row.given = None
      /\ row.from = from /\ row.under = 0
  BY DEF NoCall
<1> HIDE DEF row
<1>3. /\ call'[q] = row
      /\ \A c \in Others(q) : call'[c] = call[c] /\ Kept(c)
  <2>1. call \in [Calls -> Call]
    BY TypeOKRows DEF Inv
  <2> QED BY <1>1, <2>1, MovesKeep DEF Others
<1>4. passwords \in Nat /\ passwords' = passwords
  BY <1>1 DEF Inv, TypeOK
<1>5. ShapeInv'
  <2>1. Shape(q)'
    BY <1>2, <1>3, <1>4 DEF Shape, Own
  <2>2. \A t \in Tokens : token'[t].under <= passwords'
    BY <1>1, <1>4 DEF ShapeInv
  <2> QED BY <1>3, <1>4, <2>1, <2>2, OthersShape
<1>6. ~Own(q)
  BY <1>1 DEF ShapeInv, Shape, Own, OfTabs
<1>7. CASE op \in OfTabs
  <2>1. Honest' => Honest /\ \A c \in Calls : ~Own(c)
    <3>1. Honest' => Honest /\ ~\E c \in InFlight : call[c].op \in OfTabs
      BY <1>7, Zenon DEF Honest, Send
    <3>2. \A c \in Calls : Own(c) => c \in InFlight /\ call[c].op \in OfTabs
      BY OwnInFlight DEF Own
    <3> QED BY <3>1, <3>2, Zenon DEF InFlight
  <2>2. Honest' => \A c \in Others(q) : ~Own(c)'
    <3>1. \A c \in Others(q) : Own(c)' <=> Own(c)
      BY <1>3 DEF Own
    <3> QED BY <2>1, <3>1, Zenon DEF Others
  <2>3. Honest' => CookieLasts
    BY <2>1, Zenon DEF BrowserInv
  <2>4. CookieLasts => CookieLasts'
    BY <1>1 DEF CookieLasts, Lasts, Live
  <2>5. CookieLasts' => Pending(q)'
    BY <1>2, <1>3, <1>7 DEF Pending
  <2>6. Own(q)'
    BY <1>2, <1>3, <1>7 DEF Own
  <2> QED BY <1>5, <2>1, <2>2, <2>3, <2>4, <2>5, <2>6, OwnStep, Zenon
<1>8. CASE op \notin OfTabs
  <2>1. Honest' => Honest
    BY Zenon DEF Honest, Send
  <2>2. \A c \in Calls : Own(c)' => Own(c)
    BY <1>2, <1>3, <1>8 DEF Own, Others
  <2>3. \A c \in Calls : Own(c) => call'[c] = call[c]
    BY <1>3, <1>6 DEF Others
  <2>4. \A t \in Tokens : (Lasts(t) => GoesOn(t)) /\ (Works(t) => Live(t))
    BY <1>1 DEF Lasts, GoesOn, Works, Live
  <2>5. BrowserInv'
    BY <2>1, <2>2, <2>3, <2>4, OthersStep
  <2> QED BY <1>5, <2>5
<1> QED BY <1>7, <1>8

LEMMA LoadBrowser ==
  ASSUME Inv, TypeOK', ShapeInv, BrowserInv, NEW q \in Calls, NEW b \in Tabs, Load(q, b)
  PROVE  ShapeInv' /\ BrowserInv'
<1> DEFINE row == [NoCall EXCEPT !.op = "refresh", !.at = "read", !.from = b, !.presented = cookie]
<1>1. /\ call'[q] = row /\ UNCHANGED <<token, passwords, cookie>>
      /\ \A c \in Others(q) : call'[c] = call[c] \/ call'[c] = [call[c] EXCEPT !.from = Elsewhere]
  BY DEF Load, Others, server
<1>2. /\ row.op = "refresh" /\ row.at = "read" /\ row.presented = cookie /\ row.given = None
      /\ row.from = b /\ row.under = 0
  BY DEF NoCall
<1> HIDE DEF row
<1>3. ASSUME NEW c \in Others(q) PROVE Kept(c)
  <2>1. call[c] \in Call
    BY TypeOKRows DEF Inv, Others
  <2>2. CASE call'[c] = call[c]
    BY <2>2 DEF Kept
  <2>3. CASE call'[c] = [call[c] EXCEPT !.from = Elsewhere]
    BY <2>1, <2>3 DEF Kept, Call
  <2> QED BY <1>1, <2>2, <2>3
<1>4. passwords \in Nat /\ passwords' = passwords
  BY <1>1 DEF Inv, TypeOK
<1>5. ShapeInv'
  <2>1. Shape(q)'
    BY <1>1, <1>2, <1>4 DEF Shape, Own
  <2>2. \A t \in Tokens : token'[t].under <= passwords'
    BY <1>1, <1>4 DEF ShapeInv
  <2> QED BY <1>3, <1>4, <2>1, <2>2, OthersShape
<1>6. Honest' => Honest /\ \A c \in Calls : ~Own(c)
  <2>1. Honest' => Honest /\ ~\E c \in InFlight : call[c].op \in OfTabs
    BY Zenon DEF Honest, Load
  <2>2. \A c \in Calls : Own(c) => c \in InFlight /\ call[c].op \in OfTabs
    BY OwnInFlight DEF Own
  <2> QED BY <2>1, <2>2, Zenon DEF InFlight
<1>7. Honest' => \A c \in Others(q) : ~Own(c)'
  <2>1. \A c \in Others(q) : Own(c)' <=> Own(c)
    BY <1>3 DEF Own, Kept
  <2> QED BY <1>6, <2>1, Zenon DEF Others
<1>8. Honest' => CookieLasts
  BY <1>6, Zenon DEF BrowserInv
<1>9. CookieLasts => Pending(q)' /\ Own(q)'
  <2>1. CookieLasts => CookieLasts'
    BY <1>1 DEF CookieLasts, Lasts, Live
  <2> QED BY <1>1, <1>2, <2>1 DEF Pending, Own, OfTabs
<1> QED BY <1>5, <1>6, <1>7, <1>8, <1>9, OwnStep, Zenon

LEMMA SendsBrowser ==
  ASSUME Inv, ShapeInv, BrowserInv, NEW q \in Calls, Sends(q)
  PROVE  ShapeInv' /\ BrowserInv'
<1>0. TypeOK'
  BY SendsTypes DEF Inv
<1> USE <1>0 DEF Ops, OfTabs
<1>1. ASSUME NEW b \in Tabs, Load(q, b) PROVE ShapeInv' /\ BrowserInv'
  BY <1>1, LoadBrowser
<1>2. ASSUME NEW b \in Tabs, TimerRefresh(q, b) PROVE ShapeInv' /\ BrowserInv'
  BY <1>2, SendBrowser DEF TimerRefresh
<1>3. ASSUME NEW b \in Tabs, RefreshSession(q, b) PROVE ShapeInv' /\ BrowserInv'
  BY <1>3, SendBrowser DEF RefreshSession
<1>4. ASSUME NEW b \in Tabs, Login(q, b) PROVE ShapeInv' /\ BrowserInv'
  BY <1>4, SendBrowser DEF Login
<1>5. ASSUME NEW b \in Tabs, Logout(q, b) PROVE ShapeInv' /\ BrowserInv'
  BY <1>5, SendBrowser DEF Logout
<1>6. ASSUME NEW b \in Tabs, ChangePassword(q, b) PROVE ShapeInv' /\ BrowserInv'
  BY <1>6, SendBrowser DEF ChangePassword
<1>7. ASSUME NEW n \in Links, ResetPassword(q, n) PROVE ShapeInv' /\ BrowserInv'
  BY <1>7, SendBrowser DEF ResetPassword
<1> QED BY <1>1, <1>2, <1>3, <1>4, <1>5, <1>6, <1>7 DEF Sends

LEMMA ReceiveBrowser ==
  ASSUME Inv, ShapeInv, BrowserInv, NEW q \in Calls, Receive(q)
  PROVE  ShapeInv' /\ BrowserInv'
<1>0. /\ TypeOK' /\ call \in [Calls -> Call] /\ call[q].at = "answer" /\ Shape(q)
      /\ call' = [call EXCEPT ![q] = NoCall]
      /\ UNCHANGED <<token, link, passwords, reused, overlapped, lost>>
  BY ReceiveTypes, TypeOKRows DEF Inv, Receive, server, ShapeInv
<1>1. call'[q] = NoCall /\ \A c \in Others(q) : call'[c] = call[c] /\ Kept(c)
  BY <1>0, MovesKeep DEF Others
<1>2. passwords \in Nat /\ passwords' = passwords
  BY <1>0 DEF Inv, TypeOK
<1>3. ~Own(q)' /\ Shape(q)'
  BY <1>1, <1>2 DEF Own, OfTabs, NoCall, Shape
<1>4. ShapeInv'
  <2>1. \A t \in Tokens : token'[t].under <= passwords'
    BY <1>0, <1>2 DEF ShapeInv
  <2> QED BY <1>0, <1>1, <1>2, <1>3, <2>1, OthersShape
<1>5. Honest' <=> Honest
  BY <1>0, Zenon DEF Honest
<1>6. CASE Own(q)
  <2>1. ASSUME Honest PROVE CookieLasts'
    <3>1. Pending(q)
      BY <1>6, <2>1, NoOthers
    <3>2. call[q].from # Elsewhere
      BY <3>1, TabsAssumption DEF Pending
    <3>3. cookie' = CookieAfter(q)
      BY <3>2 DEF Receive
    <3> QED BY <1>0, <3>1, <3>3 DEF CookieAfter, Pending, CookieLasts, Lasts, Live
  <2>2. Honest => \A c \in Others(q) : ~Own(c)'
    <3>1. Honest => \A c \in Others(q) : ~Own(c)
      BY <1>6, NoOthers
    <3>2. \A c \in Others(q) : Own(c)' <=> Own(c)
      BY <1>1 DEF Own
    <3> QED BY <3>1, <3>2
  <2> QED BY <1>3, <1>4, <1>5, <2>1, <2>2, OwnStep, Zenon
<1>7. CASE ~Own(q)
  <2>1. UNCHANGED cookie
    BY <1>0, <1>7 DEF Receive, CookieAfter, Shape, Own, OfTabs
  <2>2. \A c \in Calls : Own(c)' => Own(c)
    BY <1>1, <1>3 DEF Own, Others
  <2>3. \A c \in Calls : Own(c) => call'[c] = call[c]
    BY <1>1, <1>7 DEF Others
  <2>4. \A t \in Tokens : (Lasts(t) => GoesOn(t)) /\ (Works(t) => Live(t))
    BY <1>0 DEF Lasts, GoesOn, Works, Live
  <2>5. BrowserInv'
    BY <1>5, <2>1, <2>2, <2>3, <2>4, OthersStep
  <2> QED BY <1>4, <2>5
<1> QED BY <1>6, <1>7

LEMMA LoseBrowser ==
  ASSUME Inv, ShapeInv, NEW q \in Calls, LoseAnswer(q)
  PROVE  ShapeInv' /\ BrowserInv'
<1> DEFINE row == [[call[q] EXCEPT !.given = None] EXCEPT !.from = Elsewhere]
<1>0. /\ TypeOK' /\ call \in [Calls -> Call] /\ call[q] \in Call /\ Shape(q)
      /\ passwords \in Nat /\ passwords' = passwords /\ UNCHANGED token
  BY ReceiveTypes, TypeOKRows DEF Inv, LoseAnswer, server, ShapeInv, TypeOK
<1>1. call' = [call EXCEPT ![q] = row]
  BY <1>0 DEF LoseAnswer, Call
<1>2. /\ row.given = None /\ row.op = call[q].op /\ row.at = call[q].at
      /\ row.under = call[q].under
  BY <1>0 DEF Call
<1> HIDE DEF row
<1>3. call'[q] = row /\ \A c \in Others(q) : Kept(c)
  BY <1>1, MovesKeep
<1>4. Shape(q)'
  BY <1>0, <1>2, <1>3 DEF Shape, Own
<1>5. ShapeInv'
  <2>1. \A t \in Tokens : token'[t].under <= passwords'
    BY <1>0 DEF ShapeInv
  <2> QED BY <1>0, <1>3, <1>4, <2>1, OthersShape
<1>6. ~Honest'
  BY Zenon DEF LoseAnswer, Honest
<1> QED BY <1>5, <1>6, Zenon DEF BrowserInv

LEMMA OtherStepsBrowser ==
  ASSUME Inv, ShapeInv, BrowserInv,
         (\E n \in Links : ForgotPassword(n)) \/ (\E t \in Tokens : TokenExpires(t)) \/ UNCHANGED vars
  PROVE  ShapeInv' /\ BrowserInv'
<1>1. UNCHANGED <<call, passwords, cookie, overlapped, lost>>
  BY DEF ForgotPassword, TokenExpires, vars, browser
<1>2. ASSUME NEW t \in Tokens
      PROVE  /\ token'[t].state = token[t].state /\ token'[t].under = token[t].under
             /\ Lasts(t) => GoesOn(t)
  <2>1. token \in [Tokens -> TokenRow] /\ token[t] \in TokenRow
    BY TypeOKRows DEF Inv
  <2>2. token'[t] = token[t] \/ token'[t] = [token[t] EXCEPT !.expired = TRUE]
    BY <2>1 DEF ForgotPassword, TokenExpires, vars
  <2>3. CASE token'[t] = token[t]
    BY <1>1, <2>3 DEF Lasts, GoesOn, Works, Live
  <2>4. CASE token'[t] = [token[t] EXCEPT !.expired = TRUE]
    <3>1. token'[t].state = token[t].state /\ token'[t].under = token[t].under /\ token'[t].expired
      BY <2>1, <2>4 DEF TokenRow
    <3> QED BY <3>1 DEF GoesOn
  <2> QED BY <2>2, <2>3, <2>4
<1>3. ShapeInv'
  BY <1>1, <1>2 DEF ShapeInv, Shape, Own
<1>4. Honest' <=> Honest
  BY <1>1, Zenon DEF Honest
<1>5. \A t \in Tokens : (Lasts(t) => GoesOn(t)) /\ (Works(t) => Live(t))
  BY <1>2 DEF Works, Live
<1>6. \A c \in Calls : (Own(c)' => Own(c)) /\ call'[c] = call[c]
  BY <1>1 DEF Own
<1>7. BrowserInv'
  BY <1>1, <1>4, <1>5, <1>6, OthersStep
<1> QED BY <1>3, <1>7

(* The API works on a call of the browser, and on another.                  *)
LEMMA OwnServed ==
  ASSUME Inv, TypeOK', ShapeInv, BrowserInv, NEW q \in Calls, Own(q), Worked(q),
         UNCHANGED <<passwords, cookie, overlapped, lost>>, Shape(q)',
         \A t \in Tokens : token'[t].under <= passwords',
         Pending(q) => Pending(q)'
  PROVE  ShapeInv' /\ BrowserInv'
<1>1. ShapeInv'
  <2>1. passwords' >= passwords
    BY DEF Inv, TypeOK
  <2> QED BY <2>1, OthersShape DEF Worked
<1>2. Honest' <=> Honest
  BY Zenon DEF Honest
<1>3. \A c \in Calls : Own(c)' <=> Own(c)
  BY DEF Worked, Own
<1>4. Honest => Pending(q)' /\ \A c \in Others(q) : ~Own(c)'
  BY <1>3, NoOthers DEF Others
<1> QED BY <1>1, <1>2, <1>3, <1>4, OwnStep, Zenon

LEMMA OtherServed ==
  ASSUME Inv, TypeOK', ShapeInv, BrowserInv, NEW q \in Calls, ~Own(q), Worked(q),
         UNCHANGED <<cookie, overlapped, lost>>, passwords' >= passwords, Shape(q)',
         \A t \in Tokens : /\ token'[t].under <= passwords'
                           /\ (Lasts(t) => GoesOn(t)) /\ (Works(t) => Live(t))
  PROVE  ShapeInv' /\ BrowserInv'
<1>1. ShapeInv'
  BY OthersShape DEF Worked
<1>2. Honest' <=> Honest
  BY Zenon DEF Honest
<1>3. ASSUME NEW c \in Calls
      PROVE  /\ Own(c)' => Own(c)
             /\ Own(c) => /\ call'[c].op = call[c].op /\ call'[c].at = call[c].at
                          /\ call'[c].from = call[c].from /\ call'[c].presented = call[c].presented
                          /\ call'[c].given = call[c].given
  BY DEF Worked, Own, Others, Kept
<1> QED BY <1>1, <1>2, <1>3, OthersStep

(* Without a change of the tokens, neither notices it.                      *)
LEMMA SameTokens ==
  ASSUME Inv, ShapeInv, UNCHANGED <<token, passwords>>
  PROVE  \A t \in Tokens : /\ token'[t].under <= passwords'
                           /\ (Lasts(t) => GoesOn(t)) /\ (Works(t) => Live(t))
BY DEF ShapeInv, Lasts, GoesOn, Works, Live

LEMMA RevokedRows ==
  ASSUME Inv, NEW rows, token' = Revoked(rows)
  PROVE  \A t \in Tokens : /\ token'[t].state = IF t \in rows THEN "revoked" ELSE token[t].state
                           /\ token'[t].expired = token[t].expired
                           /\ token'[t].under = token[t].under
<1> SUFFICES ASSUME NEW t \in Tokens
             PROVE  /\ token'[t].state = IF t \in rows THEN "revoked" ELSE token[t].state
                    /\ token'[t].expired = token[t].expired
                    /\ token'[t].under = token[t].under
  OBVIOUS
<1>1. token[t] \in TokenRow
  BY TypeOKRows DEF Inv
<1>2. token'[t] = IF t \in rows THEN [token[t] EXCEPT !.state = "revoked"] ELSE token[t]
  BY DEF Revoked
<1> QED BY <1>1, <1>2 DEF TokenRow

LEMMA VerifyBrowser ==
  ASSUME Inv, TypeOK', ShapeInv, BrowserInv, NEW q \in Calls, VerifyPassword(q)
  PROVE  ShapeInv' /\ BrowserInv'
<1> DEFINE stage == IF call[q].op = "login" THEN "act" ELSE "password"
<1>1. /\ call[q].at = "read" /\ call[q].op \in {"login", "change"} /\ call' = Reads(q, stage)
      /\ UNCHANGED <<token, passwords, cookie, overlapped, lost>> /\ stage \in Stages
      /\ Shape(q) /\ passwords \in Nat
  BY DEF VerifyPassword, server, browser, Stages, ShapeInv, Inv, TypeOK
<1>2. /\ Worked(q) /\ call'[q].at = stage /\ call'[q].given = call[q].given
      /\ call'[q].under = passwords
  BY <1>1, ReadsWorks
<1>3. call'[q].op = call[q].op /\ call'[q].from = call[q].from /\ call'[q].presented = call[q].presented
  BY <1>2 DEF Worked
<1>4. Shape(q)'
  BY <1>1, <1>2, <1>3 DEF Shape, Own, OfTabs
<1>5. CASE call[q].op = "login"
  <2>1. Own(q) /\ (Pending(q) => Pending(q)')
    BY <1>1, <1>2, <1>3, <1>5 DEF Own, OfTabs, Pending, CookieLasts, Lasts, Live
  <2> QED BY <1>1, <1>2, <1>4, <2>1, SameTokens, OwnServed
<1>6. CASE call[q].op = "change"
  <2>1. ~Own(q) /\ passwords' >= passwords
    BY <1>1, <1>6 DEF Own, OfTabs
  <2> QED BY <1>1, <1>2, <1>4, <2>1, SameTokens, OtherServed
<1> QED BY <1>1, <1>5, <1>6

LEMMA StartBrowser ==
  ASSUME Inv, TypeOK', ShapeInv, BrowserInv, NEW q \in Calls, NEW t \in Tokens, StartSession(q, t)
  PROVE  ShapeInv' /\ BrowserInv'
<1>1. /\ call[q].at = "act" /\ call[q].op = "login" /\ call' = Answers(q, t)
      /\ token' = [token EXCEPT ![t] = NewToken(q, t, FALSE)]
      /\ UNCHANGED <<passwords, cookie, overlapped, lost>>
      /\ Shape(q) /\ passwords \in Nat /\ t # None /\ token \in [Tokens -> TokenRow]
  BY Numbers, TypeOKRows DEF StartSession, browser, ShapeInv, Inv, TypeOK
<1>2. /\ Worked(q) /\ call'[q].at = "answer" /\ call'[q].given = t
      /\ call'[q].under = call[q].under
  BY <1>1, AnswersWorks
<1>3. call'[q].op = call[q].op /\ call'[q].from = call[q].from /\ call'[q].presented = call[q].presented
  BY <1>2 DEF Worked
<1>4. /\ token'[t].state = "live" /\ token'[t].under = call[q].under
      /\ \A u \in Tokens \ {t} : token'[u] = token[u]
  BY <1>1 DEF NewToken
<1>5. Own(q) /\ Shape(q)'
  BY <1>1, <1>2, <1>3 DEF Shape, Own, OfTabs
<1>6. \A u \in Tokens : token'[u].under <= passwords'
  BY <1>1, <1>4 DEF ShapeInv, Shape
<1>7. Pending(q) => Pending(q)'
  BY <1>1, <1>2, <1>3, <1>4 DEF Pending, Lasts, Live
<1> QED BY <1>1, <1>2, <1>5, <1>6, <1>7, OwnServed

(* A reuse is only met with a cookie that works no more.                    *)
LEMMA ReuseBrowser ==
  ASSUME Inv, TypeOK', ShapeInv, BrowserInv, NEW q \in Calls, call[q].op \in {"refresh", "manual"},
         call[q].at \in {"read", "act"}, call[q].presented # None, ~Live(call[q].presented),
         call' = Revokes(q, "family"), UNCHANGED <<token, passwords, cookie, overlapped, lost>>
  PROVE  ShapeInv' /\ BrowserInv'
<1>1. /\ Worked(q) /\ call'[q].at = "family" /\ call'[q].given = call[q].given
      /\ call'[q].under = call[q].under
  BY RevokesWorks DEF Stages
<1>2. call'[q].op = call[q].op /\ call'[q].from = call[q].from /\ call'[q].presented = call[q].presented
  BY <1>1 DEF Worked
<1>3. Own(q) /\ Shape(q)'
  BY <1>1, <1>2 DEF ShapeInv, Shape, Own, OfTabs
<1>4. Pending(q) => Pending(q)'
  BY <1>1, <1>2 DEF Pending, CookieLasts, Lasts, Live
<1> QED BY <1>1, <1>3, <1>4, SameTokens, OwnServed

(* An answer without a token, of a call that is not a logout                *)
LEMMA RefusedBrowser ==
  ASSUME Inv, TypeOK', ShapeInv, BrowserInv, NEW q \in Calls, Own(q), call[q].at # "answer",
         call' = Answers(q, None), UNCHANGED <<passwords, cookie, overlapped, lost>>,
         \A t \in Tokens : token'[t].under <= passwords',
         call[q].op # "logout" /\ Pending(q) => CookieLasts'
  PROVE  ShapeInv' /\ BrowserInv'
<1>1. /\ Worked(q) /\ call'[q].at = "answer" /\ call'[q].given = None
      /\ call'[q].under = call[q].under
  BY AnswersWorks
<1>2. call'[q].op = call[q].op /\ call'[q].from = call[q].from /\ call'[q].presented = call[q].presented
  BY <1>1 DEF Worked
<1>3. Shape(q)'
  BY <1>1, <1>2 DEF ShapeInv, Shape, Own
<1>4. Pending(q) => Pending(q)'
  BY <1>1, <1>2 DEF Pending
<1> QED BY <1>1, <1>3, <1>4, OwnServed

LEMMA ReadTokenBrowser ==
  ASSUME Inv, TypeOK', ShapeInv, BrowserInv, NEW q \in Calls, ReadToken(q)
  PROVE  ShapeInv' /\ BrowserInv'
<1> DEFINE t == call[q].presented
<1>0. /\ call[q].at = "read" /\ call[q].op \in {"refresh", "manual"} /\ Own(q)
      /\ UNCHANGED <<passwords, cookie, overlapped, lost>>
      /\ Shape(q) /\ passwords \in Nat /\ token \in [Tokens -> TokenRow]
  BY TypeOKRows DEF ReadToken, browser, ShapeInv, Inv, TypeOK, Own, OfTabs
<1>1. CASE t = None /\ call' = Answers(q, None) /\ UNCHANGED token
  <2>1. Pending(q) => CookieLasts'
    BY <1>0, <1>1 DEF Pending, CookieLasts
  <2> QED BY <1>0, <1>1, <2>1, SameTokens, RefusedBrowser
<1>2. CASE t # None /\ ~Live(t) /\ call' = Revokes(q, "family") /\ UNCHANGED token
  BY <1>0, <1>2, ReuseBrowser
<1>3. CASE /\ t # None /\ Live(t) /\ token[t].expired
           /\ token' = [token EXCEPT ![t].state = "revoked"]
           /\ call' = Answers(q, None)
  <2>1. t \in Tokens
    BY <1>0, <1>3 DEF Inv, CallInv, PresentsGiven
  <2>2. \A u \in Tokens : token'[u].under = token[u].under /\ token'[u].expired = token[u].expired
    BY <1>0, <1>3 DEF TokenRow
  <2>3. \A u \in Tokens : token'[u].under <= passwords'
    BY <1>0, <2>2 DEF ShapeInv
  <2>4. Pending(q) => CookieLasts'
    <3>1. token'[t].expired
      BY <1>3, <2>1, <2>2
    <3> QED BY <1>0, <3>1 DEF Pending, CookieLasts, Lasts
  <2> QED BY <1>0, <1>3, <2>3, <2>4, RefusedBrowser
<1>4. CASE t # None /\ call' = Reads(q, "act") /\ UNCHANGED token
  <2>1. /\ Worked(q) /\ call'[q].at = "act" /\ call'[q].given = call[q].given
        /\ call'[q].under = passwords
    BY <1>4, ReadsWorks DEF Stages
  <2>2. /\ call'[q].op = call[q].op /\ call'[q].from = call[q].from
        /\ call'[q].presented = call[q].presented
    BY <2>1 DEF Worked
  <2>3. Shape(q)'
    BY <1>0, <2>1, <2>2 DEF Shape, Own, OfTabs
  <2>4. Pending(q) => Pending(q)'
    BY <1>0, <1>4, <2>1, <2>2 DEF Pending, CookieLasts, Lasts, Live
  <2> QED BY <1>0, <1>4, <2>1, <2>3, <2>4, SameTokens, OwnServed
<1> QED BY <1>1, <1>2, <1>3, <1>4 DEF ReadToken

LEMMA RotateBrowser ==
  ASSUME Inv, TypeOK', ShapeInv, BrowserInv, NEW q \in Calls, NEW t \in Tokens, Rotate(q, t)
  PROVE  ShapeInv' /\ BrowserInv'
<1> DEFINE old == call[q].presented
           new == NewToken(q, Family(old), token[old].crossed)
<1>0. /\ call[q].at = "act" /\ call[q].op \in {"refresh", "manual"} /\ Own(q)
      /\ UNCHANGED <<passwords, cookie, overlapped, lost>>
      /\ Shape(q) /\ passwords \in Nat /\ token \in [Tokens -> TokenRow] /\ t # None
      /\ old \in Tokens /\ old # None
  BY Numbers, TypeOKRows
     DEF Rotate, browser, ShapeInv, Inv, TypeOK, Own, OfTabs, CallInv, PresentsGiven
<1>1. CASE /\ token' = [token EXCEPT ![old].state = "revoked", ![t] = new]
           /\ call' = Answers(q, t)
  <2>1. /\ Worked(q) /\ call'[q].at = "answer" /\ call'[q].given = t
        /\ call'[q].under = call[q].under
    BY <1>1, AnswersWorks
  <2>2. /\ call'[q].op = call[q].op /\ call'[q].from = call[q].from
        /\ call'[q].presented = call[q].presented
    BY <2>1 DEF Worked
  <2>3. new.state = "live" /\ new.under = call[q].under
    BY DEF NewToken
  <2>4. token'[t] = new /\ \A u \in Tokens \ {t} : token'[u].under = token[u].under
    <3> HIDE DEF new, old
    <3> QED BY <1>0, <1>1 DEF TokenRow
  <2> HIDE DEF new
  <2>5. Shape(q)'
    BY <1>0, <2>1, <2>2 DEF Shape, Own, OfTabs
  <2>6. \A u \in Tokens : token'[u].under <= passwords'
    BY <1>0, <2>3, <2>4 DEF ShapeInv, Shape
  <2>7. Pending(q) => Pending(q)'
    BY <1>0, <2>1, <2>2, <2>3, <2>4 DEF Pending, Lasts, Live
  <2> QED BY <1>0, <2>1, <2>5, <2>6, <2>7, OwnServed
<1>2. CASE ~StillLive(old) /\ call' = Revokes(q, "family") /\ UNCHANGED token
  BY <1>0, <1>2, ReuseBrowser DEF StillLive
<1> QED BY <1>1, <1>2 DEF Rotate

LEMMA FamilyBrowser ==
  ASSUME Inv, TypeOK', ShapeInv, BrowserInv, NEW q \in Calls, FamilySnapshot(q) \/ FamilyWrite(q)
  PROVE  ShapeInv' /\ BrowserInv'
<1>0. /\ call[q].at \in {"family", "familyWrite"} /\ Shape(q) /\ Own(q)
      /\ UNCHANGED <<passwords, cookie, overlapped, lost>>
      /\ call[q] \in Call /\ passwords \in Nat
  BY TypeOKRows
     DEF FamilySnapshot, FamilyWrite, server, browser, ShapeInv, Shape, Inv, TypeOK, Own, OfTabs
<1>1. CASE FamilySnapshot(q)
  <2> DEFINE row == [[call[q] EXCEPT !.at = "familyWrite"] EXCEPT !.rows = FamilyRows(q)]
  <2>1. call' = [call EXCEPT ![q] = row] /\ UNCHANGED token
    BY <1>0, <1>1, TypeOKRows DEF FamilySnapshot, Call, Inv, server
  <2>2. /\ row \in Call /\ row.at = "familyWrite" /\ row.given = call[q].given
        /\ row.presented = call[q].presented /\ row.op = call[q].op /\ row.from = call[q].from
        /\ row.under = call[q].under
    BY <1>0 DEF Call, FamilyRows, Stages
  <2> HIDE DEF row
  <2>3. call'[q] = row /\ Worked(q)
    BY <2>1, <2>2, StageWorks
  <2>4. Shape(q)' /\ (Pending(q) => Pending(q)')
    BY <1>0, <1>1, <2>1, <2>2, <2>3
       DEF FamilySnapshot, Shape, Own, Pending, CookieLasts, Lasts, Live
  <2> QED BY <1>0, <2>1, <2>3, <2>4, SameTokens, OwnServed
<1>2. CASE FamilyWrite(q)
  <2>1. call' = Answers(q, None) /\ token' = Revoked(call[q].rows)
    BY <1>2 DEF FamilyWrite
  <2>2. \A t \in Tokens : /\ token'[t].expired = token[t].expired
                          /\ token'[t].under = token[t].under
    BY <2>1, RevokedRows
  <2>3. \A t \in Tokens : token'[t].under <= passwords'
    BY <1>0, <2>2 DEF ShapeInv
  <2>4. Pending(q) => CookieLasts'
    <3>1. cookie \in Tokens \cup {None}
      BY DEF Inv, TypeOK
    <3> QED BY <1>0, <2>2, <3>1 DEF Pending, CookieLasts, Lasts, Live
  <2> QED BY <1>0, <2>1, <2>3, <2>4, RefusedBrowser
<1> QED BY <1>1, <1>2

LEMMA LogoutBrowser ==
  ASSUME Inv, TypeOK', ShapeInv, BrowserInv, NEW q \in Calls, RevokePresented(q)
  PROVE  ShapeInv' /\ BrowserInv'
<1> DEFINE rows == {call[q].presented} \cap Tokens
<1>1. /\ call[q].at = "act" /\ call[q].op = "logout" /\ Own(q)
      /\ call' = Answers(q, None) /\ token' = Revoked(rows)
      /\ UNCHANGED <<passwords, cookie, overlapped, lost>>
  BY DEF RevokePresented, browser, Own, OfTabs
<1>2. \A t \in Tokens : token'[t].under = token[t].under
  <2> HIDE DEF rows
  <2> QED BY <1>1, RevokedRows
<1>3. \A t \in Tokens : token'[t].under <= passwords'
  BY <1>1, <1>2 DEF ShapeInv
<1> QED BY <1>1, <1>3, RefusedBrowser

LEMMA TakesBrowser ==
  ASSUME Inv, TypeOK', ShapeInv, BrowserInv, NEW q \in Calls, call[q].at = "password",
         call' = Takes(q) \/ call' = Answers(q, None),
         UNCHANGED <<token, passwords, cookie, overlapped, lost>>
  PROVE  ShapeInv' /\ BrowserInv'
<1>1. Shape(q) /\ ~Own(q) /\ passwords \in Nat /\ passwords' >= passwords
  BY DEF ShapeInv, Shape, Inv, TypeOK
<1>2. /\ Worked(q) /\ call'[q].at \in {"answer", "passwordWrite"}
      /\ call'[q].under = call[q].under /\ call'[q].given = None
  <2>1. CASE call' = Takes(q)
    BY <1>1, <2>1, RevokesWorks DEF Takes, Stages, Shape
  <2>2. CASE call' = Answers(q, None)
    BY <2>2, AnswersWorks
  <2> QED BY <2>1, <2>2
<1>3. call'[q].op = call[q].op
  BY <1>2 DEF Worked
<1>4. Shape(q)'
  BY <1>1, <1>2, <1>3 DEF Shape, Own
<1> QED BY <1>1, <1>2, <1>4, SameTokens, OtherServed

(* After a change of password every token counts as ended.                  *)
LEMMA PasswordBrowser ==
  ASSUME Inv, TypeOK', ShapeInv, BrowserInv, NEW q \in Calls, PasswordWrite(q)
  PROVE  ShapeInv' /\ BrowserInv'
<1>1. /\ call[q].at = "passwordWrite" /\ token' = Revoked(call[q].rows)
      /\ passwords' = passwords + 1 /\ call' = [Revokes(q, "answer") EXCEPT ![q].rows = {}]
      /\ UNCHANGED <<cookie, overlapped, lost>>
      /\ Shape(q) /\ ~Own(q) /\ passwords \in Nat /\ call[q].under \in Nat
  BY TypeOKRows DEF PasswordWrite, browser, ShapeInv, Shape, Inv, TypeOK, Call
<1>2. /\ Worked(q) /\ call'[q].at = "answer" /\ call'[q].given = call[q].given
      /\ call'[q].under = call[q].under
  BY <1>1, RevokesWorks DEF Stages
<1>3. call'[q].op = call[q].op
  BY <1>2 DEF Worked
<1>4. Shape(q)'
  BY <1>1, <1>2, <1>3 DEF Shape, Own
<1>5. ASSUME NEW t \in Tokens
      PROVE  /\ token'[t].under <= passwords'
             /\ (Lasts(t) => GoesOn(t)) /\ (Works(t) => Live(t))
  <2>1. /\ token'[t].state = IF t \in call[q].rows THEN "revoked" ELSE token[t].state
        /\ token'[t].under = token[t].under
    BY <1>1, RevokedRows
  <2>2. token[t].under \in Nat /\ token[t].under <= passwords
    BY TypeOKRows DEF Inv, TokenRow, ShapeInv
  <2> QED BY <1>1, <2>1, <2>2 DEF GoesOn, Works, Live
<1>6. passwords' >= passwords
  BY <1>1
<1> QED BY <1>1, <1>2, <1>4, <1>5, <1>6, OtherServed

LEMMA ServesBrowser ==
  ASSUME Inv, ShapeInv, BrowserInv, NEW q \in Calls, Serves(q)
  PROVE  ShapeInv' /\ BrowserInv'
<1>0. TypeOK'
  BY ServesTypes DEF Inv, CallInv
<1>1. CASE VerifyPassword(q)
  BY <1>0, <1>1, VerifyBrowser
<1>2. CASE ReadToken(q)
  BY <1>0, <1>2, ReadTokenBrowser
<1>3. ASSUME NEW t \in Tokens, StartSession(q, t) \/ Rotate(q, t) PROVE ShapeInv' /\ BrowserInv'
  BY <1>0, <1>3, StartBrowser, RotateBrowser
<1>4. CASE FamilySnapshot(q) \/ FamilyWrite(q)
  BY <1>0, <1>4, FamilyBrowser
<1>5. CASE RevokePresented(q)
  BY <1>0, <1>5, LogoutBrowser
<1>6. CASE SnapshotForChange(q)
  BY <1>0, <1>6, TakesBrowser DEF SnapshotForChange, server, browser
<1>7. CASE SnapshotForReset(q)
  BY <1>0, <1>7, TakesBrowser DEF SnapshotForReset, browser
<1>8. CASE PasswordWrite(q)
  BY <1>0, <1>8, PasswordBrowser
<1> QED BY <1>1, <1>2, <1>3, <1>4, <1>5, <1>6, <1>7, <1>8 DEF Serves

LEMMA InitBrowser == Init => ShapeInv /\ BrowserInv
<1> SUFFICES ASSUME Init PROVE ShapeInv /\ BrowserInv
  OBVIOUS
<1>1. /\ \A t \in Tokens : token[t].under = 0
      /\ \A c \in Calls : /\ call[c].op = "none" /\ call[c].at = "idle"
                          /\ call[c].given = None /\ call[c].under = 0
      /\ cookie = None /\ passwords = 0
  BY DEF Init, NoToken, NoCall
<1>2. \A c \in Calls : ~Own(c)
  BY <1>1 DEF Own, OfTabs
<1>3. ShapeInv
  BY <1>1, <1>2 DEF ShapeInv, Shape
<1> QED BY <1>1, <1>2, <1>3 DEF BrowserInv, OneOwn, CookieLasts

(* A browser whose calls have all been answered has a cookie that lasts.    *)
LEMMA BrowserSettles == ShapeInv /\ BrowserInv => BrowserKeepsItsSession
<1> SUFFICES ASSUME ShapeInv, BrowserInv, Honest, InFlight = {}, cookie # None
             PROVE  Lasts(cookie)
  BY Zenon DEF BrowserKeepsItsSession, Honest, Lasts
<1>1. \A c \in Calls : ~Own(c)
  BY OwnInFlight
<1>2. CookieLasts
  BY <1>1, Zenon DEF BrowserInv
<1> QED BY <1>2 DEF CookieLasts

(* A browser that makes one call at a time and loses no answer stays in,    *)
(* until its token expires or the password changes (refresh, its cookie and *)
(* AuthSessionProvider).                                                    *)
THEOREM BrowserStaysIn == Spec => []BrowserKeepsItsSession
<1>1. Inv /\ ShapeInv /\ BrowserInv /\ [Next]_vars => ShapeInv' /\ BrowserInv'
  <2>1. CASE UNCHANGED vars
    BY <2>1, OtherStepsBrowser
  <2>2. ASSUME Inv, ShapeInv, BrowserInv, Next PROVE ShapeInv' /\ BrowserInv'
    BY <2>2, SendsBrowser, ServesBrowser, ReceiveBrowser, LoseBrowser, OtherStepsBrowser DEF Next
  <2> QED BY <2>1, <2>2
<1> QED BY <1>1, InvAlways, InitBrowser, BrowserSettles, PTL DEF Spec
=============================================================================
