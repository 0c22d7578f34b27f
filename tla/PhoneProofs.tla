----------------------------- MODULE PhoneProofs -----------------------------
(***************************************************************************)
(* Theorems about the phones, for any number of tenants, codes, requests,  *)
(* items and faults.  DevicePairing: a code pairs one device, the claims   *)
(* of a phone keep it from a second trial and are never owned in part, and *)
(* only pairings that cross pass the plan's limit of devices.              *)
(* DevicePresence and AndroidSyncQueue, as instances: mails follow the     *)
(* marks of the checks, and what was captured leaves the phone only once   *)
(* it is stored or its window is over.                                     *)
(***************************************************************************)
EXTENDS DevicePairing, Sequences, FiniteSetTheorems, TLAPS

-----------------------------------------------------------------------------
(* How a phone is paired: DevicePairing                                     *)

PairRow == [at : {"idle", "limit", "claim", "judge", "create", "over"},
            code : Codes \cup {"none"}, identity : SUBSET Signals, owned : BOOLEAN]
UserRow == [at : {"idle", "write"}, device : Requests \cup {"none"}]

OwnedBy(s, t) == Committed(s) /\ (claim[s].overridden \/ claim[s].owner = t)

(* A device used its code up and keeps its row.                             *)
DeviceInv ==
  /\ \A r \in Requests : device[r].code # "none" => code[device[r].code].state = "used"
  /\ \A r \in Requests : device[r].status # "none" => device[r].code # "none"
  /\ \A u \in Users : user[u].at = "write" => user[u].device \in Requests
                                              /\ device[user[u].device].status # "none"

(* What a pairing has inserted and not committed, and what it may rely on.  *)
PairInv(r) ==
  /\ pair[r].at \notin {"idle", "over"} => pair[r].code \in Codes
  /\ pair[r].at # "over" => device[r] = NoDevice
  /\ pair[r].at = "judge" \/ pair[r].owned =>
       \A s \in pair[r].identity : claim[s].owner # "nobody" /\ claim[s].by \in {r, "nobody"}
  /\ pair[r].owned =>
       /\ pair[r].at = "create"
       /\ \A s \in pair[r].identity : claim[s].overridden \/ claim[s].owner = TenantOf(r)

ClaimInv ==
  \A s \in Signals :
    /\ claim[s].owner = "nobody" => claim[s] = Unclaimed
    /\ claim[s].by # "nobody" =>
         LET r == claim[s].by
         IN  /\ pair[r].at = "judge" \/ pair[r].owned
             /\ s \in pair[r].identity
             /\ claim[s].owner = TenantOf(r) /\ ~claim[s].overridden

(* A device whose identity was enforced keeps its claims.                   *)
EnforcedInv ==
  \A r \in Requests : device[r].enforced =>
    \A s \in device[r].identity : OwnedBy(s, CodeOf[device[r].code])

(* NoPartialOwnership, with the claims of the witness committed.            *)
OwnedInFull ==
  \A s \in Signals :
    Committed(s) /\ ~claim[s].overridden =>
      \E r \in DevicesOf(claim[s].owner) :
        s \in device[r].identity /\ \A q \in device[r].identity : OwnedBy(q, claim[s].owner)

Inv == TypeOK /\ DeviceInv /\ (\A r \in Requests : PairInv(r)) /\ ClaimInv /\ EnforcedInv
         /\ OwnedInFull

USE PairingAssumption, NamesAreNone

-----------------------------------------------------------------------------
(* Types *)

LEMMA TypeOKRows ==
  TypeOK <=>
    /\ mode \in Rollouts
    /\ code \in [Codes -> PairingCode]
    /\ pair \in [Requests -> PairRow]
    /\ device \in [Requests -> Device]
    /\ claim \in [Signals -> Claim]
    /\ user \in [Users -> UserRow]
    /\ onTrial \subseteq Tenants /\ raced \subseteq Tenants
    /\ changes \in Nat
BY DEF TypeOK, PairingCode, PairRow, UserRow

LEMMA TypeOKRowsNext ==
  ASSUME mode' \in Rollouts, code' \in [Codes -> PairingCode], pair' \in [Requests -> PairRow],
         device' \in [Requests -> Device], claim' \in [Signals -> Claim],
         user' \in [Users -> UserRow], onTrial' \subseteq Tenants, raced' \subseteq Tenants,
         changes' \in Nat
  PROVE  TypeOK'
BY DEF TypeOK, PairingCode, PairRow, UserRow

LEMMA EmptyRows ==
  /\ Unclaimed \in Claim /\ Unclaimed.owner = "nobody" /\ Unclaimed.by = "nobody"
  /\ NoDevice \in Device /\ NoDevice.status = "none" /\ NoDevice.code = "none"
  /\ NoDevice.enforced = FALSE
  /\ NewPair \in PairRow /\ NewPair.at = "idle" /\ ~NewPair.owned
  /\ PairOver \in PairRow /\ PairOver.at = "over" /\ ~PairOver.owned
  /\ IdleUser \in UserRow /\ IdleUser.at = "idle"
BY DEF Unclaimed, Claim, NoDevice, NoIdentity, Device, NewPair, PairOver, PairRow, IdleUser, UserRow

LEMMA RollBackTyped ==
  ASSUME TypeOK, NEW r \in Requests
  PROVE  RollBack(r) \in [Signals -> Claim]
BY TypeOKRows, EmptyRows DEF RollBack

LEMMA IdentityTyped == \A i \in Identities : i \subseteq Signals
BY DEF Identities, NoIdentity, Signals

LEMMA GoToTyped ==
  ASSUME TypeOK, NEW r \in Requests, NEW step \in {"claim", "judge", "create"},
         GoTo(r, step) \/ (Own(r) /\ step = "create")
  PROVE  /\ pair' \in [Requests -> PairRow]
         /\ \A x \in Requests \ {r} : pair'[x] = pair[x]
         /\ pair'[r].at = step /\ pair'[r].code = pair[r].code
         /\ pair'[r].identity = pair[r].identity
         /\ pair'[r].owned = (pair[r].owned \/ Own(r))
<1>1. pair[r] \in PairRow /\ pair \in [Requests -> PairRow]
  BY TypeOKRows
<1>2. CASE GoTo(r, step) /\ ~Own(r)
  <2>1. pair' = [pair EXCEPT ![r] = [pair[r] EXCEPT !.at = step]]
    BY <1>1, <1>2 DEF GoTo
  <2>2. [pair[r] EXCEPT !.at = step] \in PairRow
    BY <1>1 DEF PairRow
  <2> QED BY <1>1, <1>2, <2>1, <2>2 DEF PairRow
<1>3. CASE Own(r) /\ step = "create"
  <2> DEFINE row == [[pair[r] EXCEPT !.at = "create"] EXCEPT !.owned = TRUE]
  <2>1. pair' = [pair EXCEPT ![r] = row]
    BY <1>1, <1>3 DEF Own, PairRow
  <2>2. row \in PairRow /\ row.at = "create" /\ row.owned = TRUE /\ row.code = pair[r].code
        /\ row.identity = pair[r].identity
    BY <1>1 DEF PairRow
  <2> HIDE DEF row
  <2> QED BY <1>1, <1>3, <2>1, <2>2
<1>4. CASE GoTo(r, step) /\ Own(r) /\ step # "create"
  BY <1>1, <1>4 DEF GoTo, Own, PairRow
<1> QED BY <1>2, <1>3, <1>4

LEMMA InitTypes == Init => TypeOK
<1> SUFFICES ASSUME Init PROVE TypeOK
  OBVIOUS
<1>1. code \in [Codes -> PairingCode]
  BY DEF Init, PairingCode
<1>2. /\ pair \in [Requests -> PairRow] /\ device \in [Requests -> Device]
      /\ claim \in [Signals -> Claim] /\ user \in [Users -> UserRow]
  BY EmptyRows DEF Init
<1> QED BY <1>1, <1>2, TypeOKRows DEF Init

(* Every step of a pairing keeps the types.                                 *)
LEMMA PairTypes ==
  ASSUME Inv, NEW r \in Requests, PairStep(r)
  PROVE  TypeOK'
<1>0. /\ pair \in [Requests -> PairRow] /\ pair[r] \in PairRow
      /\ claim \in [Signals -> Claim] /\ device \in [Requests -> Device]
      /\ code \in [Codes -> PairingCode] /\ TypeOK
      /\ raced \subseteq Tenants
  BY TypeOKRows DEF Inv
<1>1. pair[r].at \notin {"idle", "over"} => pair[r].code \in Codes /\ TenantOf(r) \in Tenants
  BY DEF Inv, PairInv, TenantOf
<1>2. ASSUME Refuse(r), UNCHANGED <<mode, user, onTrial, changes>> PROVE TypeOK'
  BY <1>0, <1>2, EmptyRows, RollBackTyped, TypeOKRows, TypeOKRowsNext DEF Refuse
<1>3. ASSUME NEW c \in Codes, NEW i \in Identities, ReadCode(r, c, i) PROVE TypeOK'
  <2> DEFINE row == [[[NewPair EXCEPT !.at = "limit"] EXCEPT !.code = c] EXCEPT !.identity = i]
  <2>1. row \in PairRow
    BY IdentityTyped, EmptyRows DEF PairRow
  <2>2. pair' = [pair EXCEPT ![r] = row]
    BY <1>3, EmptyRows DEF ReadCode, PairRow
  <2> HIDE DEF row
  <2> QED BY <1>0, <1>3, <2>1, <2>2, TypeOKRows, TypeOKRowsNext DEF ReadCode
<1>4. CASE CheckLimit(r)
  <2>1. CASE GoTo(r, "claim") /\ UNCHANGED <<code, device, claim>>
                /\ raced' = raced \cup {t \in {TenantOf(r)} : Counting(t) # {}}
    <3>1. raced' \subseteq Tenants
      BY <1>0, <1>1, <1>4, <2>1 DEF CheckLimit
    <3>2. pair' \in [Requests -> PairRow]
      BY <1>0, <2>1, GoToTyped
    <3> QED BY <1>0, <1>4, <2>1, <3>1, <3>2, TypeOKRows, TypeOKRowsNext DEF CheckLimit
  <2> QED BY <1>2, <1>4, <2>1 DEF CheckLimit
<1>5. ASSUME NEW step \in {"claim", "judge", "create"}, GoTo(r, step) \/ (Own(r) /\ step = "create"),
             UNCHANGED <<mode, code, device, user, onTrial, changes, raced>>,
             claim' \in [Signals -> Claim]
      PROVE  TypeOK'
  BY <1>0, <1>5, GoToTyped, TypeOKRows, TypeOKRowsNext
<1>6. CASE SkipClaims(r)
  BY <1>0, <1>2, <1>5, <1>6 DEF SkipClaims
<1>10. CASE RefuseSignature(r)
  BY <1>2, <1>10 DEF RefuseSignature
<1>7. CASE InsertClaims(r)
  <2>1. claim' \in [Signals -> Claim]
    <3>1. [owner |-> TenantOf(r), by |-> r, overridden |-> FALSE] \in Claim
      BY <1>1, <1>7 DEF InsertClaims, Claim
    <3> QED BY <1>0, <1>7, <3>1 DEF InsertClaims
  <2> QED BY <1>5, <1>7, <2>1 DEF InsertClaims
<1>8. CASE JudgeClaims(r)
  <2>1. Observed(r) \in [Signals -> Claim]
    BY <1>0, RollBackTyped DEF Observed
  <2> QED BY <1>0, <1>2, <1>5, <1>8, <2>1 DEF JudgeClaims
<1>9. CASE CreateDevice(r)
  <2>1. CASE /\ device' = [device EXCEPT ![r] = PairedDevice(r)]
             /\ code' = [code EXCEPT ![pair[r].code].state = "used"]
             /\ claim' = [s \in Signals |->
                            IF s \in InsertedBy(r) THEN [claim[s] EXCEPT !.by = "nobody"]
                            ELSE claim[s]]
             /\ pair' = [pair EXCEPT ![r] = PairOver]
             /\ UNCHANGED raced
    <3>1. PairedDevice(r) \in Device
      BY <1>0, <1>1, <1>9 DEF CreateDevice, PairedDevice, Device, PairRow
    <3>2. code' \in [Codes -> PairingCode]
      <4>1. [code[pair[r].code] EXCEPT !.state = "used"] \in PairingCode
        BY <1>0, <1>1, <1>9 DEF CreateDevice, PairingCode
      <4>2. code' = [code EXCEPT ![pair[r].code] = [code[pair[r].code] EXCEPT !.state = "used"]]
        BY <2>1
      <4> QED BY <1>0, <4>1, <4>2
    <3>3. claim' \in [Signals -> Claim]
      BY <1>0, <2>1 DEF Claim
    <3>4. pair' \in [Requests -> PairRow] /\ device' \in [Requests -> Device]
      BY <1>0, <2>1, <3>1, EmptyRows
    <3> QED BY <1>0, <1>9, <2>1, <3>2, <3>3, <3>4, TypeOKRows, TypeOKRowsNext DEF CreateDevice
  <2> QED BY <1>2, <1>9, <2>1 DEF CreateDevice
<1> QED BY <1>3, <1>4, <1>6, <1>7, <1>8, <1>9, <1>10 DEF PairStep

-----------------------------------------------------------------------------
(* What a pairing's step does to the invariant                              *)

(* A request that moves on, without a write to the tables.                  *)
LEMMA MovesInv ==
  ASSUME Inv, TypeOK', NEW r \in Requests, UNCHANGED <<code, device, claim, user>>,
         \A x \in Requests \ {r} : pair'[x] = pair[x],
         PairInv(r)',
         \A s \in InsertedBy(r) : /\ pair'[r].at = "judge" \/ pair'[r].owned
                                  /\ s \in pair'[r].identity
                                  /\ pair'[r].code = pair[r].code
  PROVE  Inv'
<1>1. DeviceInv' /\ EnforcedInv' /\ OwnedInFull'
  BY DEF Inv, DeviceInv, EnforcedInv, OwnedInFull, OwnedBy, Committed, DevicesOf
<1>2. ASSUME NEW x \in Requests \ {r} PROVE PairInv(x)'
  BY <1>2 DEF Inv, PairInv, TenantOf
<1>3. ClaimInv'
  <2>1. ASSUME NEW s \in Signals, claim[s].by # "nobody"
        PROVE  LET x == claim[s].by
               IN  /\ pair'[x].at = "judge" \/ pair'[x].owned
                   /\ s \in pair'[x].identity
                   /\ claim[s].owner = CodeOf[pair'[x].code] /\ ~claim[s].overridden
    <3>1. claim[s].by \in Requests
      BY <2>1, TypeOKRows DEF Inv, Claim
    <3>2. CASE claim[s].by = r
      BY <2>1, <3>2 DEF Inv, ClaimInv, InsertedBy, TenantOf
    <3>3. CASE claim[s].by # r
      BY <2>1, <3>1, <3>3 DEF Inv, ClaimInv, TenantOf
    <3> QED BY <3>2, <3>3
  <2> QED BY <2>1 DEF Inv, ClaimInv, TenantOf
<1> QED BY <1>1, <1>2, <1>3 DEF Inv

(* A request whose claims are rolled back.                                  *)
LEMMA RollsBackInv ==
  ASSUME Inv, TypeOK', NEW r \in Requests, UNCHANGED <<code, device, user>>,
         claim' = RollBack(r),
         \A x \in Requests \ {r} : pair'[x] = pair[x],
         pair'[r].at = "over" \/ (pair'[r].at = "create" /\ pair[r].at = "judge"
                                     /\ pair'[r].code = pair[r].code),
         ~pair'[r].owned
  PROVE  Inv'
<1>0. /\ claim \in [Signals -> Claim] /\ ClaimInv /\ DeviceInv /\ EnforcedInv /\ OwnedInFull
      /\ \A x \in Requests : PairInv(x)
      /\ device \in [Requests -> Device] /\ pair \in [Requests -> PairRow]
  BY TypeOKRows DEF Inv
<1>1. ASSUME NEW s \in Signals
      PROVE  /\ claim[s].by = r => claim'[s] = Unclaimed
             /\ claim[s].by # r => claim'[s] = claim[s]
             /\ Committed(s) => Committed(s)' /\ claim'[s] = claim[s]
             /\ Committed(s)' => Committed(s) /\ claim'[s] = claim[s]
  BY EmptyRows DEF RollBack, InsertedBy, Committed
<1>2. DeviceInv'
  BY <1>0 DEF DeviceInv
<1>3. EnforcedInv'
  BY <1>0, <1>1 DEF EnforcedInv, Device, OwnedBy
<1>4. OwnedInFull'
  <2>1. ASSUME NEW s \in Signals, Committed(s)', ~claim'[s].overridden
        PROVE  (\E x \in DevicesOf(claim[s].owner) :
                  s \in device[x].identity
                    /\ \A q \in device[x].identity : OwnedBy(q, claim[s].owner))'
    <3>1. PICK x \in DevicesOf(claim[s].owner) :
            s \in device[x].identity
              /\ \A q \in device[x].identity : OwnedBy(q, claim[s].owner)
      BY <1>0, <1>1, <2>1 DEF OwnedInFull
    <3>2. x \in Requests /\ device[x].identity \subseteq Signals
      BY <1>0 DEF DevicesOf, Device
    <3>3. claim'[s] = claim[s]
      BY <1>1, <2>1
    <3>4. \A q \in device[x].identity : (OwnedBy(q, claim[s].owner))'
      BY <1>1, <3>1, <3>2, <3>3 DEF OwnedBy, Committed
    <3> QED BY <3>1, <3>3, <3>4 DEF DevicesOf
  <2> QED BY <2>1 DEF OwnedInFull
<1>5. ASSUME NEW x \in Requests PROVE PairInv(x)'
  <2>0. pair[x].identity \subseteq Signals
    BY <1>0 DEF PairRow
  <2>1. CASE x = r
    BY <1>0, <2>1, EmptyRows DEF PairInv
  <2>2. CASE x # r
    BY <1>0, <1>1, <2>0, <2>2, NamesAreNone DEF PairInv, TenantOf
  <2> QED BY <2>1, <2>2
<1>6. ClaimInv'
  <2>1. ASSUME NEW s \in Signals, claim'[s].by # "nobody"
        PROVE  claim[s].by # r /\ claim'[s] = claim[s] /\ claim[s].by \in Requests \ {r}
    BY <1>0, <1>1, <2>1, EmptyRows DEF Claim
  <2> QED BY <1>0, <1>1, <2>1 DEF ClaimInv, TenantOf
<1> QED BY <1>2, <1>3, <1>4, <1>5, <1>6 DEF Inv

(* Claims nobody had become the request's, until it commits.                *)
LEMMA InsertInv ==
  ASSUME Inv, TypeOK', NEW r \in Requests, InsertClaims(r)
  PROVE  Inv'
<1> DEFINE new == {s \in pair[r].identity : claim[s].owner = "nobody"}
           t == TenantOf(r)
<1>0. /\ claim \in [Signals -> Claim] /\ ClaimInv /\ DeviceInv /\ EnforcedInv /\ OwnedInFull
      /\ \A x \in Requests : PairInv(x)
      /\ device \in [Requests -> Device] /\ pair \in [Requests -> PairRow]
      /\ pair[r].identity \subseteq Signals /\ ~pair[r].owned
      /\ t \in Tenants /\ pair[r].at = "claim" /\ pair[r].code \in Codes
  BY TypeOKRows DEF Inv, InsertClaims, PairInv, PairRow, TenantOf
<1>1. /\ UNCHANGED <<code, device, user>>
      /\ \A s \in pair[r].identity : claim[s].by = "nobody"
      /\ claim' = [s \in Signals |->
                     IF s \in new THEN [owner |-> t, by |-> r, overridden |-> FALSE] ELSE claim[s]]
  BY DEF InsertClaims
<1>2. /\ \A x \in Requests \ {r} : pair'[x] = pair[x]
      /\ pair'[r].code = pair[r].code /\ pair'[r].identity = pair[r].identity
      /\ \/ new = pair[r].identity /\ pair'[r].at = "create" /\ pair'[r].owned
         \/ pair'[r].at = "judge" /\ ~pair'[r].owned
  <2>1. CASE AllInserted(r, new)
    <3>1. Own(r)
      BY <2>1 DEF InsertClaims
    <3> QED BY <1>0, <2>1, <3>1, GoToTyped DEF AllInserted, Inv
  <2>2. CASE ~AllInserted(r, new)
    <3>1. GoTo(r, "judge")
      BY <2>2 DEF InsertClaims
    <3>2. pair' = [pair EXCEPT ![r] = [pair[r] EXCEPT !.at = "judge"]]
      BY <1>0, <3>1 DEF GoTo
    <3>3. pair[r] \in PairRow
      BY <1>0
    <3> QED BY <1>0, <3>2, <3>3 DEF PairRow
  <2> QED BY <2>1, <2>2
<1>3. ASSUME NEW s \in Signals
      PROVE  /\ s \in new => claim'[s].owner = t /\ claim'[s].by = r /\ ~claim'[s].overridden
                              /\ ~Committed(s)
             /\ s \notin new => claim'[s] = claim[s]
             /\ Committed(s)' <=> Committed(s) /\ claim'[s] = claim[s]
  BY <1>0, <1>1 DEF Committed
<1> HIDE DEF new, t
<1>4. DeviceInv' /\ EnforcedInv'
  BY <1>0, <1>1, <1>3 DEF DeviceInv, EnforcedInv, OwnedBy, Device, Committed
<1>5. OwnedInFull'
  <2>1. ASSUME NEW s \in Signals, Committed(s)', ~claim'[s].overridden
        PROVE  (\E x \in DevicesOf(claim[s].owner) :
                  s \in device[x].identity
                    /\ \A q \in device[x].identity : OwnedBy(q, claim[s].owner))'
    <3>1. claim'[s] = claim[s] /\ Committed(s)
      BY <1>3, <2>1
    <3>2. PICK x \in DevicesOf(claim[s].owner) :
            s \in device[x].identity
              /\ \A q \in device[x].identity : OwnedBy(q, claim[s].owner)
      BY <1>0, <2>1, <3>1 DEF OwnedInFull
    <3>3. x \in Requests /\ device[x].identity \subseteq Signals
      BY <1>0 DEF DevicesOf, Device
    <3>4. \A q \in device[x].identity : (OwnedBy(q, claim[s].owner))'
      BY <1>3, <3>1, <3>2, <3>3 DEF OwnedBy, Committed
    <3> QED BY <1>1, <3>1, <3>2, <3>4 DEF DevicesOf
  <2> QED BY <2>1 DEF OwnedInFull
<1>6. ASSUME NEW x \in Requests PROVE PairInv(x)'
  <2>1. CASE x = r
    <3>1. pair'[r].code \in Codes /\ device'[r] = NoDevice
      BY <1>0, <1>1, <1>2 DEF PairInv
    <3>2. \A s \in pair[r].identity :
            /\ claim'[s].owner # "nobody" /\ claim'[s].by \in {r, "nobody"}
            /\ s \in new => claim'[s].owner = t
      BY <1>0, <1>1, <1>3, NamesAreNone DEF new
    <3>3. t = CodeOf[pair'[r].code]
      BY <1>2 DEF t, TenantOf
    <3> QED BY <1>2, <2>1, <3>1, <3>2, <3>3 DEF PairInv, TenantOf
  <2>2. CASE x # r
    <3>1. \A s \in pair[x].identity : claim[s].owner # "nobody" => claim'[s] = claim[s]
      BY <1>0, <1>3 DEF new, PairRow
    <3>2. PairInv(x) /\ pair'[x] = pair[x] /\ device'[x] = device[x]
      BY <1>0, <1>1, <1>2, <2>2
    <3>3. \A s \in pair[x].identity :
            pair[x].at = "judge" \/ pair[x].owned => claim'[s] = claim[s]
      BY <3>1, <3>2 DEF PairInv
    <3> QED BY <3>2, <3>3 DEF PairInv, TenantOf
  <2> QED BY <2>1, <2>2
<1>7. ClaimInv'
  <2>1. ASSUME NEW s \in Signals, s \in new PROVE ~(claim'[s].owner = "nobody")
                 /\ claim'[s].by = r /\ s \in pair'[r].identity /\ claim'[s].owner = TenantOf(r)'
    BY <1>0, <1>2, <1>3, <2>1, NamesAreNone DEF new, t, TenantOf
  <2>2. ASSUME NEW s \in Signals, s \notin new, claim[s].by # "nobody"
        PROVE  claim[s].by \in Requests \ {r}
    BY <1>0, <2>2 DEF ClaimInv, Claim
  <2> QED BY <1>0, <1>2, <1>3, <2>1, <2>2 DEF ClaimInv, TenantOf
<1> QED BY <1>4, <1>5, <1>6, <1>7 DEF Inv

(* The commit of a pairing: the claims it inserted are all of its phone's.  *)
LEMMA PairedInv ==
  ASSUME Inv, TypeOK', NEW r \in Requests, pair[r].at = "create",
         StillUnused(pair[r].code),
         device' = [device EXCEPT ![r] = PairedDevice(r)],
         code' = [code EXCEPT ![pair[r].code].state = "used"],
         claim' = [s \in Signals |->
                     IF s \in InsertedBy(r) THEN [claim[s] EXCEPT !.by = "nobody"] ELSE claim[s]],
         pair' = [pair EXCEPT ![r] = PairOver],
         UNCHANGED user
  PROVE  Inv'
<1> DEFINE c == pair[r].code
           t == TenantOf(r)
<1>0. /\ claim \in [Signals -> Claim] /\ ClaimInv /\ DeviceInv /\ EnforcedInv /\ OwnedInFull
      /\ \A x \in Requests : PairInv(x)
      /\ device \in [Requests -> Device] /\ pair \in [Requests -> PairRow]
      /\ code \in [Codes -> PairingCode]
      /\ pair[r].identity \subseteq Signals
      /\ t \in Tenants /\ c \in Codes /\ code[c].state = "open"
      /\ device[r] = NoDevice
  BY TypeOKRows DEF Inv, PairInv, PairRow, TenantOf, StillUnused
<1>1. /\ PairedDevice(r).status = "ACTIVE" /\ PairedDevice(r).code = c
      /\ PairedDevice(r).identity = pair[r].identity
      /\ PairedDevice(r).enforced => pair[r].owned
      /\ device'[r] = PairedDevice(r) /\ \A x \in Requests \ {r} : device'[x] = device[x]
  BY <1>0 DEF PairedDevice, PairRow
<1>2. /\ code'[c].state = "used" /\ \A d \in Codes : code[d].state = "used" => code'[d].state = "used"
      /\ pair'[r] = PairOver /\ \A x \in Requests \ {r} : pair'[x] = pair[x]
  <2>1. code[c] \in PairingCode
    BY <1>0
  <2> QED BY <1>0, <2>1 DEF PairingCode
<1>3. ASSUME NEW s \in Signals
      PROVE  /\ claim'[s].owner = claim[s].owner /\ claim'[s].overridden = claim[s].overridden
             /\ claim[s].by = r => claim'[s].by = "nobody"
             /\ claim[s].by # r => claim'[s] = claim[s]
             /\ Committed(s) => Committed(s)'
  <2>1. claim[s] \in Claim
    BY <1>0
  <2> QED BY <1>0, <2>1 DEF InsertedBy, Claim, Committed
<1>4. PICK tenant \in Tenants : tenant = t /\ tenant = CodeOf[c]
  BY <1>0 DEF TenantOf
<1>5. ASSUME pair[r].owned, NEW s \in pair[r].identity PROVE OwnedBy(s, tenant)'
  <2>1. /\ claim[s].owner # "nobody" /\ claim[s].by \in {r, "nobody"}
        /\ claim[s].overridden \/ claim[s].owner = tenant
    BY <1>0, <1>4, <1>5 DEF PairInv
  <2>2. claim'[s].by = "nobody" /\ claim'[s].owner = claim[s].owner
          /\ claim'[s].overridden = claim[s].overridden
    BY <1>0, <1>3, <1>5, <2>1
  <2> QED BY <2>1, <2>2 DEF OwnedBy, Committed
<1> HIDE DEF c, t
<1>7. DeviceInv'
  <2>1. ASSUME NEW x \in Requests, device'[x].code # "none"
        PROVE  code'[device'[x].code].state = "used"
    <3>1. CASE x = r
      BY <1>1, <1>2, <3>1 DEF c
    <3>2. CASE x # r
      <4>1. device[x].code \in Codes
        BY <1>0, <1>1, <2>1, <3>2 DEF Device
      <4> QED BY <1>0, <1>1, <1>2, <2>1, <3>2, <4>1 DEF DeviceInv
    <3> QED BY <3>1, <3>2
  <2>2. ASSUME NEW x \in Requests, device'[x].status # "none" PROVE device'[x].code # "none"
    BY <1>0, <1>1, <2>2, NamesAreNone DEF DeviceInv
  <2>3. ASSUME NEW u \in Users, user[u].at = "write"
        PROVE  user[u].device \in Requests /\ device'[user[u].device].status # "none"
    BY <1>0, <1>1, <2>3 DEF DeviceInv
  <2> QED BY <2>1, <2>2, <2>3 DEF DeviceInv
<1>8. EnforcedInv'
  <2>1. ASSUME NEW x \in Requests, device'[x].enforced, NEW s \in device'[x].identity
        PROVE  (OwnedBy(s, CodeOf[device[x].code]))'
    <3>1. CASE x = r
      BY <1>1, <1>4, <1>5, <2>1, <3>1 DEF OwnedBy, Committed
    <3>2. CASE x # r
      <4>1. s \in Signals /\ device'[x] = device[x] /\ OwnedBy(s, CodeOf[device[x].code])
        BY <1>0, <1>1, <2>1, <3>2 DEF EnforcedInv, Device
      <4> QED BY <1>3, <4>1 DEF OwnedBy, Committed
    <3> QED BY <3>1, <3>2
  <2> QED BY <2>1 DEF EnforcedInv
<1>9. OwnedInFull'
  <2>1. ASSUME NEW s \in Signals, Committed(s)', ~claim'[s].overridden
        PROVE  (\E x \in DevicesOf(claim[s].owner) :
                  s \in device[x].identity
                    /\ \A q \in device[x].identity : OwnedBy(q, claim[s].owner))'
    <3>1. CASE claim[s].by = r
      <4>1. /\ pair[r].owned /\ s \in pair[r].identity /\ claim[s].owner = tenant
        BY <1>0, <1>4, <3>1, NamesAreNone DEF ClaimInv, t
      <4>2. claim'[s].owner = tenant
        BY <1>3, <4>1
      <4>3. r \in DevicesOf(tenant)' /\ s \in device'[r].identity
        BY <1>1, <1>4, <4>1, NamesAreNone DEF DevicesOf
      <4>4. \A q \in device'[r].identity : (OwnedBy(q, claim[s].owner))'
        BY <1>1, <1>5, <4>1, <4>2 DEF OwnedBy, Committed
      <4> QED BY <4>2, <4>3, <4>4 DEF DevicesOf
    <3>2. CASE claim[s].by # r
      <4>1. claim'[s] = claim[s] /\ Committed(s)
        BY <1>3, <2>1, <3>2 DEF Committed
      <4>2. PICK x \in DevicesOf(claim[s].owner) :
              s \in device[x].identity /\ \A q \in device[x].identity : OwnedBy(q, claim[s].owner)
        BY <1>0, <2>1, <4>1 DEF OwnedInFull
      <4>3. /\ x \in Requests \ {r} /\ device[x].identity \subseteq Signals
            /\ device'[x] = device[x]
        BY <1>0, <1>1, EmptyRows DEF DevicesOf, Device
      <4>4. \A q \in device'[x].identity : (OwnedBy(q, claim[s].owner))'
        BY <1>3, <4>1, <4>2, <4>3 DEF OwnedBy, Committed
      <4>5. x \in DevicesOf(claim[s].owner)'
        BY <4>1, <4>2, <4>3 DEF DevicesOf
      <4> QED BY <4>2, <4>3, <4>4, <4>5
    <3> QED BY <3>1, <3>2
  <2> QED BY <2>1 DEF OwnedInFull
<1>10. ASSUME NEW x \in Requests PROVE PairInv(x)'
  <2>1. CASE x = r
    BY <1>2, <2>1, EmptyRows DEF PairInv
  <2>2. CASE x # r
    <3>1. PairInv(x) /\ pair'[x] = pair[x] /\ device'[x] = device[x]
            /\ pair[x].identity \subseteq Signals
      BY <1>0, <1>1, <1>2, <2>2 DEF PairRow
    <3>2. \A s \in pair[x].identity :
            pair[x].at = "judge" \/ pair[x].owned => claim'[s] = claim[s]
      <4>1. ASSUME NEW s \in pair[x].identity, pair[x].at = "judge" \/ pair[x].owned
            PROVE  s \in Signals /\ claim[s].by # r
        BY <2>2, <3>1, <4>1, NamesAreNone DEF PairInv
      <4> QED BY <1>3, <4>1
    <3> QED BY <3>1, <3>2 DEF PairInv, TenantOf
  <2> QED BY <2>1, <2>2
<1>11. ClaimInv'
  <2>1. ASSUME NEW s \in Signals, claim[s].by # r
        PROVE  claim'[s] = claim[s] /\ claim[s].by \in (Requests \ {r}) \cup {"nobody"}
    BY <1>0, <1>3, <2>1 DEF Claim
  <2>2. ASSUME NEW s \in Signals, claim[s].by = r
        PROVE  claim'[s].owner # "nobody" /\ claim'[s].by = "nobody"
    BY <1>0, <1>3, <2>2, NamesAreNone, EmptyRows DEF ClaimInv
  <2> QED BY <1>0, <1>2, <2>1, <2>2 DEF ClaimInv, TenantOf
<1> QED BY <1>7, <1>8, <1>9, <1>10, <1>11 DEF Inv

LEMMA PairStepInv ==
  ASSUME Inv, NEW r \in Requests, PairStep(r)
  PROVE  Inv'
<1>0. /\ TypeOK' /\ PairInv(r) /\ ClaimInv /\ pair[r] \in PairRow /\ TypeOK
      /\ pair \in [Requests -> PairRow]
  BY PairTypes, TypeOKRows DEF Inv
<1>1. ASSUME Refuse(r), UNCHANGED user PROVE Inv'
  <2>1. /\ pair'[r].at = "over" /\ ~pair'[r].owned
        /\ \A x \in Requests \ {r} : pair'[x] = pair[x]
    BY <1>0, <1>1, EmptyRows DEF Refuse
  <2> QED BY <1>0, <1>1, <2>1, RollsBackInv DEF Refuse
<1>2. pair[r].at \in {"idle", "limit", "claim"} => ~pair[r].owned /\ InsertedBy(r) = {}
  BY <1>0, NamesAreNone DEF PairInv, ClaimInv, InsertedBy
<1>3. ASSUME NEW c \in Codes, NEW i \in Identities, ReadCode(r, c, i) PROVE Inv'
  <2> DEFINE row == [[[NewPair EXCEPT !.at = "limit"] EXCEPT !.code = c] EXCEPT !.identity = i]
  <2>1. pair' = [pair EXCEPT ![r] = row]
    BY <1>3, EmptyRows DEF ReadCode, PairRow
  <2>2. row.at = "limit" /\ row.code = c /\ ~row.owned
    BY EmptyRows DEF PairRow
  <2>3. pair'[r] = row /\ \A x \in Requests \ {r} : pair'[x] = pair[x]
    BY <1>0, <2>1
  <2> HIDE DEF row
  <2>4. PairInv(r)'
    BY <1>0, <1>3, <2>2, <2>3 DEF PairInv, ReadCode
  <2> QED BY <1>0, <1>2, <1>3, <2>3, <2>4, MovesInv DEF ReadCode
<1>4. ASSUME pair[r].at \in {"limit", "claim"}, NEW step \in {"claim", "create"}, GoTo(r, step),
             UNCHANGED <<code, device, claim, user>>
      PROVE  Inv'
  <2>1. /\ \A x \in Requests \ {r} : pair'[x] = pair[x]
        /\ pair'[r].at = step /\ pair'[r].code = pair[r].code /\ ~pair'[r].owned
    <3>1. pair' = [pair EXCEPT ![r] = [pair[r] EXCEPT !.at = step]]
      BY <1>0, <1>4 DEF GoTo
    <3> QED BY <1>0, <1>2, <1>4, <3>1 DEF PairRow
  <2>2. PairInv(r)'
    BY <1>0, <1>4, <2>1 DEF PairInv
  <2> QED BY <1>0, <1>2, <1>4, <2>1, <2>2, MovesInv
<1>5. CASE CheckLimit(r)
  BY <1>1, <1>4, <1>5 DEF CheckLimit
<1>6. CASE SkipClaims(r)
  BY <1>1, <1>4, <1>6 DEF SkipClaims
<1>10. CASE RefuseSignature(r)
  BY <1>1, <1>10 DEF RefuseSignature
<1>7. CASE InsertClaims(r)
  BY <1>0, <1>7, InsertInv
<1>8. CASE JudgeClaims(r)
  <2>0. pair[r].at = "judge" /\ ~pair[r].owned /\ UNCHANGED user
    BY <1>0, <1>8 DEF JudgeClaims, PairInv
  <2>1. CASE Conflicting(r) = {} /\ Own(r) /\ UNCHANGED <<code, device, claim, raced>>
    <3>1. /\ pair'[r].at = "create" /\ pair'[r].code = pair[r].code /\ pair'[r].owned
          /\ pair'[r].identity = pair[r].identity
          /\ \A x \in Requests \ {r} : pair'[x] = pair[x]
      BY <1>0, <2>1, GoToTyped
    <3>2. PairInv(r)'
      BY <1>0, <2>0, <2>1, <3>1 DEF PairInv, Conflicting, TenantOf
    <3>3. \A s \in InsertedBy(r) : s \in pair'[r].identity
      BY <1>0, <3>1, NamesAreNone DEF InsertedBy, ClaimInv
    <3> QED BY <1>0, <2>0, <2>1, <3>1, <3>2, <3>3, MovesInv
  <2>2. CASE claim' = Observed(r) /\ GoTo(r, "create") /\ UNCHANGED <<code, device, raced>>
    <3>1. pair' = [pair EXCEPT ![r] = [pair[r] EXCEPT !.at = "create"]]
      BY <1>0, <2>2 DEF GoTo
    <3>2. /\ pair'[r].at = "create" /\ pair'[r].code = pair[r].code /\ ~pair'[r].owned
          /\ \A x \in Requests \ {r} : pair'[x] = pair[x]
      BY <1>0, <2>0, <3>1 DEF PairRow
    <3> QED BY <1>0, <2>0, <2>2, <3>2, RollsBackInv DEF Observed
  <2> QED BY <1>1, <1>8, <2>0, <2>1, <2>2 DEF JudgeClaims
<1>9. CASE CreateDevice(r)
  BY <1>0, <1>1, <1>9, PairedInv DEF CreateDevice
<1> QED BY <1>3, <1>5, <1>6, <1>7, <1>8, <1>9, <1>10 DEF PairStep

-----------------------------------------------------------------------------
(* The other steps                                                          *)

(* Codes, devices that change status, users and plans                       *)
LEMMA StatusInv ==
  ASSUME Inv, TypeOK', UNCHANGED <<pair, claim>>,
         \A c \in Codes : code[c].state = "used" => code'[c].state = "used",
         \A r \in Requests :
           /\ device'[r] = device[r]
                \/ (device[r].status # "none" /\ device'[r].status # "none")
           /\ device'[r].code = device[r].code /\ device'[r].identity = device[r].identity
           /\ device'[r].enforced = device[r].enforced,
         \A u \in Users : user'[u].at = "write" =>
           user'[u].device \in Requests /\ device[user'[u].device].status # "none"
  PROVE  Inv'
<1>0. device \in [Requests -> Device]
  BY TypeOKRows DEF Inv
<1>1. DeviceInv'
  BY <1>0, NamesAreNone DEF Inv, DeviceInv, Device
<1>2. \A r \in Requests : PairInv(r)'
  BY EmptyRows DEF Inv, PairInv, TenantOf
<1>3. ClaimInv' /\ EnforcedInv'
  BY DEF Inv, ClaimInv, EnforcedInv, OwnedBy, Committed, TenantOf
<1>4. OwnedInFull'
  BY DEF Inv, OwnedInFull, OwnedBy, Committed, DevicesOf
<1> QED BY <1>1, <1>2, <1>3, <1>4 DEF Inv

LEMMA OverrideInv ==
  ASSUME Inv, NEW s \in Signals, NEW t \in Tenants, OverrideClaim(s, t)
  PROVE  Inv'
<1> DEFINE row == [[claim[s] EXCEPT !.owner = t] EXCEPT !.overridden = TRUE]
<1>0. /\ claim \in [Signals -> Claim] /\ claim[s] \in Claim /\ TypeOK
      /\ device \in [Requests -> Device] /\ pair \in [Requests -> PairRow]
      /\ claim[s].by = "nobody" /\ claim[s].owner # "nobody"
      /\ ClaimInv /\ EnforcedInv /\ OwnedInFull /\ \A r \in Requests : PairInv(r)
  BY TypeOKRows DEF Inv, OverrideClaim, Committed
<1>1. /\ claim' = [claim EXCEPT ![s] = row]
      /\ UNCHANGED <<mode, code, pair, device, user, onTrial, raced>>
  BY <1>0 DEF OverrideClaim, Claim
<1>2. /\ row \in Claim /\ row.owner = t /\ row.overridden = TRUE /\ row.by = "nobody"
      /\ row.owner # "nobody"
  BY <1>0, NamesAreNone DEF Claim
<1> HIDE DEF row
<1>3. TypeOK'
  <2>1. claim' \in [Signals -> Claim]
    BY <1>0, <1>1, <1>2
  <2>2. changes' \in Nat
    BY <1>0, TypeOKRows DEF OverrideClaim, Change
  <2> QED BY <1>0, <1>1, <2>1, <2>2, TypeOKRows, TypeOKRowsNext
<1>4. /\ claim'[s] = row /\ \A q \in Signals \ {s} : claim'[q] = claim[q]
  BY <1>0, <1>1
<1>5. DeviceInv'
  BY <1>1 DEF Inv, DeviceInv
<1>6. ASSUME NEW r \in Requests PROVE PairInv(r)'
  BY <1>0, <1>1, <1>2, <1>4 DEF PairInv, TenantOf, PairRow
<1>7. ClaimInv'
  BY <1>0, <1>1, <1>2, <1>4 DEF ClaimInv, TenantOf
<1>8. EnforcedInv'
  BY <1>0, <1>1, <1>2, <1>4 DEF EnforcedInv, OwnedBy, Committed, Device
<1>9. OwnedInFull'
  BY <1>0, <1>1, <1>2, <1>4 DEF OwnedInFull, OwnedBy, Committed, Device, DevicesOf
<1> QED BY <1>3, <1>5, <1>6, <1>7, <1>8, <1>9 DEF Inv

LEMMA InitInv == Init => Inv
<1> SUFFICES ASSUME Init PROVE Inv
  OBVIOUS
<1>1. /\ \A r \in Requests : pair[r] = NewPair /\ device[r] = NoDevice
      /\ \A s \in Signals : claim[s] = Unclaimed
      /\ \A u \in Users : user[u] = IdleUser
  BY DEF Init
<1>2. DeviceInv /\ EnforcedInv
  BY <1>1, EmptyRows DEF DeviceInv, EnforcedInv
<1>3. \A r \in Requests : PairInv(r)
  BY <1>1, EmptyRows DEF PairInv
<1>4. ClaimInv /\ OwnedInFull
  BY <1>1, EmptyRows DEF ClaimInv, OwnedInFull, Committed
<1> QED BY <1>2, <1>3, <1>4, InitTypes DEF Inv

LEMMA NextInv == Inv /\ [Next]_vars => Inv'
<1> SUFFICES ASSUME Inv, [Next]_vars PROVE Inv'
  OBVIOUS
<1>0. /\ TypeOK /\ code \in [Codes -> PairingCode] /\ device \in [Requests -> Device]
      /\ user \in [Users -> UserRow] /\ DeviceInv
  BY TypeOKRows DEF Inv
<1>1. ASSUME NEW c \in Codes, CreatePairingCode(c) \/ CodeExpires(c) PROVE Inv'
  <2>1. code' \in [Codes -> PairingCode] /\ UNCHANGED <<mode, pair, device, claim, user, onTrial, raced>>
        /\ \A d \in Codes : code[d].state = "used" => code'[d].state = "used"
    <3>1. code[c] \in PairingCode
      BY <1>0
    <3>2. /\ [code[c] EXCEPT !.state = "open"] \in PairingCode
          /\ [code[c] EXCEPT !.expired = TRUE] \in PairingCode
          /\ [code[c] EXCEPT !.expired = TRUE].state = code[c].state
      BY <3>1 DEF PairingCode
    <3>3. CASE CreatePairingCode(c)
      <4>1. code' = [code EXCEPT ![c] = [code[c] EXCEPT !.state = "open"]] /\ code[c].state = "none"
        BY <3>3 DEF CreatePairingCode
      <4> QED BY <1>0, <3>2, <3>3, <4>1 DEF CreatePairingCode
    <3>4. CASE CodeExpires(c)
      <4>1. code' = [code EXCEPT ![c] = [code[c] EXCEPT !.expired = TRUE]]
        BY <3>4 DEF CodeExpires
      <4> QED BY <1>0, <3>2, <3>4, <4>1 DEF CodeExpires
    <3> QED BY <1>1, <3>3, <3>4
  <2>2. changes' \in Nat
    BY <1>0, <1>1 DEF CreatePairingCode, CodeExpires, Change, TypeOK
  <2>3. TypeOK'
    BY <1>0, <2>1, <2>2, TypeOKRows, TypeOKRowsNext
  <2> QED BY <1>0, <2>1, <2>3, StatusInv DEF DeviceInv
<1>2. ASSUME NEW r \in Requests, RevokeDevice(r) PROVE Inv'
  <2> DEFINE row == [device[r] EXCEPT !.status = "REVOKED"]
  <2>1. device' = [device EXCEPT ![r] = row]
    BY <1>2 DEF RevokeDevice
  <2>2. /\ device[r] \in Device /\ row \in Device /\ row.status = "REVOKED"
        /\ row.code = device[r].code
        /\ row.identity = device[r].identity /\ row.enforced = device[r].enforced
    BY <1>0 DEF Device
  <2> HIDE DEF row
  <2>3. TypeOK'
    BY <1>0, <1>2, <2>1, <2>2, TypeOKRows, TypeOKRowsNext DEF RevokeDevice, Change
  <2> QED BY <1>0, <1>2, <2>1, <2>2, <2>3, StatusInv DEF RevokeDevice, DeviceInv
<1>3. ASSUME NEW u \in Users, NEW r \in Requests, ReadForUpdate(u, r) PROVE Inv'
  <2>1. user' = [user EXCEPT ![u] = [at |-> "write", device |-> r]]
    BY <1>3 DEF ReadForUpdate
  <2>2. TypeOK'
    <3>1. user' \in [Users -> UserRow]
      BY <1>0, <2>1 DEF UserRow
    <3> QED BY <1>0, <1>3, <3>1, TypeOKRows, TypeOKRowsNext DEF ReadForUpdate, Change
  <2> QED BY <1>0, <1>3, <2>1, <2>2, StatusInv DEF ReadForUpdate, DeviceInv
<1>4. ASSUME NEW u \in Users, NEW status \in {"ACTIVE", "PAUSED"}, WriteUpdate(u, status)
      PROVE  Inv'
  <2> DEFINE r == user[u].device
             row == [device[r] EXCEPT !.status = status]
  <2>0. r \in Requests /\ device[r].status # "none"
    BY <1>0, <1>4 DEF WriteUpdate, DeviceInv
  <2>1. device' = [device EXCEPT ![r] = row] /\ user' = [user EXCEPT ![u] = IdleUser]
    BY <1>4 DEF WriteUpdate
  <2>2. /\ device[r] \in Device /\ row \in Device /\ row.status = status
        /\ row.code = device[r].code
        /\ row.identity = device[r].identity /\ row.enforced = device[r].enforced
    <3>1. device[r] \in Device
      BY <1>0, <2>0
    <3> HIDE DEF r
    <3> QED BY <3>1 DEF Device
  <2> HIDE DEF row
  <2>3. raced' \subseteq Tenants
    <3>1. device[r].code \in Codes
      BY <1>0, <2>0, <2>2 DEF DeviceInv, Device
    <3> QED BY <1>0, <1>4, <3>1, TypeOKRows DEF WriteUpdate
  <2>4. TypeOK'
    <3>1. device' \in [Requests -> Device] /\ user' \in [Users -> UserRow]
      BY <1>0, <2>0, <2>1, <2>2, EmptyRows
    <3> QED BY <1>0, <1>4, <2>3, <3>1, TypeOKRows, TypeOKRowsNext DEF WriteUpdate
  <2> QED BY <1>0, <1>4, <2>0, <2>1, <2>2, <2>4, EmptyRows, StatusInv DEF WriteUpdate, DeviceInv
<1>5. ASSUME NEW t \in Tenants, LeaveTrial(t) PROVE Inv'
  <2>1. TypeOK'
    BY <1>0, <1>5, TypeOKRows, TypeOKRowsNext DEF LeaveTrial, Change
  <2> QED BY <1>0, <1>5, <2>1, StatusInv DEF LeaveTrial, DeviceInv
<1>6. CASE UNCHANGED vars
  <2>1. TypeOK'
    BY <1>0, <1>6 DEF vars, TypeOK
  <2> QED BY <1>0, <1>6, <2>1, StatusInv DEF vars, DeviceInv
<1> QED BY <1>1, <1>2, <1>3, <1>4, <1>5, <1>6, PairStepInv, OverrideInv DEF Next

LEMMA InvAlways == Spec => []Inv
BY InitInv, NextInv, PTL DEF Spec

-----------------------------------------------------------------------------
(* Every reachable state has its type.                                      *)
THEOREM TypeCorrect == Spec => []TypeOK
BY InvAlways, PTL DEF Inv

(* Only a pairing that commits gives a device its code, and no other has it.*)
LEMMA CodeStep ==
  ASSUME Inv, CodePairsOneDevice, [Next]_vars
  PROVE  CodePairsOneDevice'
<1>0. device \in [Requests -> Device] /\ DeviceInv
  BY TypeOKRows DEF Inv
<1>1. ASSUME \A r \in Requests : device'[r].code = device[r].code
      PROVE  CodePairsOneDevice'
  BY <1>1 DEF CodePairsOneDevice
<1>2. ASSUME NEW r \in Requests, PairStep(r) PROVE CodePairsOneDevice'
  <2>1. CASE UNCHANGED device
    BY <1>1, <2>1
  <2>2. CASE /\ StillUnused(pair[r].code)
             /\ device' = [device EXCEPT ![r] = PairedDevice(r)]
    <3>1. device'[r].code = pair[r].code /\ \A x \in Requests \ {r} : device'[x] = device[x]
      BY <1>0, <2>2 DEF PairedDevice
    <3>2. \A x \in Requests : device[x].code # "none" => device[x].code # pair[r].code
      BY <1>0, <2>2 DEF DeviceInv, StillUnused
    <3> QED BY <3>1, <3>2 DEF CodePairsOneDevice
  <2> QED BY <1>2, <2>1, <2>2
          DEF PairStep, ReadCode, CheckLimit, SkipClaims, RefuseSignature, InsertClaims,
              JudgeClaims, CreateDevice, Refuse
<1>3. ASSUME NEW r \in Requests, NEW status, device' = [device EXCEPT ![r].status = status]
      PROVE  CodePairsOneDevice'
  <2>1. device'[r].code = device[r].code
    BY <1>0, <1>3 DEF Device
  <2> QED BY <1>0, <1>1, <1>3, <2>1
<1>4. ASSUME NEW u \in Users, NEW status \in {"ACTIVE", "PAUSED"}, WriteUpdate(u, status)
      PROVE  CodePairsOneDevice'
  <2>1. user[u].device \in Requests
    BY <1>0, <1>4 DEF WriteUpdate, DeviceInv
  <2> QED BY <1>3, <1>4, <2>1 DEF WriteUpdate
<1>5. ASSUME NEW r \in Requests, RevokeDevice(r) PROVE CodePairsOneDevice'
  BY <1>3, <1>5 DEF RevokeDevice
<1>6. CASE \/ \E c \in Codes : CreatePairingCode(c) \/ CodeExpires(c)
           \/ \E u \in Users, r \in Requests : ReadForUpdate(u, r)
           \/ \E s \in Signals, t \in Tenants : OverrideClaim(s, t)
           \/ \E t \in Tenants : LeaveTrial(t)
           \/ UNCHANGED vars
  <2>1. UNCHANGED device
    BY <1>6 DEF CreatePairingCode, CodeExpires, ReadForUpdate, OverrideClaim, LeaveTrial, vars
  <2> QED BY <1>1, <2>1
<1> QED BY <1>2, <1>4, <1>5, <1>6 DEF Next

(* However many phones send a code at once, it pairs one (pairDevice).      *)
THEOREM OneDevicePerCode == Spec => []CodePairsOneDevice
<1>1. Init => CodePairsOneDevice
  BY EmptyRows DEF Init, CodePairsOneDevice
<1>2. Inv /\ CodePairsOneDevice /\ [Next]_vars => CodePairsOneDevice'
  BY CodeStep
<1> QED BY <1>1, <1>2, InvAlways, PTL DEF Spec

(* A phone that one tenant has paired under the rollout is no other's       *)
(* first, unless the platform overrode a claim (claimTrialIdentities).      *)
THEOREM OneTrial == Spec => []OneTrialPerSignal
<1>1. Inv => OneTrialPerSignal
  BY DEF Inv, EnforcedInv, OwnedBy, OneTrialPerSignal
<1> QED BY <1>1, InvAlways, PTL

(* Claims are owned with all of a phone or not at all (claimTrialIdentities)*)
THEOREM NeverInPart == Spec => []NoPartialOwnership
<1>1. Inv => NoPartialOwnership
  BY DEF Inv, OwnedInFull, OwnedBy, NoPartialOwnership
<1> QED BY <1>1, InvAlways, PTL
-----------------------------------------------------------------------------
(* The limit of devices                                                     *)

Paired == {r \in Requests : device[r].status # "none"}

(* Of a tenant that no race has met, one pairing at most is between its     *)
(* count and its commit, and it has found a place that is still free.       *)
WithinLimit(t) ==
  t \notin raced =>
    /\ Cardinality(Counted(t)) <= DeviceLimit
    /\ \A r \in Counting(t) : /\ Counting(t) = {r}
                              /\ Cardinality(Counted(t)) < DeviceLimit

LimitInv == IsFiniteSet(Paired) /\ \A t \in Tenants : WithinLimit(t)

LEMMA CountedFinite ==
  ASSUME LimitInv, NEW t \in Tenants, NEW S \in SUBSET Counted(t)
  PROVE  /\ IsFiniteSet(S) /\ Cardinality(S) \in Nat
         /\ Cardinality(S) <= Cardinality(Counted(t))
         /\ IsFiniteSet(Counted(t)) /\ Cardinality(Counted(t)) \in Nat
<1>1. Counted(t) \subseteq Paired
  BY DEF Counted, DevicesOf, Paired
<1>2. IsFiniteSet(Counted(t))
  BY <1>1, FS_Subset DEF LimitInv
<1> QED BY <1>2, FS_Subset, FS_CardinalityType

(* A step that takes up no place and begins no count keeps what is said of  *)
(* the others.                                                              *)
LEMMA LimitFrame ==
  ASSUME LimitInv, raced \subseteq raced', Paired' \subseteq Paired,
         \A t \in Tenants : Counted(t)' \subseteq Counted(t) /\ Counting(t)' \subseteq Counting(t)
  PROVE  LimitInv'
<1>1. IsFiniteSet(Paired')
  BY FS_Subset DEF LimitInv
<1>2. ASSUME NEW t \in Tenants PROVE WithinLimit(t)'
  <2>1. /\ Cardinality(Counted(t)') \in Nat /\ Cardinality(Counted(t)) \in Nat
        /\ Cardinality(Counted(t)') <= Cardinality(Counted(t))
    BY CountedFinite
  <2>2. WithinLimit(t)
    BY DEF LimitInv
  <2> QED BY <2>1, <2>2 DEF WithinLimit
<1> QED BY <1>1, <1>2 DEF LimitInv

(* No device changes, and the request is not counting unless it was before. *)
LEMMA PairLimitFrame ==
  ASSUME LimitInv, NEW r \in Requests, UNCHANGED <<device, raced>>,
         \A x \in Requests \ {r} : pair'[x] = pair[x],
         \/ pair'[r].at \notin {"claim", "judge", "create"}
         \/ pair[r].at \in {"claim", "judge", "create"} /\ pair'[r].code = pair[r].code
  PROVE  LimitInv'
<1>1. \A t \in Tenants : Counted(t)' = Counted(t) /\ Paired' = Paired
  BY DEF Counted, DevicesOf, Paired
<1>2. \A t \in Tenants : Counting(t)' \subseteq Counting(t)
  BY DEF Counting, TenantOf
<1> QED BY <1>1, <1>2, LimitFrame DEF Paired

(* The status of a device that is there changes; one that is revoked comes  *)
(* back only with its tenant's race.                                        *)
LEMMA StatusLimitFrame ==
  ASSUME LimitInv, UNCHANGED pair, raced \subseteq raced',
         \A r \in Requests :
           /\ device'[r] = device[r]
                \/ (device[r].status # "none" /\ device'[r].status # "none")
           /\ device'[r].code = device[r].code
           /\ device[r].status = "REVOKED" /\ device'[r].status # "REVOKED" =>
                CodeOf[device[r].code] \in raced'
  PROVE  LimitInv'
<1>1. Paired' = Paired
  BY DEF Paired
<1>2. \A t \in Tenants : Counting(t)' = Counting(t)
  BY DEF Counting, TenantOf
<1>3. ASSUME NEW t \in Tenants PROVE WithinLimit(t)'
  <2>1. t \notin raced' => Counted(t)' \subseteq Counted(t)
    BY DEF Counted, DevicesOf
  <2>2. t \notin raced' => /\ Cardinality(Counted(t)') \in Nat /\ Cardinality(Counted(t)) \in Nat
                           /\ Cardinality(Counted(t)') <= Cardinality(Counted(t))
    BY <2>1, CountedFinite
  <2>3. WithinLimit(t)
    BY DEF LimitInv
  <2> QED BY <1>2, <2>2, <2>3 DEF WithinLimit
<1> QED BY <1>1, <1>3 DEF LimitInv

(* The steps of a pairing: it counts, and takes the place it has found.     *)
LEMMA PairLimit ==
  ASSUME Inv, LimitInv, NEW r \in Requests, PairStep(r)
  PROVE  LimitInv'
<1>0. /\ pair \in [Requests -> PairRow] /\ pair[r] \in PairRow /\ TypeOK /\ PairInv(r)
      /\ device \in [Requests -> Device]
  BY TypeOKRows DEF Inv
<1>1. ASSUME Refuse(r) PROVE LimitInv'
  BY <1>0, <1>1, EmptyRows, PairLimitFrame DEF Refuse
<1>2. ASSUME NEW c \in Codes, NEW i \in Identities, ReadCode(r, c, i) PROVE LimitInv'
  <2> DEFINE row == [[[NewPair EXCEPT !.at = "limit"] EXCEPT !.code = c] EXCEPT !.identity = i]
  <2>1. pair' = [pair EXCEPT ![r] = row]
    BY <1>2, EmptyRows DEF ReadCode, PairRow
  <2>2. row.at = "limit"
    BY EmptyRows DEF PairRow
  <2> HIDE DEF row
  <2> QED BY <1>0, <1>2, <2>1, <2>2, PairLimitFrame DEF ReadCode
<1>3. ASSUME pair[r].at \in {"claim", "judge"}, NEW step \in {"claim", "judge", "create"},
             GoTo(r, step) \/ (Own(r) /\ step = "create"), UNCHANGED <<device, raced>>
      PROVE  LimitInv'
  BY <1>0, <1>3, GoToTyped, PairLimitFrame
<1>4. CASE CheckLimit(r)
  <2>1. CASE /\ WithinDeviceLimit(TenantOf(r))
             /\ GoTo(r, "claim")
             /\ raced' = raced \cup {t \in {TenantOf(r)} : Counting(t) # {}}
             /\ UNCHANGED <<code, device, claim>>
    <3>1. PICK t \in Tenants : t = TenantOf(r)
      BY <1>0, <1>4 DEF CheckLimit, PairInv, TenantOf
    <3>2. /\ pair'[r].at = "claim" /\ pair'[r].code = pair[r].code
          /\ \A x \in Requests \ {r} : pair'[x] = pair[x]
      BY <1>0, <2>1, GoToTyped
    <3>3. /\ Paired' = Paired /\ \A x \in Tenants : Counted(x)' = Counted(x)
      BY <2>1 DEF Paired, Counted, DevicesOf
    <3>4. /\ Counting(t)' = Counting(t) \cup {r}
          /\ \A x \in Tenants : x # t => Counting(x)' = Counting(x)
      BY <1>4, <3>1, <3>2 DEF Counting, TenantOf, CheckLimit
    <3>5. ASSUME NEW x \in Tenants PROVE WithinLimit(x)'
      <4>1. CASE x # t
        BY <2>1, <3>3, <3>4, <4>1 DEF LimitInv, WithinLimit
      <4>2. CASE x = t
        <5>1. t \notin raced' => Counting(t) = {} /\ t \notin raced
          BY <2>1, <3>1
        <5>2. Cardinality(Counted(t)) < DeviceLimit
          BY <2>1, <3>1 DEF WithinDeviceLimit
        <5>3. Cardinality(Counted(t)) \in Nat
          BY CountedFinite
        <5> QED BY <3>3, <3>4, <4>2, <5>1, <5>2, <5>3 DEF WithinLimit
      <4> QED BY <4>1, <4>2
    <3> QED BY <3>3, <3>5 DEF LimitInv
  <2> QED BY <1>1, <1>4, <2>1 DEF CheckLimit
<1>5. CASE SkipClaims(r)
  BY <1>1, <1>3, <1>5 DEF SkipClaims
<1>9. CASE RefuseSignature(r)
  BY <1>1, <1>9 DEF RefuseSignature
<1>6. CASE InsertClaims(r)
  BY <1>3, <1>6 DEF InsertClaims
<1>7. CASE JudgeClaims(r)
  BY <1>1, <1>3, <1>7 DEF JudgeClaims
<1>8. CASE CreateDevice(r)
  <2>1. CASE /\ device' = [device EXCEPT ![r] = PairedDevice(r)]
             /\ pair' = [pair EXCEPT ![r] = PairOver]
             /\ UNCHANGED raced
    <3>1. PICK t \in Tenants : t = TenantOf(r)
      BY <1>0, <1>8 DEF CreateDevice, PairInv, TenantOf
    <3>2. /\ device'[r].status = "ACTIVE" /\ CodeOf[device'[r].code] = t
          /\ \A x \in Requests \ {r} : device'[x] = device[x]
          /\ pair'[r].at = "over" /\ \A x \in Requests \ {r} : pair'[x] = pair[x]
          /\ device[r].status = "none"
      BY <1>0, <1>8, <2>1, <3>1, EmptyRows DEF CreateDevice, PairedDevice, PairInv, TenantOf
    <3>3. r \in Counting(t)
      BY <1>8, <3>1 DEF CreateDevice, Counting
    <3>4. Paired' = Paired \cup {r}
      BY <3>2 DEF Paired
    <3>5. IsFiniteSet(Paired')
      BY <3>4, FS_AddElement DEF LimitInv
    <3>6. /\ Counted(t)' = Counted(t) \cup {r} /\ r \notin Counted(t)
          /\ \A x \in Tenants : x # t => Counted(x)' = Counted(x)
      BY <3>2 DEF Counted, DevicesOf
    <3>7. /\ \A x \in Tenants : Counting(x)' \subseteq Counting(x) \ {r}
          /\ \A x \in Tenants : x # t => Counting(x)' = Counting(x)
      BY <3>1, <3>2 DEF Counting, TenantOf
    <3>8. ASSUME NEW x \in Tenants PROVE WithinLimit(x)'
      <4>1. CASE x # t
        BY <2>1, <3>6, <3>7, <4>1 DEF LimitInv, WithinLimit
      <4>2. CASE x = t
        <5>1. t \notin raced =>
                Cardinality(Counted(t)) < DeviceLimit /\ Counting(t)' = {}
          BY <3>3, <3>7 DEF LimitInv, WithinLimit
        <5>2. Cardinality(Counted(t)') = Cardinality(Counted(t)) + 1
          BY <3>6, CountedFinite, FS_AddElement
        <5>3. Cardinality(Counted(t)) \in Nat
          BY CountedFinite
        <5> QED BY <2>1, <4>2, <5>1, <5>2, <5>3 DEF WithinLimit
      <4> QED BY <4>1, <4>2
    <3> QED BY <3>5, <3>8 DEF LimitInv
  <2> QED BY <1>1, <1>8, <2>1 DEF CreateDevice
<1> QED BY <1>2, <1>4, <1>5, <1>6, <1>7, <1>8, <1>9 DEF PairStep

LEMMA LimitStep == Inv /\ LimitInv /\ [Next]_vars => LimitInv'
<1> SUFFICES ASSUME Inv, LimitInv, [Next]_vars PROVE LimitInv'
  OBVIOUS
<1>0. device \in [Requests -> Device] /\ DeviceInv
  BY TypeOKRows DEF Inv
<1>1. ASSUME NEW r \in Requests, NEW status \in {"ACTIVE", "PAUSED", "REVOKED"},
             device' = [device EXCEPT ![r].status = status], UNCHANGED pair,
             raced \subseteq raced', device[r].status # "none",
             device[r].status = "REVOKED" => CodeOf[device[r].code] \in raced'
      PROVE  LimitInv'
  <2>1. /\ device'[r].status = status /\ device'[r].code = device[r].code
        /\ \A x \in Requests \ {r} : device'[x] = device[x]
    BY <1>0, <1>1 DEF Device
  <2> QED BY <1>1, <2>1, StatusLimitFrame
<1>2. ASSUME NEW u \in Users, NEW status \in {"ACTIVE", "PAUSED"}, WriteUpdate(u, status)
      PROVE  LimitInv'
  <2>1. user[u].device \in Requests /\ device[user[u].device].status # "none"
    BY <1>0, <1>2 DEF WriteUpdate, DeviceInv
  <2> QED BY <1>1, <1>2, <2>1 DEF WriteUpdate
<1>3. ASSUME NEW r \in Requests, RevokeDevice(r) PROVE LimitInv'
  BY <1>1, <1>3 DEF RevokeDevice
<1>4. CASE \/ \E c \in Codes : CreatePairingCode(c) \/ CodeExpires(c)
           \/ \E u \in Users, r \in Requests : ReadForUpdate(u, r)
           \/ \E s \in Signals, t \in Tenants : OverrideClaim(s, t)
           \/ \E t \in Tenants : LeaveTrial(t)
           \/ UNCHANGED vars
  <2>1. UNCHANGED <<device, pair, raced>>
    BY <1>4 DEF CreatePairingCode, CodeExpires, ReadForUpdate, OverrideClaim, LeaveTrial, vars
  <2> QED BY <2>1, StatusLimitFrame
<1> QED BY <1>2, <1>3, <1>4, PairLimit DEF Next

(* A tenant passes its limit of devices only in a race: pairings that count *)
(* at once, or an update that brings a revoked device back                  *)
(* (assertWithinDeviceLimit).                                               *)
THEOREM LimitHolds == Spec => []UnracedWithinLimit
<1>1. Init => LimitInv
  <2> SUFFICES ASSUME Init PROVE LimitInv
    OBVIOUS
  <2>1. Paired = {} /\ \A t \in Tenants : Counted(t) = {} /\ Counting(t) = {}
    BY EmptyRows DEF Init, Paired, Counted, DevicesOf, Counting
  <2> QED BY <2>1, FS_EmptySet DEF LimitInv, WithinLimit
<1>2. LimitInv => UnracedWithinLimit
  BY DEF LimitInv, WithinLimit, UnracedWithinLimit
<1> QED BY <1>1, <1>2, InvAlways, LimitStep, PTL DEF Spec

-----------------------------------------------------------------------------
(* How the phone is seen: DevicePresence                                    *)

CONSTANTS Callers, Checkers, Wallets, WalletLimit, Threshold, MaxTicks, MaxLosses
VARIABLES now, row, wallet, phone, call, checker, walletUser, mails, spent

Presence == INSTANCE DevicePresence WITH user <- walletUser

DeviceRow == [status : {"ACTIVE", "PAUSED", "REVOKED"}, seen : 0..MaxTicks, marked : BOOLEAN]
PhoneCall == [at : {"idle", "seen", "clear", "config", "answer"}, config : Presence!Config]

LEMMA PresenceRows ==
  Presence!TypeOK <=>
    /\ now \in 0..MaxTicks
    /\ row \in DeviceRow
    /\ wallet \in [enabled : SUBSET Wallets, updatedAt : 0..MaxTicks]
    /\ phone \in Presence!Config
    /\ call \in [Callers -> PhoneCall]
    /\ checker \in [Checkers -> {"idle", "mark", "mail"}]
    /\ walletUser \in [Users -> [at : {"idle", "enable"}, wallet : Wallets \cup {"none"}]]
    /\ mails \in [marks : Nat, offline : Nat, recovered : Nat]
    /\ spent \in [changes : 0..MaxChanges, losses : 0..MaxLosses]
BY DEF Presence!TypeOK, DeviceRow, PhoneCall

(* A user who enables a wallet has checked the limit for one.               *)
EnablesOne == \A u \in Users : walletUser[u].at = "enable" => walletUser[u].wallet \in Wallets
PresenceTyped == Presence!TypeOK /\ EnablesOne

LEMMA PresenceStarts ==
  ASSUME Presence!ConstantsAssumption, Presence!Init
  PROVE  PresenceTyped
<1>1. /\ 0 \in 0..MaxTicks /\ 0 \in 0..MaxChanges /\ 0 \in 0..MaxLosses
  BY DEF Presence!ConstantsAssumption
<1> QED BY <1>1 DEF PresenceTyped, EnablesOne, Presence!Init, Presence!TypeOK,
                    Presence!Config, Presence!IdleCall

(* Calls from the phone                                                     *)
LEMMA PresenceServes ==
  ASSUME Presence!ConstantsAssumption, Presence!TypeOK, NEW c \in Callers,
         \/ Presence!StartHeartbeat(c) \/ Presence!FetchConfig(c)
         \/ Presence!Serve(c) \/ Presence!LoseAnswer(c)
  PROVE  Presence!TypeOK'
<1> USE PresenceRows
<1>0. call \in [Callers -> PhoneCall] /\ call[c] \in PhoneCall /\ call[c].config \in Presence!Config
  BY DEF PhoneCall
<1>1. \A step \in {"idle", "seen", "clear", "config", "answer"} :
        Presence!GoTo(c, step) => call' \in [Callers -> PhoneCall]
  BY <1>0 DEF Presence!GoTo, PhoneCall
<1>2. Presence!IdleCall \in PhoneCall
  BY DEF Presence!IdleCall, Presence!Config, PhoneCall, Presence!ConstantsAssumption
<1>3. CASE Presence!StartHeartbeat(c) \/ Presence!FetchConfig(c)
  BY <1>1, <1>3 DEF Presence!StartHeartbeat, Presence!FetchConfig, Presence!TypeOK, PhoneCall
<1>4. CASE Presence!UpdateSeen(c)
  <2>1. row' \in DeviceRow
    BY <1>4 DEF Presence!UpdateSeen, DeviceRow
  <2>2. call' \in [Callers -> PhoneCall]
    BY <1>1, <1>4 DEF Presence!UpdateSeen
  <2> QED BY <1>4, <2>1, <2>2 DEF Presence!UpdateSeen, Presence!TypeOK, DeviceRow, PhoneCall
<1>5. CASE Presence!NotifyRecovery(c)
  <2>1. row' \in DeviceRow
    BY <1>5 DEF Presence!NotifyRecovery, DeviceRow
  <2>2. call' \in [Callers -> PhoneCall]
    BY <1>1, <1>5 DEF Presence!NotifyRecovery
  <2>3. mails' \in [marks : Nat, offline : Nat, recovered : Nat]
    BY <1>5 DEF Presence!NotifyRecovery
  <2> QED BY <1>5, <2>1, <2>2, <2>3 DEF Presence!NotifyRecovery, Presence!TypeOK, DeviceRow, PhoneCall
<1>6. CASE Presence!ReadConfig(c)
  <2>1. [at |-> "answer", config |-> [packages |-> wallet.enabled, version |-> wallet.updatedAt]]
          \in PhoneCall
    BY DEF PhoneCall, Presence!Config
  <2>2. call' \in [Callers -> PhoneCall]
    BY <1>0, <1>6, <2>1 DEF Presence!ReadConfig
  <2> QED BY <1>6, <2>2 DEF Presence!ReadConfig, Presence!TypeOK, PhoneCall
<1>7. CASE Presence!Answer(c)
  <2>1. call' \in [Callers -> PhoneCall] /\ phone' \in Presence!Config
    BY <1>0, <1>2, <1>7 DEF Presence!Answer, Presence!Saves
  <2> QED BY <1>7, <2>1 DEF Presence!Answer, Presence!TypeOK, PhoneCall
<1>8. CASE Presence!LoseAnswer(c)
  <2>1. call' \in [Callers -> PhoneCall]
    BY <1>0, <1>2, <1>8 DEF Presence!LoseAnswer
  <2>2. spent' \in [changes : 0..MaxChanges, losses : 0..MaxLosses]
    BY <1>8 DEF Presence!LoseAnswer, Presence!ConstantsAssumption
  <2> QED BY <1>8, <2>1, <2>2 DEF Presence!LoseAnswer, Presence!TypeOK, PhoneCall
<1> QED BY <1>3, <1>4, <1>5, <1>6, <1>7, <1>8 DEF Presence!Serve

(* The instances' checks, users and time                                    *)
LEMMA PresenceMoves ==
  ASSUME Presence!ConstantsAssumption, PresenceTyped,
         \/ \E k \in Checkers : Presence!Check(k)
         \/ \E status \in {"ACTIVE", "PAUSED", "REVOKED"} : Presence!SetStatus(status)
         \/ \E u \in Users : Presence!EnableWallet(u)
                               \/ \E w \in Wallets : Presence!CheckWalletLimit(u, w)
         \/ \E w \in Wallets : Presence!DeactivateWallet(w)
         \/ Presence!Tick \/ UNCHANGED Presence!vars
  PROVE  Presence!TypeOK'
<1> USE PresenceRows DEF PresenceTyped
<1>0. /\ Presence!Change => spent' \in [changes : 0..MaxChanges, losses : 0..MaxLosses]
      /\ \A wallets \in SUBSET Wallets : Presence!WithEnabled(wallets) =>
           wallet' \in [enabled : SUBSET Wallets, updatedAt : 0..MaxTicks]
  BY DEF Presence!Change, Presence!WithEnabled, Presence!ConstantsAssumption
<1>1. ASSUME NEW k \in Checkers, Presence!Check(k) PROVE Presence!TypeOK'
  <2>1. checker' \in [Checkers -> {"idle", "mark", "mail"}]
    BY <1>1 DEF Presence!Check, Presence!ReadCandidates, Presence!MarkOffline,
                Presence!MailOffline
  <2>2. mails' \in [marks : Nat, offline : Nat, recovered : Nat]
    BY <1>1 DEF Presence!Check, Presence!ReadCandidates, Presence!MarkOffline,
                Presence!MailOffline
  <2>3. row' \in DeviceRow
    BY <1>1 DEF Presence!Check, Presence!ReadCandidates, Presence!MarkOffline,
                Presence!MailOffline, DeviceRow
  <2> QED BY <1>1, <2>1, <2>2, <2>3 DEF Presence!Check, Presence!ReadCandidates, Presence!MarkOffline,
                            Presence!MailOffline, Presence!TypeOK, DeviceRow
<1>2. ASSUME NEW status \in {"ACTIVE", "PAUSED", "REVOKED"}, Presence!SetStatus(status)
      PROVE  Presence!TypeOK'
  <2>1. row' \in DeviceRow
    BY <1>2 DEF Presence!SetStatus, DeviceRow
  <2> QED BY <1>0, <1>2, <2>1 DEF Presence!SetStatus, Presence!TypeOK, DeviceRow
<1>3. ASSUME NEW u \in Users, Presence!EnableWallet(u) PROVE Presence!TypeOK'
  <2>1. wallet.enabled \cup {walletUser[u].wallet} \in SUBSET Wallets
    BY <1>3 DEF Presence!EnableWallet, EnablesOne
  <2>2. walletUser' \in [Users -> [at : {"idle", "enable"}, wallet : Wallets \cup {"none"}]]
    BY <1>3 DEF Presence!EnableWallet
  <2> QED BY <1>0, <1>3, <2>1, <2>2 DEF Presence!EnableWallet, Presence!TypeOK
<1>4. ASSUME NEW u \in Users, NEW w \in Wallets, Presence!CheckWalletLimit(u, w)
      PROVE  Presence!TypeOK'
  <2>1. walletUser' \in [Users -> [at : {"idle", "enable"}, wallet : Wallets \cup {"none"}]]
    BY <1>4 DEF Presence!CheckWalletLimit
  <2> QED BY <1>0, <1>4, <2>1 DEF Presence!CheckWalletLimit, Presence!TypeOK
<1>5. ASSUME NEW w \in Wallets, Presence!DeactivateWallet(w) PROVE Presence!TypeOK'
  BY <1>0, <1>5 DEF Presence!DeactivateWallet, Presence!TypeOK
<1>6. CASE Presence!Tick
  <2>1. now' \in 0..MaxTicks
    BY <1>6 DEF Presence!Tick, Presence!ConstantsAssumption
  <2> QED BY <1>6, <2>1 DEF Presence!Tick, Presence!TypeOK
<1>7. CASE UNCHANGED Presence!vars
  BY <1>7 DEF Presence!vars, Presence!TypeOK
<1> QED BY <1>1, <1>2, <1>3, <1>4, <1>5, <1>6, <1>7

LEMMA PresenceTypes ==
  ASSUME Presence!ConstantsAssumption, PresenceTyped, [Presence!Next]_(Presence!vars)
  PROVE  PresenceTyped'
<1>1. Presence!TypeOK'
  BY PresenceServes, PresenceMoves DEF Presence!Next, PresenceTyped
<1>2. EnablesOne'
  <2>1. ASSUME NEW u \in Users, Presence!EnableWallet(u) PROVE EnablesOne'
    BY <2>1, PresenceRows DEF Presence!EnableWallet, EnablesOne, PresenceTyped
  <2>2. ASSUME NEW u \in Users, NEW w \in Wallets, Presence!CheckWalletLimit(u, w)
        PROVE  EnablesOne'
    BY <2>2, PresenceRows DEF Presence!CheckWalletLimit, EnablesOne, PresenceTyped
  <2>3. CASE UNCHANGED walletUser
    BY <2>3 DEF EnablesOne, PresenceTyped
  <2>4. \/ UNCHANGED walletUser
        \/ \E u \in Users : Presence!EnableWallet(u)
                               \/ \E w \in Wallets : Presence!CheckWalletLimit(u, w)
    BY DEF Presence!Next, Presence!vars, Presence!StartHeartbeat, Presence!FetchConfig,
           Presence!Serve, Presence!UpdateSeen, Presence!NotifyRecovery, Presence!ReadConfig,
           Presence!Answer, Presence!LoseAnswer, Presence!Check, Presence!ReadCandidates,
           Presence!MarkOffline, Presence!MailOffline, Presence!SetStatus,
           Presence!DeactivateWallet, Presence!Tick
  <2> QED BY <2>1, <2>2, <2>3, <2>4
<1> QED BY <1>1, <1>2 DEF PresenceTyped

(* Instances that have marked the device, and those about to                *)
Mailing == {k \in Checkers : checker[k] = "mail"}
Marking == {k \in Checkers : checker[k] = "mark"}
Instances == Cardinality(Checkers)

(* While the device is marked, none but those about to can mail again; a    *)
(* mark that is not cleared yet has not been mailed as recovered.           *)
MailsInv ==
  /\ row.marked => /\ mails.offline + Cardinality(Mailing) + Cardinality(Marking)
                        <= Instances * mails.marks
                   /\ mails.recovered < mails.marks
  /\ mails.offline + Cardinality(Mailing) <= Instances * mails.marks
  /\ mails.recovered <= mails.marks

LEMMA FiniteInstances ==
  ASSUME Presence!ConstantsAssumption
  PROVE  /\ IsFiniteSet(Checkers) /\ Instances \in Nat
         /\ IsFiniteSet(Mailing) /\ Cardinality(Mailing) \in Nat
         /\ IsFiniteSet(Marking) /\ Cardinality(Marking) \in Nat /\ Cardinality(Marking) <= Instances
         /\ IsFiniteSet(Mailing') /\ Cardinality(Mailing') \in Nat
         /\ IsFiniteSet(Marking') /\ Cardinality(Marking') \in Nat
<1>1. \A S : Presence!IsFiniteSet(S) <=> IsFiniteSet(S)
  BY DEF Presence!IsFiniteSet, IsFiniteSet
<1>2. IsFiniteSet(Checkers)
  BY <1>1 DEF Presence!ConstantsAssumption
<1>3. /\ Mailing \in SUBSET Checkers /\ Marking \in SUBSET Checkers
      /\ Mailing' \in SUBSET Checkers /\ Marking' \in SUBSET Checkers
  BY DEF Mailing, Marking
<1>4. \A S \in SUBSET Checkers : IsFiniteSet(S) /\ Cardinality(S) \in Nat
                                 /\ Cardinality(S) <= Instances
  BY <1>2, FS_Subset, FS_CardinalityType DEF Instances
<1> QED BY <1>2, <1>3, <1>4, FS_CardinalityType DEF Instances

(* One instance more or less                                                *)
LEMMA OneMore ==
  ASSUME NEW S, IsFiniteSet(S), NEW k
  PROVE  /\ k \notin S => Cardinality(S \cup {k}) = Cardinality(S) + 1
         /\ k \in S => Cardinality(S \ {k}) = Cardinality(S) - 1
BY FS_AddElement, FS_RemoveElement

LEMMA MailsStep ==
  ASSUME Presence!ConstantsAssumption, PresenceTyped, MailsInv, [Presence!Next]_(Presence!vars)
  PROVE  MailsInv'
<1>0. /\ row \in DeviceRow /\ checker \in [Checkers -> {"idle", "mark", "mail"}]
      /\ mails \in [marks : Nat, offline : Nat, recovered : Nat]
  BY PresenceRows DEF PresenceTyped
<1>a. /\ mails.marks \in Nat /\ mails.offline \in Nat /\ mails.recovered \in Nat
      /\ Instances \in Nat /\ Instances' = Instances
  BY <1>0, FiniteInstances DEF Instances
<1>b. Instances * (mails.marks + 1) = Instances * mails.marks + Instances
      /\ Instances * mails.marks \in Nat
  BY <1>a
<1> DEFINE bound == Instances * mails.marks
<1>1. ASSUME NEW k \in Checkers, Presence!ReadCandidates(k) PROVE MailsInv'
  <2>1. /\ ~row.marked /\ UNCHANGED <<row, mails>>
        /\ checker' = [checker EXCEPT ![k] = "mark"] /\ checker[k] = "idle"
    BY <1>1 DEF Presence!ReadCandidates, Presence!Candidate
  <2>2. Mailing' = Mailing
    BY <1>0, <2>1 DEF Mailing
  <2> QED BY <1>a, <2>1, <2>2 DEF MailsInv
<1>2. ASSUME NEW k \in Checkers, Presence!MarkOffline(k) PROVE MailsInv'
  <2>1. /\ checker[k] = "mark" /\ checker' = [checker EXCEPT ![k] = "mail"]
        /\ row' = [row EXCEPT !.marked = TRUE]
        /\ mails' = IF row.marked THEN mails ELSE [mails EXCEPT !.marks = @ + 1]
    BY <1>2 DEF Presence!MarkOffline
  <2>2. Mailing' = Mailing \cup {k} /\ k \notin Mailing /\ Marking' = Marking \ {k} /\ k \in Marking
    BY <1>0, <2>1 DEF Mailing, Marking
  <2>3. /\ Cardinality(Mailing') = Cardinality(Mailing) + 1
        /\ Cardinality(Marking') = Cardinality(Marking) - 1
    BY <2>2, FiniteInstances, OneMore
  <2>4. row'.marked
    BY <1>0, <2>1 DEF DeviceRow
  <2>5. CASE row.marked
    BY <1>a, <1>b, <2>1, <2>3, <2>5, FiniteInstances DEF MailsInv
  <2>6. CASE ~row.marked
    <3>1. /\ mails'.marks = mails.marks + 1 /\ mails'.offline = mails.offline
          /\ mails'.recovered = mails.recovered
      BY <1>0, <2>1, <2>6
    <3>2. mails.offline + Cardinality(Mailing) + Cardinality(Marking) <= bound + Instances
      BY <1>a, <1>b, FiniteInstances DEF MailsInv
    <3>3. Instances' * mails'.marks = bound + Instances
      BY <1>a, <1>b, <3>1
    <3> HIDE DEF bound
    <3>4. mails'.offline + Cardinality(Mailing') + Cardinality(Marking') <= bound + Instances
      BY <1>a, <2>3, <3>1, <3>2, FiniteInstances
    <3>5. mails'.offline + Cardinality(Mailing') <= bound + Instances
      BY <1>a, <2>3, <3>1, <3>4, FiniteInstances DEF bound
    <3>6. mails'.recovered < mails'.marks
      BY <1>a, <3>1 DEF MailsInv
    <3> QED BY <1>a, <3>1, <3>3, <3>4, <3>5, <3>6 DEF MailsInv
  <2> QED BY <2>5, <2>6
<1>3. ASSUME NEW k \in Checkers, Presence!MailOffline(k) PROVE MailsInv'
  <2>1. /\ checker[k] = "mail" /\ checker' = [checker EXCEPT ![k] = "idle"]
        /\ UNCHANGED row /\ mails' = [mails EXCEPT !.offline = @ + 1]
    BY <1>3 DEF Presence!MailOffline
  <2>2. Mailing' = Mailing \ {k} /\ k \in Mailing /\ Marking' = Marking
    BY <1>0, <2>1 DEF Mailing, Marking
  <2>3. Cardinality(Mailing') = Cardinality(Mailing) - 1
    BY <2>2, FiniteInstances, OneMore
  <2>4. /\ mails'.marks = mails.marks /\ mails'.offline = mails.offline + 1
        /\ mails'.recovered = mails.recovered
    BY <1>0, <2>1
  <2> QED BY <1>a, <2>1, <2>2, <2>3, <2>4, FiniteInstances DEF MailsInv
<1>4. ASSUME NEW c \in Callers, Presence!NotifyRecovery(c) PROVE MailsInv'
  <2>1. /\ row' = [row EXCEPT !.marked = FALSE] /\ UNCHANGED checker
        /\ mails' = IF row.marked THEN [mails EXCEPT !.recovered = @ + 1] ELSE mails
    BY <1>4 DEF Presence!NotifyRecovery, Presence!Clears
  <2>2. ~row'.marked /\ Mailing' = Mailing
    BY <1>0, <2>1 DEF DeviceRow, Mailing
  <2>3. CASE row.marked
    <3>1. /\ mails'.marks = mails.marks /\ mails'.offline = mails.offline
          /\ mails'.recovered = mails.recovered + 1
      BY <1>0, <2>1, <2>3
    <3> QED BY <1>a, <2>2, <2>3, <3>1 DEF MailsInv
  <2>4. CASE ~row.marked
    BY <1>a, <2>1, <2>2, <2>4 DEF MailsInv
  <2> QED BY <2>3, <2>4
<1>5. ASSUME NEW c \in Callers, Presence!UpdateSeen(c) PROVE MailsInv'
  <2>1. row'.marked = row.marked /\ UNCHANGED <<checker, mails>>
    BY <1>0, <1>5 DEF Presence!UpdateSeen, DeviceRow
  <2> QED BY <1>a, <2>1 DEF MailsInv, Mailing, Marking
<1>6. ASSUME NEW status \in {"ACTIVE", "PAUSED", "REVOKED"}, Presence!SetStatus(status)
      PROVE  MailsInv'
  <2>1. row'.marked = row.marked /\ UNCHANGED <<checker, mails>>
    BY <1>0, <1>6 DEF Presence!SetStatus, DeviceRow
  <2> QED BY <1>a, <2>1 DEF MailsInv, Mailing, Marking
<1>7. CASE UNCHANGED <<row, checker, mails>>
  BY <1>a, <1>7 DEF MailsInv, Mailing, Marking
<1>8. \/ UNCHANGED <<row, checker, mails>>
      \/ \E k \in Checkers : Presence!Check(k)
      \/ \E c \in Callers : Presence!NotifyRecovery(c) \/ Presence!UpdateSeen(c)
      \/ \E status \in {"ACTIVE", "PAUSED", "REVOKED"} : Presence!SetStatus(status)
  BY DEF Presence!Next, Presence!vars, Presence!StartHeartbeat, Presence!FetchConfig,
         Presence!Serve, Presence!ReadConfig, Presence!Answer, Presence!LoseAnswer,
         Presence!EnableWallet, Presence!CheckWalletLimit,
         Presence!DeactivateWallet, Presence!Tick
<1> QED BY <1>1, <1>2, <1>3, <1>4, <1>5, <1>6, <1>7, <1>8 DEF Presence!Check

LEMMA MailsStart ==
  ASSUME Presence!ConstantsAssumption, Presence!Init
  PROVE  MailsInv
<1>1. /\ mails.marks = 0 /\ mails.offline = 0 /\ mails.recovered = 0 /\ ~row.marked
      /\ \A k \in Checkers : checker[k] = "idle"
  BY DEF Presence!Init
<1>2. Mailing = {} /\ Instances \in Nat
  BY <1>1, FiniteInstances DEF Mailing
<1>3. Cardinality(Mailing) = 0
  BY <1>2, FS_EmptySet
<1> QED BY <1>1, <1>2, <1>3 DEF MailsInv

LEMMA MailsFollow ==
  ASSUME Presence!ConstantsAssumption, PresenceTyped, MailsInv
  PROVE  Presence!MailsPerMark
<1>1. \A S : Presence!Cardinality(S) = Cardinality(S)
  BY DEF Presence!Cardinality, Cardinality
<1>2. /\ mails.marks \in Nat /\ mails.offline \in Nat /\ mails.recovered \in Nat
  BY PresenceRows DEF PresenceTyped
<1>3. Instances \in Nat /\ Cardinality(Mailing) \in Nat /\ Instances * mails.marks \in Nat
  BY <1>2, FiniteInstances
<1>4. mails.offline <= Instances * mails.marks
  <2> DEFINE bound == Instances * mails.marks
  <2>1. mails.offline + Cardinality(Mailing) <= bound /\ bound \in Nat
    BY <1>3 DEF MailsInv
  <2> HIDE DEF bound
  <2>2. mails.offline <= bound
    BY <1>2, <1>3, <2>1
  <2> QED BY <2>2 DEF bound
<1> QED BY <1>1, <1>4 DEF MailsInv, Presence!MailsPerMark, Instances

(* Every reachable state of DevicePresence has its type, for any callers,   *)
(* instances, users and wallets.                                            *)
THEOREM PresenceTypeCorrect ==
  Presence!ConstantsAssumption => (Presence!Spec => []Presence!TypeOK)
<1> SUFFICES ASSUME Presence!ConstantsAssumption PROVE Presence!Spec => []Presence!TypeOK
  OBVIOUS
<1>1. Presence!Init => PresenceTyped
  BY PresenceStarts
<1>2. PresenceTyped /\ [Presence!Next]_(Presence!vars) => PresenceTyped'
  BY PresenceTypes
<1>3. PresenceTyped => Presence!TypeOK
  BY DEF PresenceTyped
<1> QED BY <1>1, <1>2, <1>3, PTL DEF Presence!Spec

(* However the checks of any number of instances cross the heartbeats, a    *)
(* spell offline is mailed once by each of them at most, and its end once   *)
(* (detectOfflineDevices, notifyRecovery).                                  *)
THEOREM MailsFollowMarks ==
  Presence!ConstantsAssumption => (Presence!Spec => []Presence!MailsPerMark)
<1> SUFFICES ASSUME Presence!ConstantsAssumption PROVE Presence!Spec => []Presence!MailsPerMark
  OBVIOUS
<1> DEFINE Both == PresenceTyped /\ MailsInv
<1>1. Presence!Init => Both
  BY PresenceStarts, MailsStart
<1>2. Both /\ [Presence!Next]_(Presence!vars) => Both'
  BY PresenceTypes, MailsStep
<1>3. Both => Presence!MailsPerMark
  BY MailsFollow
<1> HIDE DEF Both
<1> QED BY <1>1, <1>2, <1>3, PTL DEF Presence!Spec

-----------------------------------------------------------------------------
(* What the phone captures: AndroidSyncQueue                                *)

CONSTANTS Items, BatchSize, BatchesPerRun, Recheck, Retention, MaxFaults
VARIABLES queue, queueRow, works, seen, capturing, sync, serviceUp, server, stored,
          refused, refusedFor, unnoted, budget

Queue == INSTANCE AndroidSyncQueue WITH row <- queueRow

(* The rows that stay: each is the one of its rank.                         *)
LEMMA RanksOfKept ==
  ASSUME NEW n \in Nat, NEW kept \in SUBSET (1..n)
  PROVE  /\ Queue!Cardinality(kept) \in Nat /\ Queue!Cardinality(kept) <= n
         /\ \A i \in kept : Queue!Cardinality({j \in kept : j <= i}) \in 1..Queue!Cardinality(kept)
         /\ \A h, i \in kept : Queue!Cardinality({j \in kept : j <= h})
                                 = Queue!Cardinality({j \in kept : j <= i}) => h = i
         /\ \A k \in 1..Queue!Cardinality(kept) :
              \E i \in kept : Queue!Cardinality({j \in kept : j <= i}) = k
<1>0. \A S : Queue!Cardinality(S) = Cardinality(S)
  BY DEF Queue!Cardinality, Cardinality
<1> DEFINE upTo(i) == {j \in kept : j <= i}
           m == Cardinality(kept)
<1>1. IsFiniteSet(1..n) /\ Cardinality(1..n) = n
  BY FS_Interval
<1>2. IsFiniteSet(kept) /\ m \in Nat /\ m <= n
  <2>1. IsFiniteSet(kept) /\ Cardinality(kept) <= Cardinality(1..n)
    <3> HIDE DEF m, upTo
    <3> QED BY <1>1, FS_Subset
  <2> QED BY <1>1, <2>1, FS_CardinalityType
<1>3. ASSUME NEW i \in kept PROVE Cardinality(upTo(i)) \in 1..m
  <2>1. upTo(i) \in SUBSET kept /\ i \in upTo(i)
    OBVIOUS
  <2>2. IsFiniteSet(upTo(i)) /\ Cardinality(upTo(i)) <= m /\ Cardinality(upTo(i)) \in Nat
    BY <1>2, <2>1, FS_Subset, FS_CardinalityType
  <2>3. Cardinality(upTo(i)) # 0
    BY <2>1, <2>2, FS_EmptySet
  <2> QED BY <1>2, <2>2, <2>3
<1>4. ASSUME NEW h \in kept, NEW i \in kept, h < i PROVE Cardinality(upTo(h)) < Cardinality(upTo(i))
  <2>0. \A j \in kept : j \in Nat
    OBVIOUS
  <2>1. upTo(h) \in SUBSET upTo(i) /\ i \in upTo(i) /\ i \notin upTo(h) /\ upTo(i) \in SUBSET kept
    <3>1. \A j \in kept : j <= h => j <= i
      BY <1>4, <2>0
    <3>2. i <= i /\ ~(i <= h)
      BY <1>4, <2>0
    <3> HIDE <1>4
    <3> QED BY <3>1, <3>2
  <2>2. IsFiniteSet(upTo(i))
    BY <1>2, <2>1, FS_Subset
  <2>3. Cardinality(upTo(h)) <= Cardinality(upTo(i)) /\ Cardinality(upTo(h)) # Cardinality(upTo(i))
    BY <2>1, <2>2, FS_Subset
  <2> QED BY <1>3, <2>3
<1>5. ASSUME NEW h \in kept, NEW i \in kept, Cardinality(upTo(h)) = Cardinality(upTo(i)) PROVE h = i
  <2>1. ~(h < i) /\ ~(i < h)
    <3>1. Cardinality(upTo(h)) \in Nat /\ Cardinality(upTo(i)) \in Nat
      BY <1>3
    <3> QED BY <1>4, <1>5, <3>1
  <2> QED BY <2>1
<1>6. \A k \in 1..m : \E i \in kept : Cardinality(upTo(i)) = k
  <2> DEFINE rank == [i \in kept |-> Cardinality(upTo(i))]
  <2>1. rank \in [kept -> 1..m] /\ \A h, i \in kept : rank[h] = rank[i] => h = i
    BY <1>3, <1>5
  <2>2. rank \in Injection(kept, 1..m)
    <3> HIDE DEF rank
    <3> QED BY <2>1 DEF Injection, IsInjective
  <2>3. IsFiniteSet(1..m) /\ Cardinality(1..m) = m
    BY <1>2, FS_Interval
  <2>4. rank \in Surjection(kept, 1..m)
    <3> HIDE DEF rank
    <3> QED BY <2>2, <2>3, FS_Injection
  <2>5. \A k \in 1..m : \E i \in kept : rank[i] = k
    <3> HIDE DEF rank
    <3> QED BY <2>4 DEF Surjection
  <2> QED BY <2>5
<1> QED BY <1>0, <1>2, <1>3, <1>5, <1>6

LEMMA RowsWithout ==
  ASSUME NEW S, NEW s \in Seq(S), NEW gone
  PROVE  /\ Queue!Without(s, gone) \in Seq(S)
         /\ Queue!ToSet(Queue!Without(s, gone)) = Queue!ToSet(s) \ gone
         /\ Queue!IsInjective(s) => Queue!IsInjective(Queue!Without(s, gone))
<1> DEFINE kept == {i \in DOMAIN s : s[i] \notin gone}
           rank(i) == Queue!Cardinality({j \in kept : j <= i})
           m == Queue!Cardinality(kept)
           nth(k) == CHOOSE i \in kept : rank(i) = k
           w == [k \in 1..m |-> s[nth(k)]]
<1>1. /\ DOMAIN s = 1..Len(s) /\ Len(s) \in Nat /\ kept \in SUBSET (1..Len(s))
      /\ \A i \in 1..Len(s) : s[i] \in S
  OBVIOUS
<1>2. /\ m \in Nat
      /\ \A i \in kept : rank(i) \in 1..m
      /\ \A h, i \in kept : rank(h) = rank(i) => h = i
      /\ \A k \in 1..m : \E i \in kept : rank(i) = k
  <2>1. Len(s) \in Nat /\ kept \in SUBSET (1..Len(s))
    BY <1>1
  <2> HIDE DEF kept
  <2> QED BY <2>1, RanksOfKept
<1>3. Queue!Without(s, gone) = w
  BY DEF Queue!Without
<1>4. \A k \in 1..m : nth(k) \in kept /\ rank(nth(k)) = k
  <2> HIDE DEF kept, rank, m
  <2> QED BY <1>2
<1>5. \A i \in kept : nth(rank(i)) = i
  <2> HIDE DEF kept, rank, m, nth
  <2> QED BY <1>2, <1>4
<1>6. w \in Seq(S)
  <2>1. \A k \in 1..m : s[nth(k)] \in S
    <3> HIDE DEF rank, m, nth
    <3> QED BY <1>1, <1>4
  <2> HIDE DEF kept, rank, m, nth
  <2> QED BY <1>2, <2>1
<1>7. DOMAIN w = 1..m
  <2> HIDE DEF kept, rank, m, nth
  <2> QED OBVIOUS
<1>8. Queue!ToSet(w) = Queue!ToSet(s) \ gone
  <2>1. ASSUME NEW x \in Queue!ToSet(w) PROVE x \in Queue!ToSet(s) \ gone
    <3>1. PICK k \in 1..m : x = s[nth(k)]
      <4> HIDE DEF kept, rank, m, nth
      <4> QED BY <1>7, <2>1 DEF Queue!ToSet
    <3>2. nth(k) \in kept
      BY <1>4
    <3> QED BY <3>1, <3>2 DEF Queue!ToSet
  <2>2. ASSUME NEW x \in Queue!ToSet(s) \ gone PROVE x \in Queue!ToSet(w)
    <3>1. PICK i \in DOMAIN s : x = s[i]
      BY <2>2 DEF Queue!ToSet
    <3>2. i \in kept
      BY <2>2, <3>1
    <3>3. rank(i) \in 1..m /\ nth(rank(i)) = i
      BY <1>2, <1>5, <3>2
    <3> HIDE DEF kept, rank, m, nth
    <3> QED BY <1>7, <3>1, <3>3 DEF Queue!ToSet
  <2> QED BY <2>1, <2>2
<1>9. ASSUME Queue!IsInjective(s) PROVE Queue!IsInjective(w)
  <2>1. ASSUME NEW a \in 1..m, NEW b \in 1..m, s[nth(a)] = s[nth(b)] PROVE a = b
    <3>1. nth(a) \in DOMAIN s /\ nth(b) \in DOMAIN s
      BY <1>4
    <3>2. nth(a) = nth(b)
      <4> HIDE DEF kept, rank, m, nth
      <4> QED BY <1>9, <2>1, <3>1 DEF Queue!IsInjective
    <3> HIDE DEF kept, rank, m, nth
    <3> QED BY <1>4, <3>2
  <2> HIDE DEF kept, rank, m, nth
  <2> QED BY <1>7, <2>1 DEF Queue!IsInjective
<1> HIDE DEF w
<1> QED BY <1>3, <1>6, <1>8, <1>9

(* One item is captured, the row of the capture is kept.                    *)
LEMMA RowsAppended ==
  ASSUME NEW S, NEW s \in Seq(S), NEW n \in S, n \notin Queue!ToSet(s)
  PROVE  /\ Append(s, n) \in Seq(S)
         /\ Queue!ToSet(Append(s, n)) = Queue!ToSet(s) \cup {n}
         /\ Queue!IsInjective(s) => Queue!IsInjective(Append(s, n))
<1> DEFINE t == Append(s, n)
<1>1. /\ t \in Seq(S) /\ DOMAIN t = 1..(Len(s) + 1) /\ DOMAIN s = 1..Len(s) /\ Len(s) \in Nat
      /\ \A i \in DOMAIN s : t[i] = s[i]
      /\ t[Len(s) + 1] = n
  OBVIOUS
<1> HIDE DEF t
<1>2. DOMAIN t = DOMAIN s \cup {Len(s) + 1}
  BY <1>1
<1>3. Queue!ToSet(t) = Queue!ToSet(s) \cup {n}
  BY <1>1, <1>2 DEF Queue!ToSet
<1>4. \A i \in DOMAIN s : s[i] # n
  BY DEF Queue!ToSet
<1>5. Queue!IsInjective(s) => Queue!IsInjective(t)
  BY <1>1, <1>2, <1>4 DEF Queue!IsInjective
<1> QED BY <1>1, <1>3, <1>5 DEF t

LEMMA HeadChanged ==
  ASSUME NEW S, NEW s \in Seq(S), NEW x \in S
  PROVE  /\ [s EXCEPT ![1] = x] \in Seq(S)
         /\ Len([s EXCEPT ![1] = x]) = Len(s)
<1> DEFINE t == [s EXCEPT ![1] = x]
<1>0. s \in [1..Len(s) -> S] /\ Len(s) \in Nat
  OBVIOUS
<1>1. t \in [1..Len(s) -> S]
  BY <1>0
<1>2. t \in Seq(S) /\ Len(t) = Len(s)
  <2> HIDE DEF t
  <2> QED BY <1>0, <1>1
<1> QED BY <1>2

(* Types: a work that runs is in the chain, a batch is finite.              *)
Budget == [changes : Nat, net : Nat, breaks : Nat]
Running == sync.at # "idle" => works # <<>>

(* The items of an answer for this reason that the phone has yet to note.   *)
Deferring(reason) ==
  IF sync.at \in {"confirm", "defer"} /\ sync.reason = reason
  THEN sync.batch \ sync.confirmed ELSE {}

(* What the server confirmed is stored; a row does not wait longer for a    *)
(* subscription than the server has refused its item, unless an answer that *)
(* deferred it for the day's limit has not been noted.                      *)
ConfirmedIsStored ==
  /\ sync.confirmed \subseteq stored
  /\ sync.at = "defer" => sync.confirmed = {}
BlockedSince ==
  /\ \A n \in Items : queueRow[n].reason = "SUBSCRIPTION_REQUIRED" =>
       \/ n \in refused /\ queueRow[n].age <= refusedFor[n]
       \/ n \in unnoted
       \/ n \in Deferring("DAILY_LIMIT_EXCEEDED")
  /\ Deferring("SUBSCRIPTION_REQUIRED") \subseteq refused

QueueInv ==
  Queue!TypeOK /\ Running /\ IsFiniteSet(sync.batch) /\ ConfirmedIsStored /\ BlockedSince

LEMMA QueueRows ==
  Queue!TypeOK <=>
    /\ queue \in Seq(Items) /\ Queue!IsInjective(queue)
    /\ queueRow \in [Items -> Queue!Row]
    /\ works \in Seq(0..Recheck)
    /\ seen \in SUBSET Items /\ capturing \in SUBSET Items
    /\ sync \in Queue!Sync /\ Cardinality(sync.batch) <= BatchSize
    /\ serviceUp \in BOOLEAN /\ server \in Queue!Answers /\ stored \in SUBSET Items
    /\ refused \in SUBSET Items /\ unnoted \in SUBSET Items
    /\ refusedFor \in [Items -> 0..Retention]
    /\ budget \in Budget
<1>1. Queue!Cardinality(sync.batch) = Cardinality(sync.batch)
  BY DEF Queue!Cardinality, Cardinality
<1> QED BY <1>1 DEF Queue!TypeOK, Budget

LEMMA QueueStarts ==
  ASSUME Queue!ConstantsAssumption, Queue!Init
  PROVE  QueueInv
<1> USE DEF Queue!Init
<1>1. /\ 0 \in 0..Retention /\ 0 \in 0..Recheck /\ 0 \in 0..BatchesPerRun
      /\ IsFiniteSet({}) /\ Cardinality({}) = 0 /\ BatchSize \in Nat
  BY FS_EmptySet DEF Queue!ConstantsAssumption
<1>2. Queue!NewRow \in Queue!Row /\ Queue!NewRow.reason = "none"
  BY <1>1 DEF Queue!NewRow, Queue!Row, Queue!Reasons
<1>3. /\ Queue!IdleSync \in Queue!Sync /\ Queue!IdleSync.at = "idle"
      /\ Queue!IdleSync.batch = {} /\ Queue!IdleSync.confirmed = {}
  BY <1>1 DEF Queue!IdleSync, Queue!Sync, Queue!Reasons
<1>4. queue \in Seq(Items) /\ Queue!IsInjective(queue) /\ works \in Seq(0..Recheck)
  BY <1>1 DEF Queue!IsInjective
<1>5. Queue!TypeOK
  BY <1>1, <1>2, <1>3, <1>4, QueueRows DEF Budget
<1> QED BY <1>1, <1>2, <1>3, <1>5
         DEF QueueInv, Running, ConfirmedIsStored, BlockedSince, Deferring

(* The steps of the worker                                                  *)
LEMMA QueueRetries ==
  ASSUME QueueInv, Queue!ConstantsAssumption, Queue!Retry
  PROVE  /\ sync' \in Queue!Sync /\ sync' = Queue!IdleSync
         /\ works' \in Seq(0..Recheck)
         /\ IsFiniteSet(sync'.batch) /\ Cardinality(sync'.batch) <= BatchSize
         /\ sync'.at = "idle" /\ sync'.confirmed = {}
<1>1. /\ 0 \in 0..Retention /\ 0 \in 0..Recheck /\ 0 \in 0..BatchesPerRun
      /\ IsFiniteSet({}) /\ Cardinality({}) = 0 /\ BatchSize \in Nat
  BY FS_EmptySet DEF Queue!ConstantsAssumption
<1>2. /\ Queue!IdleSync \in Queue!Sync /\ Queue!IdleSync.at = "idle"
      /\ Queue!IdleSync.batch = {} /\ Queue!IdleSync.confirmed = {}
  BY <1>1 DEF Queue!IdleSync, Queue!Sync, Queue!Reasons
<1>3. works \in Seq(0..Recheck)
  BY QueueRows DEF QueueInv
<1>4. works' \in Seq(0..Recheck)
  BY <1>1, <1>3, HeadChanged DEF Queue!Retry
<1> QED BY <1>1, <1>2, <1>4 DEF Queue!Retry

(* What leaves is stored, or has been refused for the whole window.         *)
MayLeave(n) == n \in stored \/ (n \in refused /\ refusedFor[n] >= Retention) \/ n \in unnoted
Leaves == \A n \in Queue!Queued \ Queue!ToSet(queue') : MayLeave(n)

(* Steps that leave the rows alone                                          *)
LEMMA SameRows ==
  ASSUME QueueInv, UNCHANGED <<queue, queueRow, refused, refusedFor>>,
         \/ UNCHANGED unnoted /\ \/ sync' = sync
                                 \/ sync.at \notin {"confirm", "defer"}
                                 \/ sync.reason = "other"
         \/ unnoted' = unnoted \cup Deferring("DAILY_LIMIT_EXCEEDED"),
         sync' = sync \/ sync'.at \notin {"confirm", "defer"},
         stored \subseteq stored', stored' \in SUBSET Items, works' \in Seq(0..Recheck),
         seen' \in SUBSET Items, capturing' \in SUBSET Items, serviceUp' \in BOOLEAN,
         server' \in Queue!Answers, budget' \in Budget,
         sync' \in Queue!Sync, IsFiniteSet(sync'.batch), Cardinality(sync'.batch) <= BatchSize,
         Running', sync'.confirmed \subseteq stored'
  PROVE  QueueInv' /\ Leaves
<1> USE QueueRows
<1>0. /\ sync.batch \in SUBSET Items /\ unnoted \in SUBSET Items
      /\ queueRow' = queueRow /\ refused' = refused /\ refusedFor' = refusedFor
  BY DEF QueueInv, Queue!Sync
<1>1. Queue!TypeOK'
  <2>1. Queue!Cardinality(sync'.batch) = Cardinality(sync'.batch)
    BY DEF Queue!Cardinality, Cardinality
  <2>2. unnoted' \in SUBSET Items
    BY <1>0 DEF Deferring
  <2> QED BY <2>1, <2>2 DEF QueueInv, Queue!TypeOK, Budget
<1>2. BlockedSince'
  <2>1. \A n \in unnoted \cup Deferring("DAILY_LIMIT_EXCEEDED") :
          n \in unnoted' \/ n \in Deferring("DAILY_LIMIT_EXCEEDED")'
    BY DEF Deferring
  <2>2. Deferring("SUBSCRIPTION_REQUIRED")' \subseteq refused'
    BY <1>0 DEF QueueInv, BlockedSince, Deferring
  <2>3. ASSUME NEW n \in Items, queueRow'[n].reason = "SUBSCRIPTION_REQUIRED"
        PROVE  \/ n \in refused' /\ queueRow'[n].age <= refusedFor'[n]
               \/ n \in unnoted'
               \/ n \in Deferring("DAILY_LIMIT_EXCEEDED")'
    BY <1>0, <2>1, <2>3 DEF QueueInv, BlockedSince
  <2> QED BY <2>2, <2>3 DEF BlockedSince
<1>4. ConfirmedIsStored'
  BY DEF QueueInv, ConfirmedIsStored
<1>3. Leaves
  BY DEF Leaves, Queue!Queued
<1> QED BY <1>1, <1>2, <1>3, <1>4 DEF QueueInv

(* Rows are deleted: those that the server confirmed, or that expired.      *)
LEMMA RowsDeleted ==
  ASSUME QueueInv, NEW gone, Queue!DeleteRows(gone),
         \A n \in gone \cap Queue!Queued : MayLeave(n),
         \A reason \in Queue!Reasons : Deferring(reason)' = Deferring(reason) \ gone,
         Queue!ConstantsAssumption,
         UNCHANGED <<works, seen, capturing, serviceUp, server, stored, budget>>,
         sync' \in Queue!Sync, IsFiniteSet(sync'.batch), Cardinality(sync'.batch) <= BatchSize,
         Running', ConfirmedIsStored'
  PROVE  QueueInv' /\ Leaves
<1> USE QueueRows DEF QueueInv
<1>0. /\ queue' = Queue!Without(queue, gone)
      /\ queueRow' = [n \in Items |-> IF n \in gone THEN Queue!NewRow ELSE queueRow[n]]
      /\ refused' = refused \ gone /\ unnoted' = unnoted \ gone
      /\ refusedFor' = [n \in Items |-> IF n \in refused \ gone THEN refusedFor[n] ELSE 0]
  BY DEF Queue!DeleteRows, Queue!Refused
<1>1. queue' \in Seq(Items) /\ Queue!IsInjective(queue')
      /\ Queue!ToSet(queue') = Queue!ToSet(queue) \ gone
  BY <1>0, RowsWithout
<1>2. 0 \in 0..Retention /\ Queue!NewRow \in Queue!Row /\ Queue!NewRow.reason = "none"
  BY DEF Queue!NewRow, Queue!Row, Queue!Reasons, Queue!ConstantsAssumption
<1>3. /\ queueRow' \in [Items -> Queue!Row] /\ refusedFor' \in [Items -> 0..Retention]
      /\ refused' \in SUBSET Items /\ unnoted' \in SUBSET Items
  BY <1>0, <1>2
<1>4. Queue!TypeOK'
  <2>1. Queue!Cardinality(sync'.batch) = Cardinality(sync'.batch)
    BY DEF Queue!Cardinality, Cardinality
  <2>2. Queue!IsInjective(queue)'
    BY <1>1 DEF Queue!IsInjective
  <2> QED BY <1>1, <1>3, <2>1, <2>2 DEF Queue!TypeOK, Budget
<1>5. BlockedSince'
  <2>0. {"SUBSCRIPTION_REQUIRED", "DAILY_LIMIT_EXCEEDED"} \subseteq Queue!Reasons
    BY DEF Queue!Reasons
  <2>1. Deferring("SUBSCRIPTION_REQUIRED")' \subseteq refused'
    BY <1>0, <2>0 DEF BlockedSince
  <2>2. ASSUME NEW n \in Items, queueRow'[n].reason = "SUBSCRIPTION_REQUIRED"
        PROVE  \/ n \in refused' /\ queueRow'[n].age <= refusedFor'[n]
               \/ n \in unnoted'
               \/ n \in Deferring("DAILY_LIMIT_EXCEEDED")'
    <3>1. n \notin gone /\ queueRow'[n] = queueRow[n]
      BY <1>0, <1>2, <2>2
    <3> QED BY <1>0, <2>0, <2>2, <3>1 DEF BlockedSince
  <2> QED BY <2>1, <2>2 DEF BlockedSince
<1>7. Leaves
  BY <1>1 DEF Leaves, Queue!Queued
<1> QED BY <1>4, <1>5, <1>7

LEMMA OneAppended ==
  ASSUME NEW S, NEW s \in Seq(S), NEW x \in S
  PROVE  Append(s, x) \in Seq(S) /\ Append(s, x) # <<>>
<1>1. Append(s, x) \in Seq(S) /\ Len(Append(s, x)) = Len(s) + 1 /\ Len(s) \in Nat
  OBVIOUS
<1>2. Len(<<>>) = 0
  OBVIOUS
<1> QED BY <1>1, <1>2

LEMMA CaptureKeeps ==
  ASSUME QueueInv, Queue!ConstantsAssumption, NEW n \in Items,
         Queue!Capture(n) \/ Queue!ScheduleCapture(n)
  PROVE  QueueInv' /\ Leaves
<1> USE QueueRows
<1>0. 0 \in 0..Recheck
  BY DEF Queue!ConstantsAssumption
<1>1. CASE Queue!Capture(n) /\ n \notin Queue!Queued
  <2>1. /\ queue' = Append(queue, n) /\ n \notin Queue!ToSet(queue)
        /\ seen' = seen \cup {n} /\ capturing' = capturing \cup {n}
        /\ UNCHANGED <<queueRow, works, sync, serviceUp, server, stored, refused, refusedFor,
                        unnoted, budget>>
    BY <1>1 DEF Queue!Capture, Queue!Queued, Queue!history
  <2>2. /\ queue' \in Seq(Items) /\ Queue!IsInjective(queue')
        /\ Queue!ToSet(queue') = Queue!ToSet(queue) \cup {n}
    BY <2>1, RowsAppended DEF QueueInv
  <2>3. Queue!TypeOK'
    <3>1. Queue!IsInjective(queue)' /\ Queue!Cardinality(sync'.batch) = Cardinality(sync'.batch)
      BY <2>2 DEF Queue!IsInjective, Queue!Cardinality, Cardinality
    <3> QED BY <2>1, <2>2, <3>1 DEF QueueInv, Queue!TypeOK, Budget
  <2>4. Running' /\ ConfirmedIsStored' /\ BlockedSince' /\ IsFiniteSet(sync'.batch)
    BY <2>1 DEF QueueInv, Running, ConfirmedIsStored, BlockedSince, Deferring
  <2>5. Leaves
    BY <2>2 DEF Leaves, Queue!Queued
  <2> QED BY <2>3, <2>4, <2>5 DEF QueueInv
<1>2. CASE Queue!Capture(n) /\ n \in Queue!Queued
  BY <1>2, SameRows DEF Queue!Capture, Queue!history, QueueInv, Running, ConfirmedIsStored
<1>3. CASE Queue!ScheduleCapture(n)
  <2>1. works' = Append(works, 0) /\ works' \in Seq(0..Recheck) /\ works' # <<>>
    <3>1. works' = Append(works, 0) /\ works \in Seq(0..Recheck)
      BY <1>3 DEF Queue!ScheduleCapture, Queue!Schedule, QueueInv
    <3> QED BY <1>0, <3>1, OneAppended
  <2> QED BY <1>3, <2>1, SameRows
           DEF Queue!ScheduleCapture, Queue!history, QueueInv, Running, ConfirmedIsStored
<1> QED BY <1>1, <1>2, <1>3

(* The worker goes on: its record, field by field                           *)
LEMMA Numbered ==
  ASSUME Queue!ConstantsAssumption
  PROVE  /\ 0 \in 0..Retention /\ 0 \in 0..Recheck /\ Recheck \in 0..Recheck
         /\ 0 \in 0..BatchesPerRun /\ BatchesPerRun \in 0..BatchesPerRun
         /\ {BatchSize, BatchesPerRun, Recheck, Retention} \subseteq Nat \ {0}
         /\ IsFiniteSet({}) /\ Cardinality({}) = 0
BY FS_EmptySet DEF Queue!ConstantsAssumption

LEMMA IdleTyped ==
  ASSUME Queue!ConstantsAssumption
  PROVE  /\ Queue!IdleSync \in Queue!Sync /\ Queue!IdleSync.at = "idle"
         /\ Queue!IdleSync.batch = {} /\ Queue!IdleSync.confirmed = {}
         /\ \A stage \in {"expire", "schedule", "done"} :
              LET s == [Queue!IdleSync EXCEPT !.at = stage]
              IN  /\ s \in Queue!Sync /\ s.at = stage /\ s.batch = {} /\ s.confirmed = {}
         /\ IsFiniteSet({}) /\ Cardinality({}) <= BatchSize
BY Numbered DEF Queue!IdleSync, Queue!Sync, Queue!Reasons

LEMMA NextBatchTyped ==
  ASSUME QueueInv, Queue!ConstantsAssumption
  PROVE  /\ Queue!ToSet(Queue!NextBatch) \in SUBSET Items
         /\ IsFiniteSet(Queue!ToSet(Queue!NextBatch))
         /\ Cardinality(Queue!ToSet(Queue!NextBatch)) <= BatchSize
<1> DEFINE ready == Queue!Without(queue, {n \in Items : queueRow[n].wait # 0})
           m == IF Len(ready) < BatchSize THEN Len(ready) ELSE BatchSize
           next == SubSeq(ready, 1, m)
<1>1. ready \in Seq(Items)
  BY QueueRows, RowsWithout DEF QueueInv
<1>2. BatchSize \in Nat
  BY Numbered
<1>3. Queue!NextBatch = next
  BY DEF Queue!NextBatch
<1> HIDE DEF ready
<1>4. m \in Nat /\ m <= Len(ready) /\ m <= BatchSize /\ Len(ready) \in Nat
  BY <1>1, <1>2
<1>5. DOMAIN next = 1..m /\ \A i \in 1..m : next[i] = ready[i] /\ ready[i] \in Items
  <2> HIDE DEF m
  <2> QED BY <1>1, <1>4
<1> HIDE DEF m, next
<1>6. Queue!ToSet(next) \in SUBSET Items
  BY <1>5 DEF Queue!ToSet
<1>7. IsFiniteSet(Queue!ToSet(next)) /\ Cardinality(Queue!ToSet(next)) <= m
      /\ Cardinality(Queue!ToSet(next)) \in Nat
  <2> DEFINE f == [i \in 1..m |-> next[i]]
  <2>1. IsFiniteSet(1..m) /\ Cardinality(1..m) = m
    BY <1>4, FS_Interval
  <2>2. f \in Surjection(1..m, Queue!ToSet(next))
    BY <1>5 DEF Surjection, Queue!ToSet
  <2>3. IsFiniteSet(Queue!ToSet(next)) /\ Cardinality(Queue!ToSet(next)) <= m
    <3> HIDE DEF f
    <3> QED BY <2>1, <2>2, FS_Surjection
  <2> QED BY <2>3, FS_CardinalityType
<1> QED BY <1>2, <1>3, <1>4, <1>6, <1>7

LEMMA WorkStarts ==
  ASSUME QueueInv, Queue!ConstantsAssumption, Queue!StartWork \/ Queue!TakeBatch
  PROVE  QueueInv' /\ Leaves
<1> USE QueueRows
<1>1. CASE Queue!StartWork
  BY <1>1, IdleTyped, SameRows DEF Queue!StartWork, Queue!history, QueueInv, Running
<1>2. CASE Queue!TakeBatch
  <2>0. /\ sync \in Queue!Sync /\ works # <<>> /\ sync.left > 0 /\ sync.left \in 0..BatchesPerRun
        /\ BatchesPerRun \in Nat /\ sync.confirmed \subseteq stored
    BY <1>2, Numbered DEF Queue!TakeBatch, Queue!Sync, QueueInv, Running, ConfirmedIsStored
  <2>1. CASE Queue!NextBatch = <<>>
    <3>1. sync' = [Queue!IdleSync EXCEPT !.at = "done"]
      BY <1>2, <2>1 DEF Queue!TakeBatch
    <3> QED BY <1>2, <2>0, <3>1, IdleTyped, SameRows DEF Queue!TakeBatch, Queue!history, QueueInv, Running
  <2>2. CASE Queue!NextBatch # <<>>
    <3> DEFINE batch == Queue!ToSet(Queue!NextBatch)
               new == [[[sync EXCEPT !.at = "send"] EXCEPT !.batch = batch] EXCEPT !.left = @ - 1]
    <3>1. sync' = new
      BY <1>2, <2>0, <2>2 DEF Queue!TakeBatch, Queue!Sync
    <3>2. batch \in SUBSET Items /\ IsFiniteSet(batch) /\ Cardinality(batch) <= BatchSize
      BY NextBatchTyped
    <3> HIDE DEF batch
    <3> DEFINE fewer == sync.left - 1
               sent == [sync EXCEPT !.at = "send"]
               taken == [sent EXCEPT !.batch = batch]
    <3>3. fewer \in 0..BatchesPerRun
      BY <2>0
    <3>4. /\ sent \in Queue!Sync /\ sent.at = "send"
          /\ sent.confirmed = sync.confirmed /\ sent.left = sync.left
      BY <2>0 DEF Queue!Sync
    <3>5. /\ taken \in Queue!Sync /\ taken.at = "send" /\ taken.batch = batch
          /\ taken.confirmed = sync.confirmed /\ taken.left = sync.left
      <4> HIDE DEF sent
      <4> QED BY <3>2, <3>4 DEF Queue!Sync
    <3>6. new = [taken EXCEPT !.left = fewer]
      <4> HIDE DEF sent
      <4> QED BY <3>5 DEF sent
    <3>7. /\ new \in Queue!Sync /\ new.at = "send"
          /\ new.batch = batch /\ new.confirmed = sync.confirmed
      <4>1. taken \in Queue!Sync
        BY <3>5
      <4> HIDE DEF taken, new, fewer
      <4>2. /\ [taken EXCEPT !.left = fewer] \in Queue!Sync
            /\ [taken EXCEPT !.left = fewer].at = taken.at
            /\ [taken EXCEPT !.left = fewer].batch = taken.batch
            /\ [taken EXCEPT !.left = fewer].confirmed = taken.confirmed
        BY <3>3, <4>1 DEF Queue!Sync
      <4> QED BY <3>5, <3>6, <4>2
    <3> HIDE DEF new
    <3> QED BY <1>2, <2>0, <3>1, <3>2, <3>7, SameRows DEF Queue!TakeBatch, Queue!history, QueueInv, Running
  <2> QED BY <2>1, <2>2
<1> QED BY <1>1, <1>2

LEMMA WorkEnds ==
  ASSUME QueueInv, Queue!ConstantsAssumption,
         Queue!LeaveLoop \/ Queue!ScheduleRecheck \/ Queue!FinishWork
  PROVE  QueueInv' /\ Leaves
<1> USE QueueRows
<1>0. /\ sync \in Queue!Sync /\ works \in Seq(0..Recheck)
      /\ sync.confirmed \subseteq stored
      /\ IsFiniteSet(sync.batch) /\ Cardinality(sync.batch) <= BatchSize
      /\ "done" \in {"idle", "expire", "batch", "send", "confirm", "defer", "schedule", "done"}
  BY DEF QueueInv, ConfirmedIsStored
<1>d. LET s == [sync EXCEPT !.at = "done"]
      IN  /\ s \in Queue!Sync /\ s.at = "done"
          /\ s.batch = sync.batch /\ s.confirmed = sync.confirmed
  BY <1>0 DEF Queue!Sync
<1>1. CASE Queue!LeaveLoop /\ queue = <<>>
  <2>1. sync' = [sync EXCEPT !.at = "done"] /\ UNCHANGED works /\ sync.at # "idle"
    BY <1>1 DEF Queue!LeaveLoop
  <2> QED BY <1>0, <1>1, <1>d, <2>1, SameRows DEF Queue!LeaveLoop, Queue!history, QueueInv, Running
<1>2. CASE Queue!LeaveLoop /\ queue # <<>>
  <2>1. Queue!Retry
    BY <1>2 DEF Queue!LeaveLoop
  <2> QED BY <1>2, <2>1, QueueRetries, SameRows DEF Queue!LeaveLoop, Queue!history, QueueInv, Running
<1>3. CASE Queue!ScheduleRecheck
  <2>1. works' = Append(works, Recheck) /\ Recheck \in 0..Recheck
    BY <1>3, Numbered DEF Queue!ScheduleRecheck, Queue!Schedule, Queue!RecheckDelay
  <2>2. works' \in Seq(0..Recheck) /\ works' # <<>>
    BY <1>0, <2>1, OneAppended
  <2> QED BY <1>0, <1>3, <1>d, <2>2, SameRows DEF Queue!ScheduleRecheck, Queue!history, QueueInv, Running
<1>4. CASE Queue!FinishWork
  <2>1. works' = Tail(works) /\ works # <<>> /\ sync' = Queue!IdleSync
    BY <1>4 DEF Queue!FinishWork, QueueInv, Running
  <2>2. works' \in Seq(0..Recheck)
    BY <1>0, <2>1
  <2> QED BY <1>4, <2>1, <2>2, IdleTyped, SameRows DEF Queue!FinishWork, Queue!history, QueueInv, Running
<1> QED BY <1>1, <1>2, <1>3, <1>4 DEF Queue!LeaveLoop

(* The server confirms at most the batch.                                   *)
LEMMA Confirms ==
  ASSUME QueueInv, NEW confirmed \in Queue!Confirmable(sync.batch)
  PROVE  confirmed \in SUBSET sync.batch
BY DEF Queue!Confirmable

(* A fault or a change of the server is counted.                            *)
LEMMA FaultCounted ==
  ASSUME QueueInv
  PROVE  /\ [budget EXCEPT !.net = @ + 1] \in Budget
         /\ [budget EXCEPT !.breaks = @ + 1] \in Budget
         /\ [budget EXCEPT !.changes = @ + 1] \in Budget
<1>1. budget \in Budget
  BY QueueRows DEF QueueInv
<1> QED BY <1>1 DEF Budget

(* Steps that keep the rows in the queue and change what they wait for      *)
LEMMA RowsChanged ==
  ASSUME QueueInv, UNCHANGED <<queue, seen, capturing, serviceUp, server, budget>>,
         stored \subseteq stored', stored' \in SUBSET Items,
         queueRow' \in [Items -> Queue!Row], refusedFor' \in [Items -> 0..Retention],
         refused' \in SUBSET Items, unnoted' \in SUBSET Items,
         BlockedSince', works' \in Seq(0..Recheck),
         sync' \in Queue!Sync, IsFiniteSet(sync'.batch), Cardinality(sync'.batch) <= BatchSize,
         Running', ConfirmedIsStored'
  PROVE  QueueInv' /\ Leaves
<1> USE QueueRows
<1>1. Queue!TypeOK'
  <2>1. Queue!Cardinality(sync'.batch) = Cardinality(sync'.batch)
    BY DEF Queue!Cardinality, Cardinality
  <2> QED BY <2>1 DEF QueueInv, Queue!TypeOK, Budget
<1>3. Leaves
  BY DEF Leaves, Queue!Queued
<1> QED BY <1>1, <1>3 DEF QueueInv

LEMMA Sends ==
  ASSUME QueueInv, Queue!ConstantsAssumption, Queue!Send \/ Queue!LoseAnswer
  PROVE  QueueInv' /\ Leaves
<1> USE QueueRows
<1>0. /\ sync \in Queue!Sync /\ sync.batch \in SUBSET Items /\ stored \in SUBSET Items
      /\ IsFiniteSet(sync.batch) /\ Cardinality(sync.batch) <= BatchSize
      /\ server \in Queue!Answers
  BY DEF QueueInv, Queue!Sync
<1>1. CASE Queue!Send
  <2>1. PICK confirmed \in Queue!Confirmable(sync.batch) :
          /\ stored' = stored \cup confirmed
          /\ sync' = [sync EXCEPT !.at = "confirm", !.confirmed = confirmed,
                                   !.reason = Queue!Refusal]
          /\ Queue!Refused(CASE Queue!Refusal = "SUBSCRIPTION_REQUIRED" ->
                                   refused \cup (sync.batch \ confirmed)
                              [] Queue!Refusal = "DAILY_LIMIT_EXCEEDED" ->
                                   refused \ (sync.batch \ confirmed)
                              [] OTHER -> refused)
    BY <1>1 DEF Queue!Send
  <2>2. confirmed \in SUBSET Items /\ sync.at = "send"
    BY <1>0, <1>1, Confirms DEF Queue!Send
  <2>3. Queue!Refusal \in Queue!Reasons
    BY <1>0 DEF Queue!Refusal, Queue!Reasons, Queue!Answers
  <2> DEFINE new == [[[sync EXCEPT !.at = "confirm"] EXCEPT !.confirmed = confirmed]
                       EXCEPT !.reason = Queue!Refusal]
  <2>4. sync' = new
    BY <1>0, <2>1 DEF Queue!Sync
  <2>5. /\ new \in Queue!Sync /\ new.at = "confirm" /\ new.reason = Queue!Refusal
        /\ new.batch = sync.batch /\ new.confirmed = confirmed
    BY <1>0, <2>2, <2>3 DEF Queue!Sync
  <2> HIDE DEF new
  <2> DEFINE left == sync.batch \ confirmed
  <2>6. /\ Queue!Refusal = "SUBSCRIPTION_REQUIRED" => refused' = refused \cup left
        /\ Queue!Refusal = "DAILY_LIMIT_EXCEEDED" => refused' = refused \ left
        /\ Queue!Refusal \notin {"SUBSCRIPTION_REQUIRED", "DAILY_LIMIT_EXCEEDED"}
             => refused' = refused
    BY <2>1 DEF Queue!Refused
  <2>7. refusedFor' = [n \in Items |-> IF n \in refused' THEN refusedFor[n] ELSE 0]
    BY <2>1 DEF Queue!Refused
  <2>8. /\ refused' \in SUBSET Items /\ refusedFor' \in [Items -> 0..Retention]
        /\ unnoted' = unnoted /\ queueRow' = queueRow
    <3>1. /\ refused \in SUBSET Items /\ refusedFor \in [Items -> 0..Retention]
          /\ 0 \in 0..Retention /\ left \in SUBSET Items
      BY <1>0, Numbered DEF QueueInv
    <3> HIDE DEF left
    <3> QED BY <1>1, <2>6, <2>7, <3>1 DEF Queue!Send
  <2>9. /\ Deferring("SUBSCRIPTION_REQUIRED")'
              = IF Queue!Refusal = "SUBSCRIPTION_REQUIRED" THEN left ELSE {}
        /\ Deferring("DAILY_LIMIT_EXCEEDED")'
              = IF Queue!Refusal = "DAILY_LIMIT_EXCEEDED" THEN left ELSE {}
    BY <2>4, <2>5 DEF Deferring
  <2>10. ASSUME NEW n \in Items, queueRow'[n].reason = "SUBSCRIPTION_REQUIRED"
         PROVE  \/ n \in refused' /\ queueRow'[n].age <= refusedFor'[n]
                \/ n \in unnoted'
                \/ n \in Deferring("DAILY_LIMIT_EXCEEDED")'
    <3>1. (n \in refused /\ queueRow[n].age <= refusedFor[n]) \/ n \in unnoted
      BY <2>2, <2>8, <2>10 DEF QueueInv, BlockedSince, Deferring
    <3> HIDE DEF left
    <3>2. CASE n \in refused'
      BY <2>6, <2>7, <2>8, <2>9, <3>1, <3>2
    <3>3. CASE n \notin refused'
      BY <2>6, <2>8, <2>9, <3>1, <3>3
    <3> QED BY <3>2, <3>3
  <2>11. BlockedSince'
    BY <2>6, <2>9, <2>10 DEF BlockedSince
  <2>12. ConfirmedIsStored' /\ Running'
    BY <1>1, <2>1, <2>4, <2>5 DEF Queue!Send, QueueInv, Running, ConfirmedIsStored
  <2>13. unnoted' \in SUBSET Items /\ queueRow' \in [Items -> Queue!Row]
         /\ works' \in Seq(0..Recheck)
    BY <1>1, <2>8 DEF QueueInv, Queue!Send
  <2>14. UNCHANGED <<queue, seen, capturing, serviceUp, server, budget>>
    BY <1>1 DEF Queue!Send
  <2>15. stored \subseteq stored' /\ stored' \in SUBSET Items
    BY <1>0, <2>1, <2>2
  <2> QED BY <1>0, <2>4, <2>5, <2>8, <2>11, <2>12, <2>13, <2>14, <2>15, RowsChanged
<1>2. CASE Queue!LoseAnswer
  <2>1. stored \subseteq stored' /\ stored' \in SUBSET Items
    BY <1>0, <1>2, Confirms DEF Queue!LoseAnswer
  <2>2. budget' \in Budget /\ Queue!Retry
    BY <1>2, FaultCounted DEF Queue!LoseAnswer
  <2> QED BY <1>2, <2>1, <2>2, QueueRetries, SameRows DEF Queue!LoseAnswer, Queue!history, QueueInv, Running
<1> QED BY <1>1, <1>2

LEMMA DeletesRows ==
  ASSUME QueueInv, Queue!ConstantsAssumption, Queue!DeleteExpired \/ Queue!DeleteConfirmed
  PROVE  QueueInv' /\ Leaves
<1> USE QueueRows
<1>0. /\ sync \in Queue!Sync /\ sync.batch \in SUBSET Items /\ sync.confirmed \subseteq stored
      /\ IsFiniteSet(sync.batch) /\ Cardinality(sync.batch) <= BatchSize
      /\ BatchSize \in Nat /\ Retention \in Nat
      /\ BatchesPerRun \in 0..BatchesPerRun
  BY Numbered DEF QueueInv, Queue!Sync, ConfirmedIsStored
<1>1. CASE Queue!DeleteExpired
  <2> DEFINE gone == {n \in Queue!Queued : Queue!Expired(n)}
             new == [[sync EXCEPT !.at = "batch"] EXCEPT !.left = BatchesPerRun]
  <2>1. Queue!DeleteRows(gone) /\ sync.at = "expire"
    BY <1>1 DEF Queue!DeleteExpired
  <2>2. ASSUME NEW n \in gone \cap Queue!Queued PROVE MayLeave(n)
    <3>1. n \in Items
      BY DEF Queue!Queued, Queue!ToSet, QueueInv
    <3>2. /\ queueRow[n] \in Queue!Row /\ refusedFor[n] \in 0..Retention
          /\ queueRow[n].reason = "SUBSCRIPTION_REQUIRED" /\ queueRow[n].age >= Retention
      BY <3>1 DEF Queue!Expired, QueueInv
    <3>3. queueRow[n].age \in 0..Retention
      BY <3>2 DEF Queue!Row
    <3>4. (n \in refused /\ queueRow[n].age <= refusedFor[n]) \/ n \in unnoted
      BY <2>1, <3>1, <3>2 DEF QueueInv, BlockedSince, Deferring
    <3> HIDE DEF gone
    <3> QED BY <1>0, <3>2, <3>3, <3>4 DEF MayLeave
  <2>3. sync' = new
    BY <1>0, <1>1 DEF Queue!DeleteExpired, Queue!Sync
  <2>4. /\ new \in Queue!Sync /\ new.at = "batch"
        /\ new.batch = sync.batch /\ new.confirmed = sync.confirmed
    BY <1>0 DEF Queue!Sync
  <2> HIDE DEF gone, new
  <2>5. Running' /\ ConfirmedIsStored'
    BY <1>0, <1>1, <2>3, <2>4 DEF Queue!DeleteExpired, QueueInv, Running, ConfirmedIsStored
  <2>6. \A reason \in Queue!Reasons : Deferring(reason)' = Deferring(reason) \ gone
    BY <2>1, <2>3, <2>4 DEF Deferring
  <2> QED BY <1>0, <1>1, <2>1, <2>2, <2>3, <2>4, <2>5, <2>6, RowsDeleted DEF Queue!DeleteExpired
<1>2. CASE Queue!DeleteConfirmed
  <2> DEFINE next == IF sync.batch = sync.confirmed THEN "batch" ELSE "defer"
             left == sync.batch \ sync.confirmed
             new == [[[sync EXCEPT !.at = next] EXCEPT !.batch = left] EXCEPT !.confirmed = {}]
  <2>1. Queue!DeleteRows(sync.confirmed) /\ sync.at = "confirm"
    BY <1>2 DEF Queue!DeleteConfirmed
  <2>2. sync' = new
    BY <1>0, <1>2 DEF Queue!DeleteConfirmed, Queue!Sync
  <2>3. /\ new \in Queue!Sync /\ new.at = next /\ new.reason = sync.reason
        /\ new.batch = left /\ new.confirmed = {}
    <3>1. left \in SUBSET Items /\ next \in {"batch", "defer"}
      BY <1>0
    <3> HIDE DEF next, left
    <3> QED BY <1>0, <3>1 DEF Queue!Sync
  <2>4. IsFiniteSet(left) /\ Cardinality(left) <= BatchSize
    <3>1. left \in SUBSET sync.batch
      OBVIOUS
    <3>2. IsFiniteSet(left) /\ Cardinality(left) <= Cardinality(sync.batch)
      <4> HIDE DEF left
      <4> QED BY <1>0, <3>1, FS_Subset
    <3>3. Cardinality(left) \in Nat /\ Cardinality(sync.batch) \in Nat
      BY <1>0, <3>2, FS_CardinalityType
    <3> QED BY <1>0, <3>2, <3>3
  <2> HIDE DEF new
  <2>5. Running' /\ ConfirmedIsStored'
    BY <1>2, <2>2, <2>3 DEF Queue!DeleteConfirmed, QueueInv, Running, ConfirmedIsStored
  <2>6. \A reason \in Queue!Reasons : Deferring(reason)' = Deferring(reason) \ sync.confirmed
    BY <2>1, <2>2, <2>3 DEF Deferring
  <2>7. \A n \in sync.confirmed \cap Queue!Queued : MayLeave(n)
    BY <1>0 DEF MayLeave
  <2> HIDE DEF left
  <2> QED BY <1>0, <1>2, <2>1, <2>2, <2>3, <2>4, <2>5, <2>6, <2>7, RowsDeleted
           DEF Queue!DeleteConfirmed
<1> QED BY <1>1, <1>2

LEMMA Defers ==
  ASSUME QueueInv, Queue!ConstantsAssumption, Queue!Defer
  PROVE  QueueInv' /\ Leaves
<1> USE QueueRows
<1>0. /\ sync \in Queue!Sync /\ works \in Seq(0..Recheck) /\ works # <<>>
      /\ queueRow \in [Items -> Queue!Row] /\ refusedFor \in [Items -> 0..Retention]
      /\ refused \in SUBSET Items /\ unnoted \in SUBSET Items
      /\ sync.reason \in Queue!Reasons /\ sync.at = "defer" /\ sync.confirmed = {}
      /\ UNCHANGED <<queue, seen, capturing, serviceUp, server, stored, refused, refusedFor,
                      budget>>
  BY DEF QueueInv, Queue!Sync, Queue!Defer, Running, ConfirmedIsStored
<1>1. CASE sync.reason # "other"
  <2>1. /\ queueRow' = [n \in Items |-> IF n \in sync.batch
                                          THEN Queue!Deferred(queueRow[n], sync.reason)
                                          ELSE queueRow[n]]
        /\ unnoted' = IF sync.reason = "DAILY_LIMIT_EXCEEDED" THEN unnoted \ sync.batch
                      ELSE unnoted
        /\ sync' = [Queue!IdleSync EXCEPT !.at = "schedule"]
        /\ UNCHANGED works
    BY <1>1 DEF Queue!Defer
  <2>2. ASSUME NEW n \in Items
        PROVE  LET d == Queue!Deferred(queueRow[n], sync.reason)
               IN  /\ d \in Queue!Row /\ d.reason = sync.reason
                   /\ d.age = IF queueRow[n].reason = sync.reason THEN queueRow[n].age ELSE 0
    <3>1. queueRow[n].age \in 0..Retention
      BY <1>0 DEF Queue!Row
    <3> QED BY <1>0, <1>1, <3>1, Numbered DEF Queue!Deferred, Queue!Row
  <2>3. queueRow' \in [Items -> Queue!Row] /\ unnoted' \in SUBSET Items
    BY <1>0, <2>1, <2>2
  <2>4. sync'.at = "schedule" /\ sync'.confirmed = {}
    BY <2>1, IdleTyped
  <2>5. BlockedSince'
    <3>0. Deferring("SUBSCRIPTION_REQUIRED")' = {}
      BY <2>4 DEF Deferring
    <3> SUFFICES ASSUME NEW n \in Items, queueRow'[n].reason = "SUBSCRIPTION_REQUIRED"
                 PROVE  (n \in refused /\ queueRow'[n].age <= refusedFor[n]) \/ n \in unnoted'
      BY <1>0, <3>0 DEF BlockedSince
    <3>1. refusedFor[n] \in 0..Retention /\ 0 <= refusedFor[n]
      BY <1>0, Numbered
    <3>2. CASE n \in sync.batch
      <4>1. queueRow'[n] = Queue!Deferred(queueRow[n], sync.reason)
        BY <2>1, <3>2
      <4>2. sync.reason = "SUBSCRIPTION_REQUIRED" /\ unnoted' = unnoted
        BY <2>1, <2>2, <4>1
      <4>3. queueRow'[n].age = IF queueRow[n].reason = sync.reason THEN queueRow[n].age ELSE 0
        BY <2>2, <4>1
      <4>4. n \in refused
        BY <1>0, <3>2, <4>2 DEF QueueInv, BlockedSince, Deferring
      <4>5. queueRow[n].reason = "SUBSCRIPTION_REQUIRED"
              => queueRow[n].age <= refusedFor[n] \/ n \in unnoted
        BY <4>2 DEF QueueInv, BlockedSince, Deferring
      <4> HIDE <2>2
      <4> QED BY <3>1, <4>2, <4>3, <4>4, <4>5
    <3>3. CASE n \notin sync.batch
      <4>1. queueRow'[n] = queueRow[n] /\ n \notin Deferring("DAILY_LIMIT_EXCEEDED")
        BY <2>1, <3>3 DEF Deferring
      <4>2. (n \in refused /\ queueRow[n].age <= refusedFor[n]) \/ n \in unnoted
        BY <4>1 DEF QueueInv, BlockedSince
      <4> QED BY <2>1, <3>3, <4>1, <4>2
    <3> QED BY <3>2, <3>3
  <2>6. Running' /\ ConfirmedIsStored'
    BY <1>0, <2>1, <2>4 DEF Running, ConfirmedIsStored
  <2> QED BY <1>0, <2>1, <2>3, <2>5, <2>6, IdleTyped, RowsChanged DEF QueueInv
<1>2. CASE sync.reason = "other"
  <2>1. Queue!Retry /\ UNCHANGED <<queueRow, unnoted>>
    BY <1>2 DEF Queue!Defer
  <2> QED BY <1>0, <1>2, <2>1, QueueRetries, SameRows DEF QueueInv, Running
<1> QED BY <1>1, <1>2

(* What happens to the phone and to the server                              *)
LEMMA PhoneSteps ==
  ASSUME QueueInv, Queue!ConstantsAssumption,
         Queue!StopWork \/ Queue!Crash \/ Queue!StartService \/ Queue!ServerChanges
  PROVE  QueueInv' /\ Leaves
<1> USE QueueRows
<1>0. /\ sync \in Queue!Sync /\ works \in Seq(0..Recheck)
      /\ sync.confirmed \subseteq stored /\ 0 \in 0..Recheck
      /\ IsFiniteSet(sync.batch) /\ Cardinality(sync.batch) <= BatchSize
  BY Numbered DEF QueueInv, ConfirmedIsStored
<1>s. Queue!Stopped => /\ unnoted' = unnoted \cup Deferring("DAILY_LIMIT_EXCEEDED")
                       /\ UNCHANGED <<refused, refusedFor>>
  BY DEF Queue!Stopped, Deferring
<1>1. CASE Queue!StopWork
  <2>1. Queue!Retry /\ budget' \in Budget /\ Queue!Stopped
    BY <1>1, FaultCounted DEF Queue!StopWork
  <2> QED BY <1>1, <1>s, <2>1, QueueRetries, SameRows DEF Queue!StopWork, QueueInv, Running
<1>2. CASE Queue!Crash
  <2>1. works' \in Seq(0..Recheck)
    BY <1>0, <1>2, HeadChanged DEF Queue!Crash
  <2>2. budget' \in Budget /\ sync' = Queue!IdleSync
    BY <1>2, FaultCounted DEF Queue!Crash
  <2>3. /\ seen' = {} /\ capturing' = {} /\ serviceUp' = FALSE
        /\ UNCHANGED <<queue, queueRow, server, stored>> /\ Queue!Stopped
    BY <1>2 DEF Queue!Crash
  <2> QED BY <1>s, <2>1, <2>2, <2>3, IdleTyped, SameRows DEF QueueInv, Running
<1>3. CASE Queue!StartService
  <2>1. works' \in Seq(0..Recheck) /\ works' # <<>>
    BY <1>0, <1>3, OneAppended DEF Queue!StartService, Queue!Schedule
  <2> QED BY <1>0, <1>3, <2>1, SameRows DEF Queue!StartService, Queue!history, QueueInv, Running
<1>4. CASE Queue!ServerChanges
  <2>1. budget' \in Budget
    BY <1>4, FaultCounted DEF Queue!ServerChanges
  <2> QED BY <1>0, <1>4, <2>1, SameRows DEF Queue!ServerChanges, Queue!history, QueueInv, Running
<1> QED BY <1>1, <1>2, <1>3, <1>4

LEMMA HourPasses ==
  ASSUME QueueInv, Queue!ConstantsAssumption, Queue!Hour
  PROVE  QueueInv' /\ Leaves
<1> USE QueueRows
<1> DEFINE older(k) == IF k < Retention THEN k + 1 ELSE k
           closer(k) == IF k > 0 THEN k - 1 ELSE 0
<1>0. /\ sync \in Queue!Sync /\ works \in Seq(0..Recheck)
      /\ queueRow \in [Items -> Queue!Row] /\ refusedFor \in [Items -> 0..Retention]
      /\ refused \in SUBSET Items /\ unnoted \in SUBSET Items
      /\ Recheck \in Nat /\ Retention \in Nat
  BY Numbered DEF QueueInv
<1>1. /\ queueRow' = [n \in Items |->
                        IF queueRow[n].reason = "none" THEN queueRow[n]
                        ELSE [queueRow[n] EXCEPT !.age = older(@), !.wait = closer(@)]]
      /\ refusedFor' = [n \in Items |-> IF n \in refused THEN older(refusedFor[n]) ELSE 0]
      /\ works' = IF works = <<>> THEN works ELSE [works EXCEPT ![1] = closer(@)]
      /\ UNCHANGED <<queue, seen, capturing, sync, serviceUp, server, stored, refused, unnoted,
                      budget>>
      /\ sync.at = "idle"
  BY DEF Queue!Hour
<1>2. /\ \A k \in 0..Retention : older(k) \in 0..Retention
      /\ \A h, k \in 0..Retention : h <= k => older(h) <= older(k)
      /\ \A k \in 0..Recheck : closer(k) \in 0..Recheck
  BY <1>0
<1> HIDE DEF older, closer
<1>3. ASSUME NEW r \in Queue!Row
      PROVE  LET s == [r EXCEPT !.age = older(@), !.wait = closer(@)]
             IN  s \in Queue!Row /\ s.reason = r.reason /\ s.age = older(r.age)
  BY <1>2 DEF Queue!Row
<1>4. queueRow' \in [Items -> Queue!Row]
  BY <1>0, <1>1, <1>3
<1>5. refusedFor' \in [Items -> 0..Retention]
  <2>1. \A n \in Items : older(refusedFor[n]) \in 0..Retention /\ 0 \in 0..Retention
    BY <1>0, <1>2
  <2> QED BY <1>1, <2>1
<1>6. BlockedSince'
  <2>0. Deferring("SUBSCRIPTION_REQUIRED")' = {} /\ Deferring("DAILY_LIMIT_EXCEEDED") = {}
    BY <1>1 DEF Deferring
  <2> SUFFICES ASSUME NEW n \in Items, queueRow'[n].reason = "SUBSCRIPTION_REQUIRED"
               PROVE  (n \in refused' /\ queueRow'[n].age <= refusedFor'[n]) \/ n \in unnoted'
    BY <2>0 DEF BlockedSince
  <2>1. queueRow[n] \in Queue!Row /\ queueRow[n].age \in 0..Retention
        /\ refusedFor[n] \in 0..Retention
    BY <1>0 DEF Queue!Row
  <2>2. /\ queueRow[n].reason = "SUBSCRIPTION_REQUIRED"
        /\ queueRow'[n].age = older(queueRow[n].age)
    BY <1>1, <1>3, <2>1
  <2>3. n \in refused => refusedFor'[n] = older(refusedFor[n])
    BY <1>1
  <2>4. (n \in refused /\ queueRow[n].age <= refusedFor[n]) \/ n \in unnoted
    BY <2>0, <2>2 DEF QueueInv, BlockedSince
  <2>5. CASE n \in unnoted
    BY <1>1, <2>5
  <2>6. CASE n \in refused /\ queueRow[n].age <= refusedFor[n]
    <3>1. older(queueRow[n].age) <= older(refusedFor[n])
      BY <1>2, <2>1, <2>6
    <3> QED BY <1>1, <2>2, <2>3, <2>6, <3>1
  <2> QED BY <2>4, <2>5, <2>6
<1>7. works' \in Seq(0..Recheck)
  <2>1. CASE works = <<>>
    BY <1>0, <1>1, <2>1
  <2>2. CASE works # <<>>
    <3>1. works[1] \in 0..Recheck
      BY <1>0, <2>2
    <3>2. works' = [works EXCEPT ![1] = closer(works[1])]
      BY <1>1, <2>2
    <3> QED BY <1>0, <1>2, <3>1, <3>2, HeadChanged
  <2> QED BY <2>1, <2>2
<1>8. Running' /\ ConfirmedIsStored'
  BY <1>1 DEF QueueInv, Running, ConfirmedIsStored
<1> QED BY <1>0, <1>1, <1>4, <1>5, <1>6, <1>7, <1>8, RowsChanged DEF QueueInv

LEMMA QueueSteps ==
  ASSUME QueueInv, Queue!ConstantsAssumption, [Queue!Next]_(Queue!vars)
  PROVE  QueueInv' /\ Leaves
<1>1. CASE \E n \in Items : Queue!Capture(n) \/ Queue!ScheduleCapture(n)
  BY <1>1, CaptureKeeps
<1>2. CASE Queue!StartWork \/ Queue!TakeBatch
  BY <1>2, WorkStarts
<1>3. CASE Queue!DeleteExpired \/ Queue!DeleteConfirmed
  BY <1>3, DeletesRows
<1>4. CASE Queue!LeaveLoop \/ Queue!ScheduleRecheck \/ Queue!FinishWork
  BY <1>4, WorkEnds
<1>5. CASE Queue!Send \/ Queue!LoseAnswer
  BY <1>5, Sends
<1>6. CASE Queue!Defer
  BY <1>6, Defers
<1>7. CASE Queue!StopWork \/ Queue!Crash \/ Queue!StartService \/ Queue!ServerChanges
  BY <1>7, PhoneSteps
<1>8. CASE Queue!Hour
  BY <1>8, HourPasses
<1>9. CASE UNCHANGED Queue!vars
  BY <1>9, SameRows, QueueRows DEF Queue!vars, QueueInv, Running, ConfirmedIsStored
<1> QED BY <1>1, <1>2, <1>3, <1>4, <1>5, <1>6, <1>7, <1>8, <1>9
         DEF Queue!Next, Queue!SyncStep

(* The queue, its rows, the chain of works and the worker keep their types, *)
(* a batch never has more than BatchSize rows, and no row is twice in the   *)
(* queue.                                                                   *)
THEOREM QueueTypeCorrect == Queue!ConstantsAssumption => (Queue!Spec => []Queue!TypeOK)
<1> SUFFICES ASSUME Queue!ConstantsAssumption PROVE Queue!Spec => []Queue!TypeOK
  OBVIOUS
<1>1. Queue!Init => QueueInv
  BY QueueStarts
<1>2. QueueInv /\ [Queue!Next]_(Queue!vars) => QueueInv'
  BY QueueSteps
<1>3. QueueInv => Queue!TypeOK
  BY DEF QueueInv
<1> QED BY <1>1, <1>2, <1>3, PTL DEF Queue!Spec

(* What the phone has captured leaves it only once the server has stored   *)
(* it, or a whole window after the first of the server's answers in a row   *)
(* that refused it for want of a subscription, however often requests are   *)
(* lost, runs are stopped and the process dies; only an answer the phone    *)
(* was stopped before noting may be missed.                                 *)
THEOREM CapturedIsKept ==
  Queue!ConstantsAssumption => (Queue!Spec => Queue!DiscardedWasRefused)
<1> SUFFICES ASSUME Queue!ConstantsAssumption PROVE Queue!Spec => Queue!DiscardedWasRefused
  OBVIOUS
<1>1. Queue!Init => QueueInv
  BY QueueStarts
<1>2. QueueInv /\ [Queue!Next]_(Queue!vars) => QueueInv'
  BY QueueSteps
<1>3. QueueInv /\ [Queue!Next]_(Queue!vars)
        => [\A n \in Queue!Queued \ Queue!ToSet(queue') :
               \/ n \in stored
               \/ n \in refused /\ refusedFor[n] >= Retention
               \/ n \in unnoted]_(Queue!vars)
  BY QueueSteps DEF Leaves, MayLeave
<1> QED BY <1>1, <1>2, <1>3, PTL DEF Queue!Spec, Queue!DiscardedWasRefused
=============================================================================
