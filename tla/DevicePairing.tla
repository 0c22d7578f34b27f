---------------------------- MODULE DevicePairing ---------------------------
(***************************************************************************)
(* How a phone becomes a device of a tenant: pairing codes, the limit of   *)
(* devices, the identity claims that keep one phone from a second trial,   *)
(* and what the tenant's users and the platform do to devices and claims   *)
(* meanwhile.                                                              *)
(*                                                                         *)
(* pairDevice is one transaction of several statements at READ COMMITTED:  *)
(* each sees what others have committed by then, and an INSERT that meets  *)
(* an uncommitted claim waits for the end of its transaction.  A request   *)
(* pairs at most one device, which is named after it.                      *)
(***************************************************************************)
EXTENDS Integers, FiniteSets

CONSTANTS
  Tenants,
  Codes,        \* pairing codes
  Requests,     \* POST /internal/v1/pair
  Users,        \* users of the dashboard
  Androids,     \* ANDROID_ID signals
  Keys,         \* INSTALLATION_KEY signals: a new one with every installation
  CodeOf,       \* the tenant of a code
  Rollouts,     \* what modeFor may answer, by tenant: the API's configuration
  DeviceLimit,  \* plan.limits.devices
  MaxChanges    \* bound: what users, the platform and time do meanwhile

ASSUME PairingAssumption ==
  /\ CodeOf \in [Codes -> Tenants]
  /\ Rollouts \subseteq [Tenants -> {"OFF", "OBSERVE", "ENFORCE"}]
  /\ DeviceLimit \in Nat /\ MaxChanges \in Nat
  /\ Androids \cap Keys = {}

ASSUME NamesAreNone ==
  "nobody" \notin Tenants \cup Requests /\ "none" \notin Codes \cup Requests

Signals == Androids \cup Keys
(* An old app sends no identity.                                            *)
NoIdentity == {}
Identities == {{a, k} : a \in Androids, k \in Keys} \cup {NoIdentity}

VARIABLES
  mode,      \* TrialIdentityRolloutService.modeFor
  code,      \* [Codes -> its state and age]
  pair,      \* [Requests -> local state of pairDevice]
  device,    \* [Requests -> the device it paired]
  claim,     \* [Signals -> trial_identity_claims row]
  user,      \* [Users -> local state of updateDevice]
  onTrial,   \* tenants whose plan is TRIAL
  raced,     \* history: tenants whose limit a race has met
  changes    \* what users, the platform and time have done

vars == <<mode, code, pair, device, claim, user, onTrial, raced, changes>>

-----------------------------------------------------------------------------
(* Types *)

Unclaimed == [owner |-> "nobody", by |-> "nobody", overridden |-> FALSE]
NoDevice == [status |-> "none", identity |-> NoIdentity, code |-> "none", enforced |-> FALSE]
IdleUser == [at |-> "idle", device |-> "none"]
NewPair == [at |-> "idle", code |-> "none", identity |-> NoIdentity, owned |-> FALSE]
PairOver == [NewPair EXCEPT !.at = "over"]

(* A claim's "by" is the request whose transaction has not committed it.    *)
Claim == [owner : Tenants \cup {"nobody"}, by : Requests \cup {"nobody"},
          overridden : BOOLEAN]
Device == [status : {"none", "ACTIVE", "PAUSED", "REVOKED"}, identity : SUBSET Signals,
           code : Codes \cup {"none"}, enforced : BOOLEAN]
PairingCode == [state : {"none", "open", "used"}, expired : BOOLEAN]

TypeOK ==
  /\ mode \in Rollouts
  /\ code \in [Codes -> PairingCode]
  /\ pair \in [Requests -> [at : {"idle", "limit", "claim", "judge", "create", "over"},
                            code : Codes \cup {"none"}, identity : SUBSET Signals,
                            owned : BOOLEAN]]
  /\ device \in [Requests -> Device]
  /\ claim \in [Signals -> Claim]
  /\ user \in [Users -> [at : {"idle", "write"}, device : Requests \cup {"none"}]]
  /\ onTrial \subseteq Tenants
  /\ raced \subseteq Tenants
  /\ changes \in Nat

Init ==
  /\ mode \in Rollouts
  /\ code = [c \in Codes |-> [state |-> "none", expired |-> FALSE]]
  /\ pair = [r \in Requests |-> NewPair]
  /\ device = [r \in Requests |-> NoDevice]
  /\ claim = [s \in Signals |-> Unclaimed]
  /\ user = [u \in Users |-> IdleUser]
  /\ onTrial = Tenants
  /\ raced = {}
  /\ changes = 0

TenantOf(r) == CodeOf[pair[r].code]
DevicesOf(t) == {r \in Requests : device[r].status # "none" /\ CodeOf[device[r].code] = t}

(* A mutant: a paused device leaves its place.                              *)
CountedActive(t) == {r \in DevicesOf(t) : device[r].status = "ACTIVE"}

Counted(t) == {r \in DevicesOf(t) : device[r].status # "REVOKED"}
WithinDeviceLimit(t) == Cardinality(Counted(t)) < DeviceLimit

Change == changes < MaxChanges /\ changes' = changes + 1

-----------------------------------------------------------------------------
(* Pairing codes *)

CreatePairingCode(c) ==
  /\ code[c].state = "none"
  /\ WithinDeviceLimit(CodeOf[c])
  /\ code' = [code EXCEPT ![c].state = "open"]
  /\ UNCHANGED <<mode, pair, device, claim, user, onTrial, raced, changes>>

CodeExpires(c) ==
  /\ code[c].state = "open" /\ ~code[c].expired
  /\ code' = [code EXCEPT ![c].expired = TRUE]
  /\ Change
  /\ UNCHANGED <<mode, pair, device, claim, user, onTrial, raced>>

-----------------------------------------------------------------------------
(* pairDevice *)

Committed(s) == claim[s].owner # "nobody" /\ claim[s].by = "nobody"
InsertedBy(r) == {s \in Signals : claim[s].by = r}

(* An exception rolls back the claims of the transaction.                   *)
RollBack(r) == [s \in Signals |-> IF s \in InsertedBy(r) THEN Unclaimed ELSE claim[s]]

Refuse(r) ==
  /\ pair' = [pair EXCEPT ![r] = PairOver]
  /\ claim' = RollBack(r)
  /\ UNCHANGED <<code, device, raced>>

GoTo(r, step) == pair' = [pair EXCEPT ![r].at = step]
(* Both signals are the tenant's.                                           *)
Own(r) == pair' = [pair EXCEPT ![r].at = "create", ![r].owned = TRUE]

ReadCode(r, c, identity) ==
  /\ pair[r].at = "idle"
  /\ code[c].state = "open" /\ ~code[c].expired
  /\ pair' = [pair EXCEPT ![r] = [NewPair EXCEPT !.at = "limit", !.code = c,
                                                       !.identity = identity]]
  /\ UNCHANGED <<mode, code, device, claim, user, onTrial, raced, changes>>

(* Between its count and its commit, another pairing of the tenant counts   *)
(* without it.                                                              *)
Counting(t) == {r \in Requests : pair[r].at \in {"claim", "judge", "create"} /\ TenantOf(r) = t}

CheckLimit(r) ==
  /\ pair[r].at = "limit"
  /\ \/ /\ WithinDeviceLimit(TenantOf(r))
        /\ GoTo(r, "claim")
        /\ raced' = raced \cup {t \in {TenantOf(r)} : Counting(t) # {}}
        /\ UNCHANGED <<code, device, claim>>
     \/ ~WithinDeviceLimit(TenantOf(r)) /\ Refuse(r)
  /\ UNCHANGED <<mode, user, onTrial, changes>>

Exempt(r) == mode[TenantOf(r)] = "OFF" \/ TenantOf(r) \notin onTrial

SkipClaims(r) ==
  /\ pair[r].at = "claim"
  /\ \/ Exempt(r) /\ GoTo(r, "create") /\ UNCHANGED <<code, device, claim, raced>>
     \/ /\ ~Exempt(r) /\ pair[r].identity = NoIdentity
        /\ \/ /\ mode[TenantOf(r)] = "OBSERVE"
              /\ GoTo(r, "create") /\ UNCHANGED <<code, device, claim, raced>>
           \/ mode[TenantOf(r)] = "ENFORCE" /\ Refuse(r)
  /\ UNCHANGED <<mode, user, onTrial, changes>>

(* assertIdentitySignature: what the phone signed is not what it sends.     *)
RefuseSignature(r) ==
  /\ pair[r].at = "claim"
  /\ ~Exempt(r) /\ pair[r].identity # NoIdentity
  /\ Refuse(r)
  /\ UNCHANGED <<mode, user, onTrial, changes>>

(* Both signals inserted.                                                   *)
AllInserted(r, new) == new = pair[r].identity

(* INSERT .. ON CONFLICT DO NOTHING: it waits for uncommitted claims.       *)
InsertClaims(r) ==
  LET new == {s \in pair[r].identity : claim[s].owner = "nobody"}
  IN  /\ pair[r].at = "claim"
      /\ ~Exempt(r) /\ pair[r].identity # NoIdentity
      /\ \A s \in pair[r].identity : claim[s].by = "nobody"
      /\ claim' = [s \in Signals |->
                     IF s \in new THEN [owner |-> TenantOf(r), by |-> r, overridden |-> FALSE]
                     ELSE claim[s]]
      /\ IF AllInserted(r, new) THEN Own(r) ELSE GoTo(r, "judge")
      /\ UNCHANGED <<mode, code, device, user, onTrial, raced, changes>>

(* A mutant: only the installation's key tells whose phone it is.           *)
ConflictingKeys(r) == {s \in pair[r].identity \cap Keys : claim[s].owner # TenantOf(r)}

Conflicting(r) == {s \in pair[r].identity : claim[s].owner # TenantOf(r)}

(* An observation keeps nothing of what it inserted.                        *)
Observed(r) == RollBack(r)

JudgeClaims(r) ==
  /\ pair[r].at = "judge"
  /\ \/ /\ Conflicting(r) = {}
        /\ Own(r) /\ UNCHANGED <<code, device, claim, raced>>
     \/ /\ Conflicting(r) # {} /\ mode[TenantOf(r)] = "OBSERVE"
        /\ claim' = Observed(r)
        /\ GoTo(r, "create") /\ UNCHANGED <<code, device, raced>>
     \/ Conflicting(r) # {} /\ mode[TenantOf(r)] = "ENFORCE" /\ Refuse(r)
  /\ UNCHANGED <<mode, user, onTrial, changes>>

(* A mutant: the code is consumed by its id.                                *)
UnusedWhenRead(c) == TRUE

(* updateMany .. WHERE usedAt IS NULL                                       *)
StillUnused(c) == code[c].state = "open"

PairedDevice(r) ==
  [status |-> "ACTIVE", identity |-> pair[r].identity, code |-> pair[r].code,
   enforced |-> pair[r].owned /\ mode[TenantOf(r)] = "ENFORCE"]

CreateDevice(r) ==
  /\ pair[r].at = "create"
  /\ \/ /\ StillUnused(pair[r].code)
        /\ device' = [device EXCEPT ![r] = PairedDevice(r)]
        /\ code' = [code EXCEPT ![pair[r].code].state = "used"]
        /\ claim' = [s \in Signals |->
                       IF s \in InsertedBy(r) THEN [claim[s] EXCEPT !.by = "nobody"]
                       ELSE claim[s]]
        /\ pair' = [pair EXCEPT ![r] = PairOver]
        /\ UNCHANGED raced
     \/ ~StillUnused(pair[r].code) /\ Refuse(r)
  /\ UNCHANGED <<mode, user, onTrial, changes>>

-----------------------------------------------------------------------------
(* Devices in the dashboard *)

ReadForUpdate(u, r) ==
  /\ user[u].at = "idle"
  /\ device[r].status \in {"ACTIVE", "PAUSED"}
  /\ user' = [user EXCEPT ![u] = [at |-> "write", device |-> r]]
  /\ Change
  /\ UNCHANGED <<mode, code, pair, device, claim, onTrial, raced>>

(* The update is by id: it revives a device revoked since the read.         *)
WriteUpdate(u, status) ==
  LET r == user[u].device
  IN  /\ user[u].at = "write"
      /\ device' = [device EXCEPT ![r].status = status]
      /\ raced' = raced \cup {t \in {CodeOf[device[r].code]} : device[r].status = "REVOKED"}
      /\ user' = [user EXCEPT ![u] = IdleUser]
      /\ UNCHANGED <<mode, code, pair, claim, onTrial, changes>>

RevokeDevice(r) ==
  /\ device[r].status \in {"ACTIVE", "PAUSED"}
  /\ device' = [device EXCEPT ![r].status = "REVOKED"]
  /\ Change
  /\ UNCHANGED <<mode, code, pair, claim, user, onTrial, raced>>

-----------------------------------------------------------------------------
(* The platform *)

OverrideClaim(s, t) ==
  /\ Committed(s)
  /\ claim' = [claim EXCEPT ![s].owner = t, ![s].overridden = TRUE]
  /\ Change
  /\ UNCHANGED <<mode, code, pair, device, user, onTrial, raced>>

LeaveTrial(t) ==
  /\ t \in onTrial
  /\ onTrial' = onTrial \ {t}
  /\ Change
  /\ UNCHANGED <<mode, code, pair, device, claim, user, raced>>

-----------------------------------------------------------------------------
PairStep(r) ==
  \/ \E c \in Codes, i \in Identities : ReadCode(r, c, i)
  \/ CheckLimit(r)
  \/ SkipClaims(r)
  \/ RefuseSignature(r)
  \/ InsertClaims(r)
  \/ JudgeClaims(r)
  \/ CreateDevice(r)

Next ==
  \/ \E c \in Codes : CreatePairingCode(c) \/ CodeExpires(c)
  \/ \E r \in Requests : PairStep(r) \/ RevokeDevice(r)
  \/ \E u \in Users :
       \/ \E r \in Requests : ReadForUpdate(u, r)
       \/ \E status \in {"ACTIVE", "PAUSED"} : WriteUpdate(u, status)
  \/ \E s \in Signals, t \in Tenants : OverrideClaim(s, t)
  \/ \E t \in Tenants : LeaveTrial(t)

Spec == Init /\ [][Next]_vars

-----------------------------------------------------------------------------
(* Safety *)

(* A code pairs one device, however many phones send it at once             *)
(* (pairDevice's guarded consumption of the code).                          *)
CodePairsOneDevice ==
  \A r1, r2 \in Requests :
    device[r1].code = device[r2].code /\ device[r1].code # "none" => r1 = r2

(* Where the rollout enforces, two tenants have no device with a signal in  *)
(* common, unless the platform moved its claim: the second tenant gets no   *)
(* trial with the phone, though both pair at once (claimTrialIdentities).   *)
OneTrialPerSignal ==
  \A r1, r2 \in {r \in Requests : device[r].enforced} :
    CodeOf[device[r1].code] # CodeOf[device[r2].code] =>
      \A s \in device[r1].identity \cap device[r2].identity : claim[s].overridden

(* "una observacion nunca debe crear propiedad parcial": a claim that was   *)
(* never overridden belongs to a tenant that paired a phone with all its    *)
(* signals free or its own.                                                 *)
NoPartialOwnership ==
  \A s \in Signals :
    Committed(s) /\ ~claim[s].overridden =>
      \E r \in DevicesOf(claim[s].owner) :
        /\ s \in device[r].identity
        /\ \A q \in device[r].identity :
             claim[q].overridden \/ claim[q].owner = claim[s].owner

(* Only races pass the limit of devices: pairings that count at once, or a  *)
(* device that an update brings back (assertWithinDeviceLimit).             *)
UnracedWithinLimit ==
  \A t \in Tenants \ raced : Cardinality(Counted(t)) <= DeviceLimit

(* "Un dispositivo revocado no puede modificarse."                          *)
RevokedStaysRevoked ==
  [][\A r \in Requests : device[r].status = "REVOKED" => device'[r].status = "REVOKED"]_vars

(* "contar y verificar dentro de la MISMA transaccion .. por atomicidad"    *)
WithinLimitAlways == \A t \in Tenants : Cardinality(Counted(t)) <= DeviceLimit
=============================================================================
