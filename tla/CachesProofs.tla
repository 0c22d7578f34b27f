---------------------------- MODULE CachesProofs ---------------------------
(***************************************************************************)
(* Theorems about Caches, for any number of versions, keys, users and      *)
(* requests: what the two caches may hold besides what the rows say, whom  *)
(* an API key lets in, and how many keys there are.  The two halves of the *)
(* module share only the count of changes, so each has its types and its   *)
(* invariant.                                                              *)
(***************************************************************************)
EXTENDS Caches, FiniteSetTheorems, TLAPS

AdminRecord == [at : {"idle", "activate", "invalidate"}, target : Versions \cup {None},
                active : SUBSET Versions]
ParseRecord == [at : {"idle", "read", "fill"}, of : Versions \cup {None}]
UserRecord == [at : {"idle", "invalidate", "commit"}, of : Keys \cup {None}]
CheckRecord == [at : {"idle", "read", "fill", "serve"}, of : Keys \cup {None},
                late : BOOLEAN, stale : BOOLEAN]

(* The types, and that what a step works on is there.                       *)
RulesTyped ==
  /\ version \in [Versions -> {"none", "inactive", "active"}]
  /\ admin \in [Admins -> AdminRecord]
  /\ parse \in [Parses -> ParseRecord]
  /\ cachedRules \in Versions \cup {None}
  /\ staleRules \in BOOLEAN
  /\ \A a \in Admins : admin[a].at # "idle" => admin[a].target \in Versions
  /\ \A p \in Parses : parse[p].at = "fill" => parse[p].of \in Versions

KeysTyped ==
  /\ key \in [Keys -> {"none", "live", "lapsed", "revoked"}]
  /\ user \in [Users -> UserRecord]
  /\ check \in [Checks -> CheckRecord]
  /\ creator \in [Creators -> {"idle", "create"}]
  /\ cachedKeys \subseteq Keys
  /\ staleKeys \subseteq Keys
  /\ overtaken \in Nat
  /\ \A u \in Users : user[u].at # "idle" => user[u].of \in Keys
  /\ \A c \in Checks : check[c].at # "idle" => check[c].of \in Keys
  /\ \A k \in cachedKeys : key[k] # "none"
  /\ \A u \in Users : user[u].at # "idle" => key[user[u].of] # "none"
  /\ \A c \in Checks : check[c].at # "idle" => key[check[c].of] # "none"

(* From the deletion to the commit of a revocation, an entry that is filled *)
(* again is known to be stale.                                              *)
RefilledIsStale == \A k \in cachedKeys : BeingRevoked(k) => k \in staleKeys

(* A request that came after the revocation is about to be refused, or met  *)
(* a stale entry.                                                           *)
LateIsKnown ==
  \A c \in Checks : /\ check[c].at = "read" /\ check[c].late => key[check[c].of] = "revoked"
                    /\ check[c].at = "fill" => ~check[c].late
                    /\ check[c].at = "serve" /\ check[c].late => check[c].stale

(* The creations that have counted are added to the keys: KeysWithinLimit   *)
(* made inductive.                                                          *)
CountedWithinLimit ==
  KeyLimit # Unlimited =>
    Cardinality(Unrevoked) + Cardinality(Creating) <= KeyLimit + overtaken

RulesInv == RulesTyped /\ RulesAreActive
EntriesInv == KeysTyped /\ RevokedHasNoEntry /\ RefilledIsStale /\ LateIsKnown
KeysInv == EntriesInv /\ CountedWithinLimit

RulesStep ==
  \/ \E v \in Versions : CreateVersion(v)
  \/ \E a \in Admins : AdminStep(a) \/ \E v \in Versions : BeginActivate(a, v)
  \/ \E p \in Parses : MissRules(p) \/ ParseStep(p)
  \/ RulesExpire

KeysStep ==
  \/ \E k \in Keys : KeyLapses(k) \/ KeyExpires(k)
  \/ \E u \in Users : UserStep(u) \/ \E k \in Keys : BeginRevoke(u, k)
  \/ \E n \in Creators : CountKeys(n) \/ CreatorStep(n)
  \/ \E c \in Checks : CheckStep(c) \/ \E k \in Keys : HitKey(c, k) \/ MissKey(c, k)

USE CachesAssumption, NoneIsNeither

-----------------------------------------------------------------------------
LEMMA InitInv == Init => RulesInv /\ KeysInv /\ changes \in Nat
<1> SUFFICES ASSUME Init PROVE RulesInv /\ KeysInv /\ changes \in Nat
  OBVIOUS
<1>1. /\ IdleAdmin \in AdminRecord
      /\ Idle \in ParseRecord /\ Idle \in UserRecord /\ IdleCheck \in CheckRecord
      /\ IdleAdmin.at = "idle" /\ Idle.at = "idle" /\ IdleCheck.at = "idle"
  BY DEF IdleAdmin, Idle, IdleCheck, AdminRecord, ParseRecord, UserRecord, CheckRecord
<1>2. RulesTyped
  BY <1>1 DEF Init, RulesTyped
<1>3. KeysTyped
  BY <1>1 DEF Init, KeysTyped
<1>4. EntriesInv
  BY <1>1, <1>3 DEF Init, EntriesInv, RevokedHasNoEntry, RefilledIsStale, LateIsKnown
<1>5. CountedWithinLimit
  <2>1. Unrevoked = {} /\ Creating = {}
    BY DEF Init, Unrevoked, Creating
  <2> QED BY <2>1, LimitAssumption, FS_EmptySet
          DEF Init, CountedWithinLimit, Limits, Unlimited
<1> QED BY <1>2, <1>4, <1>5 DEF Init, RulesInv, KeysInv, RulesAreActive

-----------------------------------------------------------------------------
(* The rules of a wallet *)

(* A commit switches the active version and has its deletion before it.     *)
LEMMA CommitActivateInv ==
  ASSUME RulesInv, NEW a \in Admins, CommitActivate(a)
  PROVE  RulesInv'
<1> USE DEF RulesInv, RulesTyped
<1>1. UNCHANGED <<parse, cachedRules, staleRules>>
  BY DEF CommitActivate
<1>2. CASE version' = Activated(a) /\ admin' = [admin EXCEPT ![a].at = "invalidate"]
  <2>1. version' \in [Versions -> {"none", "inactive", "active"}]
    BY <1>2 DEF Activated, Deactivated, CommitActivate
  <2>2. admin' \in [Admins -> AdminRecord] /\ admin'[a].at = "invalidate"
    BY <1>2 DEF AdminRecord
  <2>3. \A x \in Admins : admin'[x].at # "idle" => admin'[x].target \in Versions
    BY <1>2 DEF CommitActivate, AdminRecord
  <2>4. RulesAreActive'
    BY <2>2 DEF RulesAreActive
  <2> HIDE DEF AdminRecord, ParseRecord
  <2> QED BY <1>1, <2>1, <2>2, <2>3, <2>4
<1>3. CASE admin' = [admin EXCEPT ![a] = IdleAdmin] /\ UNCHANGED version
  <2>1. IdleAdmin \in AdminRecord /\ IdleAdmin.at = "idle"
    BY DEF AdminRecord, IdleAdmin
  <2>2. \A x \in Admins : admin'[x].at # "invalidate" => admin[x].at # "invalidate"
    BY <1>3, <2>1 DEF CommitActivate
  <2>3. RulesAreActive'
    BY <1>1, <1>3, <2>2 DEF RulesAreActive
  <2>4. RulesTyped'
    BY <1>1, <1>3, <2>1
  <2> QED BY <2>3, <2>4
<1> QED BY <1>2, <1>3 DEF CommitActivate

(* Every step on the rules keeps their invariant.                           *)
LEMMA RulesStepInv ==
  ASSUME RulesInv, RulesStep
  PROVE  RulesInv'
<1> USE DEF RulesInv, RulesTyped
<1>0. /\ IdleAdmin \in AdminRecord /\ IdleAdmin.at = "idle"
      /\ Idle \in ParseRecord /\ Idle.at = "idle"
  BY DEF AdminRecord, IdleAdmin, ParseRecord, Idle
<1>1. ASSUME NEW v \in Versions, CreateVersion(v) PROVE RulesInv'
  BY <1>1 DEF CreateVersion, RulesAreActive
<1>2. ASSUME NEW a \in Admins, NEW v \in Versions, BeginActivate(a, v) PROVE RulesInv'
  <2>1. admin' = [admin EXCEPT ![a] = [at |-> "activate", target |-> v,
                                       active |-> ActiveIn(version)]]
    BY <1>2 DEF BeginActivate
  <2>2. RulesTyped'
    BY <1>2, <2>1 DEF BeginActivate, AdminRecord, ActiveIn
  <2>3. RulesAreActive'
    BY <1>2, <2>1 DEF BeginActivate, RulesAreActive
  <2> QED BY <2>2, <2>3
<1>3. ASSUME NEW a \in Admins, InvalidateRules(a) PROVE RulesInv'
  BY <1>0, <1>3 DEF InvalidateRules, RulesInvalidated, RulesAreActive
<1>4. ASSUME NEW a \in Admins, InvalidateFails(a) PROVE RulesInv'
  BY <1>0, <1>4 DEF InvalidateFails, RulesAreActive
<1>5. ASSUME NEW p \in Parses, MissRules(p) PROVE RulesInv'
  BY <1>5 DEF MissRules, RulesAreActive, ParseRecord
<1>6. ASSUME NEW p \in Parses, ReadRules(p) PROVE RulesInv'
  <2>1. \A v \in ActiveIn(version) : v \in Versions /\ [at |-> "fill", of |-> v] \in ParseRecord
    BY DEF ActiveIn, ParseRecord
  <2> QED BY <1>0, <1>6, <2>1 DEF ReadRules, RulesAreActive
<1>7. ASSUME NEW p \in Parses, FillRules(p) PROVE RulesInv'
  BY <1>0, <1>7 DEF FillRules, RulesAreActive
<1>8. CASE RulesExpire
  BY <1>8 DEF RulesExpire, RulesAreActive
<1> QED BY <1>1, <1>2, <1>3, <1>4, <1>5, <1>6, <1>7, <1>8, CommitActivateInv
        DEF RulesStep, AdminStep, ParseStep

-----------------------------------------------------------------------------
(* The API keys: their number *)

(* Fewer keys or creations, or as many, keep the bound.                     *)
LEMMA FewerKeepTheLimit ==
  ASSUME KeysTyped, KeysTyped', CountedWithinLimit, overtaken' = overtaken,
         Unrevoked' \subseteq Unrevoked, Creating' \subseteq Creating
  PROVE  CountedWithinLimit'
<1>1. IsFiniteSet(Unrevoked) /\ IsFiniteSet(Creating)
  BY FiniteAssumption, FS_Subset DEF Unrevoked, Creating
<1>2. /\ Cardinality(Unrevoked') \in Nat /\ Cardinality(Unrevoked') <= Cardinality(Unrevoked)
      /\ Cardinality(Creating') \in Nat /\ Cardinality(Creating') <= Cardinality(Creating)
      /\ Cardinality(Unrevoked) \in Nat /\ Cardinality(Creating) \in Nat
  BY <1>1, FS_Subset, FS_CardinalityType
<1> QED BY <1>2, LimitAssumption DEF CountedWithinLimit, KeysTyped, Limits, Unlimited

(* A count that no other one overtakes finds room for the key it announces. *)
LEMMA CountKeysKeepsTheLimit ==
  ASSUME KeysTyped, CountedWithinLimit, NEW n \in Creators, CountKeys(n)
  PROVE  CountedWithinLimit'
<1>1. /\ Unrevoked' = Unrevoked /\ Creating' = Creating \cup {n} /\ n \notin Creating
      /\ overtaken' = IF Creating = {} THEN overtaken ELSE overtaken + 1
  BY DEF CountKeys, Unrevoked, Creating, KeysTyped
<1>2. IsFiniteSet(Unrevoked) /\ IsFiniteSet(Creating)
  BY FiniteAssumption, FS_Subset DEF Unrevoked, Creating
<1>3. /\ Cardinality(Creating') = Cardinality(Creating) + 1
      /\ Cardinality(Unrevoked) \in Nat /\ Cardinality(Creating) \in Nat
      /\ Creating = {} => Cardinality(Creating) = 0
  BY <1>1, <1>2, FS_AddElement, FS_CardinalityType, FS_EmptySet
<1>4. KeyLimit # Unlimited => KeyLimit \in Nat /\ Cardinality(Unrevoked) < KeyLimit
  BY LimitAssumption DEF CountKeys, WithinLimit, Limits
<1>5. KeyLimit # Unlimited =>
        Cardinality(Unrevoked') + Cardinality(Creating') <= KeyLimit + overtaken'
  BY <1>1, <1>3, <1>4 DEF CountedWithinLimit, KeysTyped
<1> QED BY <1>5 DEF CountedWithinLimit

(* A creation turns a count into a key.                                     *)
LEMMA CreateKeyKeepsTheLimit ==
  ASSUME KeysTyped, CountedWithinLimit, NEW n \in Creators, NEW k \in Keys, CreateKey(n, k)
  PROVE  CountedWithinLimit'
<1>1. /\ Unrevoked' = Unrevoked \cup {k} /\ k \notin Unrevoked
      /\ Creating' = Creating \ {n} /\ n \in Creating
      /\ overtaken' = overtaken
  BY DEF CreateKey, Unrevoked, Creating, KeysTyped
<1>2. IsFiniteSet(Unrevoked) /\ IsFiniteSet(Creating)
  BY FiniteAssumption, FS_Subset DEF Unrevoked, Creating
<1>3. /\ Cardinality(Unrevoked') = Cardinality(Unrevoked) + 1
      /\ Cardinality(Creating') = Cardinality(Creating) - 1
      /\ Cardinality(Unrevoked) \in Nat /\ Cardinality(Creating) \in Nat
  BY <1>1, <1>2, FS_AddElement, FS_RemoveElement, FS_CardinalityType
<1>4. KeyLimit # Unlimited =>
        Cardinality(Unrevoked') + Cardinality(Creating') <= KeyLimit + overtaken'
  BY <1>1, <1>3, LimitAssumption DEF CountedWithinLimit, KeysTyped, Limits
<1> QED BY <1>4 DEF CountedWithinLimit

-----------------------------------------------------------------------------
(* The API keys: their entries *)

(* The deletion comes first, and what fills the entry again before the      *)
(* commit is stale.                                                         *)
LEMMA UserStepInv ==
  ASSUME KeysInv, NEW u \in Users, UserStep(u)
  PROVE  KeysInv'
<1> USE DEF KeysInv, EntriesInv, KeysTyped
<1> DEFINE k == user[u].of
<1>0. Idle \in UserRecord /\ Idle.at = "idle"
  BY DEF UserRecord, Idle
<1>1. CASE InvalidateKey(u)
  <2>1. /\ cachedKeys' = cachedKeys \ {k} /\ staleKeys' = staleKeys \ {k}
        /\ user' = [user EXCEPT ![u].at = "commit"]
        /\ UNCHANGED <<key, check, creator, overtaken>>
    BY <1>1 DEF InvalidateKey, OtherEntries
  <2>2. KeysTyped'
    BY <1>1, <2>1 DEF UserRecord, InvalidateKey
  <2>3. RevokedHasNoEntry' /\ RefilledIsStale' /\ LateIsKnown'
    BY <2>1 DEF RevokedHasNoEntry, RefilledIsStale, BeingRevoked, UserRecord, LateIsKnown
  <2>4. Unrevoked' = Unrevoked /\ Creating' = Creating
    BY <2>1 DEF Unrevoked, Creating
  <2> QED BY <2>1, <2>2, <2>3, <2>4, FewerKeepTheLimit
<1>2. CASE RevokeFails(u)
  <2>1. user' = [user EXCEPT ![u] = Idle]
        /\ UNCHANGED <<key, check, creator, cachedKeys, staleKeys, overtaken>>
    BY <1>2 DEF RevokeFails
  <2>2. KeysTyped'
    BY <1>0, <2>1
  <2>3. RevokedHasNoEntry' /\ RefilledIsStale' /\ LateIsKnown'
    BY <1>0, <2>1 DEF RevokedHasNoEntry, RefilledIsStale, BeingRevoked, LateIsKnown
  <2>4. Unrevoked' = Unrevoked /\ Creating' = Creating
    BY <2>1 DEF Unrevoked, Creating
  <2> QED BY <2>1, <2>2, <2>3, <2>4, FewerKeepTheLimit
<1>3. CASE CommitRevoke(u)
  <2>1. BeingRevoked(k) /\ k \in Keys
    BY <1>3 DEF BeingRevoked, CommitRevoke
  <2>2. /\ key' = [key EXCEPT ![k] = "revoked"]
        /\ user' = [user EXCEPT ![u] = Idle]
        /\ UNCHANGED <<check, creator, cachedKeys, staleKeys, overtaken>>
    BY <1>3 DEF CommitRevoke
  <2>3. KeysTyped'
    BY <1>0, <2>1, <2>2
  <2>4. RevokedHasNoEntry'
    BY <2>1, <2>2 DEF RevokedHasNoEntry, RefilledIsStale
  <2>5. RefilledIsStale'
    BY <1>0, <2>2 DEF RefilledIsStale, BeingRevoked
  <2>6. LateIsKnown'
    BY <2>1, <2>2 DEF LateIsKnown
  <2>7. Unrevoked' \subseteq Unrevoked /\ Creating' = Creating
    BY <2>1, <2>2 DEF Unrevoked, Creating
  <2> QED BY <2>2, <2>3, <2>4, <2>5, <2>6, <2>7, FewerKeepTheLimit
<1> QED BY <1>1, <1>2, <1>3 DEF UserStep

(* A creation makes a key that has no entry, no revocation and no request.  *)
LEMMA CreatorStepInv ==
  ASSUME KeysInv, NEW n \in Creators, CountKeys(n) \/ CreatorStep(n)
  PROVE  KeysInv'
<1> USE DEF KeysInv, EntriesInv, KeysTyped
<1>1. CASE CountKeys(n)
  <2>1. /\ creator' = [creator EXCEPT ![n] = "create"]
        /\ overtaken' \in Nat
        /\ UNCHANGED <<key, user, check, cachedKeys, staleKeys>>
    BY <1>1 DEF CountKeys
  <2>2. EntriesInv'
    BY <2>1 DEF RevokedHasNoEntry, RefilledIsStale, BeingRevoked, LateIsKnown
  <2> QED BY <1>1, <2>2, CountKeysKeepsTheLimit
<1>2. ASSUME NEW k \in Keys, CreateKey(n, k) PROVE KeysInv'
  <2>1. /\ key' = [key EXCEPT ![k] = "live"] /\ key[k] = "none"
        /\ creator' = [creator EXCEPT ![n] = "idle"]
        /\ UNCHANGED <<user, check, cachedKeys, staleKeys, overtaken>>
    BY <1>2 DEF CreateKey
  <2>2. KeysTyped'
    BY <2>1
  <2>3. RevokedHasNoEntry' /\ RefilledIsStale' /\ LateIsKnown'
    BY <2>1 DEF RevokedHasNoEntry, RefilledIsStale, BeingRevoked, LateIsKnown
  <2> QED BY <1>2, <2>2, <2>3, CreateKeyKeepsTheLimit
<1>3. CASE CreateFails(n)
  <2>1. /\ creator' = [creator EXCEPT ![n] = "idle"]
        /\ UNCHANGED <<key, user, check, cachedKeys, staleKeys, overtaken>>
    BY <1>3 DEF CreateFails
  <2>2. KeysTyped'
    BY <2>1
  <2>3. RevokedHasNoEntry' /\ RefilledIsStale' /\ LateIsKnown'
    BY <2>1 DEF RevokedHasNoEntry, RefilledIsStale, BeingRevoked, LateIsKnown
  <2>4. Unrevoked' = Unrevoked /\ Creating' \subseteq Creating
    BY <2>1 DEF Unrevoked, Creating
  <2> QED BY <2>1, <2>2, <2>3, <2>4, FewerKeepTheLimit
<1> QED BY <1>1, <1>2, <1>3 DEF CreatorStep

(* A step of a request leaves the rows alone.                               *)
LEMMA CheckStepInv ==
  ASSUME EntriesInv, NEW c \in Checks,
         CheckStep(c) \/ \E k \in Keys : HitKey(c, k) \/ MissKey(c, k)
  PROVE  EntriesInv' /\ UNCHANGED <<key, creator, overtaken>>
<1> USE DEF EntriesInv, KeysTyped
<1>0. IdleCheck \in CheckRecord /\ IdleCheck.at = "idle"
  BY DEF CheckRecord, IdleCheck
<1>1. CASE ReadKey(c)
  <2>1. check'\in [Checks -> CheckRecord]
        /\ \A x \in Checks : check'[x].at # "idle" => check'[x].of = check[x].of /\ check[x].at # "idle"
    BY <1>0, <1>1 DEF ReadKey, CheckRecord
  <2>2. UNCHANGED <<key, user, creator, cachedKeys, staleKeys, overtaken>>
    BY <1>1 DEF ReadKey
  <2>3. LateIsKnown'
    BY <1>0, <1>1 DEF ReadKey, LateIsKnown, CheckRecord
  <2> QED BY <2>1, <2>2, <2>3 DEF RevokedHasNoEntry, RefilledIsStale, BeingRevoked
<1>2. CASE FillKey(c)
  <2>1. /\ cachedKeys' = cachedKeys \cup {check[c].of}
        /\ staleKeys' = staleKeys \cup
             {x \in {check[c].of} : key[x] = "revoked" \/ BeingRevoked(x)}
        /\ check' = [check EXCEPT ![c].at = "serve"] /\ check[c].at = "fill"
        /\ UNCHANGED <<key, user, creator, overtaken>>
        /\ check[c].of \in Keys
    BY <1>2 DEF FillKey
  <2>2. check' \in [Checks -> CheckRecord]
    BY <2>1 DEF CheckRecord
  <2>3. \A x \in Checks : check'[x].of = check[x].of /\ (check'[x].at # "idle" => check[x].at # "idle")
    BY <2>1 DEF CheckRecord
  <2>4. KeysTyped'
    BY <2>1, <2>2, <2>3
  <2>5. RevokedHasNoEntry' /\ RefilledIsStale'
    BY <2>1 DEF RevokedHasNoEntry, RefilledIsStale, BeingRevoked
  <2>6. LateIsKnown'
    BY <2>1 DEF LateIsKnown, CheckRecord
  <2> QED BY <2>1, <2>4, <2>5, <2>6
<1>3. CASE Serve(c)
  BY <1>0, <1>3 DEF Serve, RevokedHasNoEntry, RefilledIsStale, BeingRevoked, LateIsKnown
<1>4. ASSUME NEW k \in Keys, HitKey(c, k) \/ MissKey(c, k)
      PROVE  EntriesInv' /\ UNCHANGED <<key, creator, overtaken>>
  <2>0. /\ HitKey(c, k) => k \in cachedKeys /\ Comes(c, k, "serve", k \in staleKeys)
        /\ MissKey(c, k) => Comes(c, k, "read", FALSE)
    BY DEF HitKey, MissKey
  <2>0a. \E at \in {"serve", "read"}, stale \in BOOLEAN :
           Comes(c, k, at, stale) /\ (at = "serve" => k \in cachedKeys /\ (stale <=> k \in staleKeys))
    <3>1. CASE HitKey(c, k)
      <4>1. (k \in staleKeys) \in BOOLEAN
        OBVIOUS
      <4> WITNESS "serve" \in {"serve", "read"}, (k \in staleKeys) \in BOOLEAN
      <4> QED BY <2>0, <3>1
    <3>2. CASE MissKey(c, k)
      <4> WITNESS "read" \in {"serve", "read"}, FALSE \in BOOLEAN
      <4> QED BY <2>0, <3>2
    <3> QED BY <1>4, <3>1, <3>2
  <2>1. PICK at \in {"serve", "read"}, stale \in BOOLEAN :
          /\ check' = [check EXCEPT ![c] = [at |-> at, of |-> k, late |-> key[k] = "revoked",
                                            stale |-> stale]]
          /\ at = "serve" => k \in cachedKeys /\ (stale <=> k \in staleKeys)
          /\ key[k] # "none"
          /\ UNCHANGED <<key, user, creator, cachedKeys, staleKeys, overtaken>>
    BY <2>0a DEF Comes
  <2>2. [at |-> at, of |-> k, late |-> key[k] = "revoked", stale |-> stale] \in CheckRecord
    BY DEF CheckRecord
  <2>3. KeysTyped'
    BY <2>1, <2>2
  <2>4. RevokedHasNoEntry' /\ RefilledIsStale'
    BY <2>1 DEF RevokedHasNoEntry, RefilledIsStale, BeingRevoked
  <2>5. LateIsKnown'
    BY <2>1 DEF RevokedHasNoEntry, LateIsKnown
  <2> QED BY <2>1, <2>3, <2>4, <2>5
<1> QED BY <1>1, <1>2, <1>3, <1>4 DEF CheckStep

(* Every step on the keys keeps their invariant.                            *)
LEMMA KeysStepInv ==
  ASSUME KeysInv, KeysStep
  PROVE  KeysInv'
<1> USE DEF KeysInv, EntriesInv, KeysTyped
<1>1. ASSUME NEW k \in Keys, KeyLapses(k) \/ KeyExpires(k) PROVE KeysInv'
  <2>1. /\ key' \in [Keys -> {"none", "live", "lapsed", "revoked"}]
        /\ \A x \in Keys : /\ key'[x] = "revoked" <=> key[x] = "revoked"
                           /\ key'[x] = "none" <=> key[x] = "none"
        /\ cachedKeys' \subseteq cachedKeys /\ staleKeys' \subseteq staleKeys
        /\ \A x \in cachedKeys' : x \in staleKeys => x \in staleKeys'
        /\ UNCHANGED <<user, check, creator, overtaken>>
    BY <1>1 DEF KeyLapses, KeyExpires
  <2>2. KeysTyped'
    BY <2>1
  <2>3. RevokedHasNoEntry' /\ RefilledIsStale' /\ LateIsKnown'
    BY <2>1 DEF RevokedHasNoEntry, RefilledIsStale, BeingRevoked, LateIsKnown
  <2>4. Unrevoked' = Unrevoked /\ Creating' = Creating
    BY <2>1 DEF Unrevoked, Creating
  <2> QED BY <2>1, <2>2, <2>3, <2>4, FewerKeepTheLimit
<1>2. ASSUME NEW u \in Users, NEW k \in Keys, BeginRevoke(u, k) PROVE KeysInv'
  <2>1. user' = [user EXCEPT ![u] = [at |-> "invalidate", of |-> k]] /\ key[k] # "none"
        /\ UNCHANGED <<key, check, creator, cachedKeys, staleKeys, overtaken>>
    BY <1>2 DEF BeginRevoke, Unrevoked
  <2>2. KeysTyped'
    BY <2>1 DEF UserRecord
  <2>3. RevokedHasNoEntry' /\ RefilledIsStale' /\ LateIsKnown'
    BY <2>1 DEF RevokedHasNoEntry, RefilledIsStale, BeingRevoked, LateIsKnown
  <2>4. Unrevoked' = Unrevoked /\ Creating' = Creating
    BY <2>1 DEF Unrevoked, Creating
  <2> QED BY <2>1, <2>2, <2>3, <2>4, FewerKeepTheLimit
<1>3. ASSUME NEW c \in Checks, CheckStep(c) \/ \E k \in Keys : HitKey(c, k) \/ MissKey(c, k)
      PROVE  KeysInv'
  <2>1. EntriesInv' /\ UNCHANGED <<key, creator, overtaken>>
    BY <1>3, CheckStepInv
  <2>2. Unrevoked' = Unrevoked /\ Creating' = Creating
    BY <2>1 DEF Unrevoked, Creating
  <2> QED BY <2>1, <2>2, FewerKeepTheLimit
<1> QED BY <1>1, <1>2, <1>3, UserStepInv, CreatorStepInv DEF KeysStep

-----------------------------------------------------------------------------
(* A step is on the rules or on the keys, and leaves the other half alone.  *)
LEMMA StepKinds ==
  ASSUME Next, changes \in Nat
  PROVE  /\ (RulesStep /\ UNCHANGED keys) \/ (KeysStep /\ UNCHANGED rules)
         /\ changes' \in Nat
<1>1. ASSUME NEW v \in Versions, CreateVersion(v)
      PROVE  UNCHANGED keys /\ changes' \in Nat
  BY <1>1 DEF CreateVersion
<1>2. ASSUME NEW a \in Admins, AdminStep(a) \/ \E v \in Versions : BeginActivate(a, v)
      PROVE  UNCHANGED keys /\ changes' \in Nat
  BY <1>2 DEF AdminStep, BeginActivate, CommitActivate, InvalidateRules, InvalidateFails, Change
<1>3. ASSUME NEW p \in Parses, MissRules(p) \/ ParseStep(p)
      PROVE  UNCHANGED keys /\ changes' \in Nat
  BY <1>3 DEF MissRules, ParseStep, ReadRules, FillRules
<1>4. RulesExpire => UNCHANGED keys /\ changes' \in Nat
  BY DEF RulesExpire
<1>5. ASSUME NEW k \in Keys, KeyLapses(k) \/ KeyExpires(k)
      PROVE  UNCHANGED rules /\ changes' \in Nat
  BY <1>5 DEF KeyLapses, KeyExpires, Change
<1>6. ASSUME NEW u \in Users, UserStep(u) \/ \E k \in Keys : BeginRevoke(u, k)
      PROVE  UNCHANGED rules /\ changes' \in Nat
  BY <1>6 DEF UserStep, BeginRevoke, InvalidateKey, RevokeFails, CommitRevoke, Change
<1>7. ASSUME NEW c \in Checks, CheckStep(c) \/ \E k \in Keys : HitKey(c, k) \/ MissKey(c, k)
      PROVE  UNCHANGED rules /\ changes' \in Nat
  BY <1>7 DEF CheckStep, HitKey, MissKey, Comes, ReadKey, FillKey, Serve
<1>7a. ASSUME NEW n \in Creators, CountKeys(n) \/ CreatorStep(n)
      PROVE  UNCHANGED rules /\ changes' \in Nat
  BY <1>7a DEF CountKeys, CreatorStep, CreateKey, CreateFails, Change
<1>8. RulesStep \/ KeysStep
  BY DEF Next, RulesStep, KeysStep
<1>9. RulesStep => UNCHANGED keys /\ changes' \in Nat
  BY <1>1, <1>2, <1>3, <1>4 DEF RulesStep
<1>10. KeysStep => UNCHANGED rules /\ changes' \in Nat
  BY <1>5, <1>6, <1>7, <1>7a DEF KeysStep
<1> QED BY <1>8, <1>9, <1>10

LEMMA KeptByOthers ==
  /\ RulesInv /\ UNCHANGED rules => RulesInv'
  /\ KeysInv /\ UNCHANGED keys => KeysInv'
<1>1. RulesInv /\ UNCHANGED rules => RulesInv'
  BY DEF rules, RulesInv, RulesTyped, RulesAreActive
<1>2. EntriesInv /\ UNCHANGED keys => EntriesInv'
  BY DEF keys, EntriesInv, KeysTyped, RevokedHasNoEntry, RefilledIsStale, BeingRevoked,
         LateIsKnown
<1>3. CountedWithinLimit /\ UNCHANGED keys => CountedWithinLimit'
  <2>1. UNCHANGED keys => Unrevoked' = Unrevoked /\ Creating' = Creating /\ overtaken' = overtaken
    BY DEF keys, Unrevoked, Creating
  <2> QED BY <2>1 DEF CountedWithinLimit
<1> QED BY <1>1, <1>2, <1>3 DEF KeysInv

LEMMA InvAlways == Spec => [](RulesInv /\ KeysInv /\ changes \in Nat)
<1>1. RulesInv /\ KeysInv /\ changes \in Nat /\ [Next]_vars
        => (RulesInv /\ KeysInv /\ changes \in Nat)'
  <2> SUFFICES ASSUME RulesInv, KeysInv, changes \in Nat, [Next]_vars
               PROVE  RulesInv' /\ KeysInv' /\ changes' \in Nat
    OBVIOUS
  <2>1. CASE Next
    BY <2>1, StepKinds, RulesStepInv, KeysStepInv, KeptByOthers
  <2>2. CASE UNCHANGED vars
    BY <2>2, KeptByOthers DEF vars, rules, keys
  <2> QED BY <2>1, <2>2
<1> QED BY InitInv, <1>1, PTL DEF Spec

(* Every reachable state has its type.                                      *)
THEOREM TypeCorrect == Spec => []TypeOK
<1>1. RulesInv /\ KeysInv /\ changes \in Nat => TypeOK
  BY DEF RulesInv, KeysInv, EntriesInv, RulesTyped, KeysTyped, TypeOK, AdminRecord, ParseRecord, UserRecord,
         CheckRecord, ParserPattern, ApiKey
<1> QED BY <1>1, InvAlways, PTL

(* Rules that are no longer active are served only while an activation has  *)
(* its deletion before it, or after one that failed or was overtaken by a   *)
(* parse (activateVersion, findActivePatterns).                             *)
THEOREM ServedRulesAreActive == Spec => []RulesAreActive
BY InvAlways, PTL DEF RulesInv

(* A revoked key has an entry only if a verification filled it behind the   *)
(* deletion (ApiKeysService.revoke, ApiKeyVerifier.verify).                 *)
THEOREM RevokedKeysLeaveTheCache == Spec => []RevokedHasNoEntry
BY InvAlways, PTL DEF KeysInv, EntriesInv

(* A request that comes with a revoked key is refused, unless it finds an   *)
(* entry filled behind the deletion (ApiKeyVerifier.verify,                 *)
(* PublicApiAuthGuard.activateWithApiKey).                                  *)
THEOREM LateRequestsAreRefused == Spec => []LateIsRefused
<1>1. KeysInv => LateIsRefused
  BY DEF KeysInv, EntriesInv, LateIsKnown, LateIsRefused
<1> QED BY <1>1, InvAlways, PTL

(* Keys pass the plan's limit by no more than the counts that overtook a    *)
(* creation (assertWithinKeyLimit, ApiKeysService.create).                  *)
THEOREM KeysKeepTheLimit == Spec => []KeysWithinLimit
<1>1. KeysInv => KeysWithinLimit
  <2> SUFFICES ASSUME KeysInv, KeyLimit # Unlimited
               PROVE  Cardinality(Unrevoked) <= KeyLimit + overtaken
    BY DEF KeysWithinLimit
  <2>1. IsFiniteSet(Unrevoked) /\ IsFiniteSet(Creating)
    BY FiniteAssumption, FS_Subset DEF Unrevoked, Creating
  <2>2. Cardinality(Unrevoked) \in Nat /\ Cardinality(Creating) \in Nat
    BY <2>1, FS_CardinalityType
  <2> QED BY <2>2, LimitAssumption DEF KeysInv, EntriesInv, KeysTyped, CountedWithinLimit, Limits
<1> QED BY <1>1, InvAlways, PTL
=============================================================================
