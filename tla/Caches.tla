------------------------------- MODULE Caches ------------------------------
(***************************************************************************)
(* The two caches the API keeps in Redis beside the database: the parser   *)
(* rules of a wallet and the verified API keys.  Both are filled by whoever*)
(* misses, expire after CACHE_TTL_SECONDS and are deleted by whoever       *)
(* changes the row; what differs is when: activateVersion deletes after    *)
(* its commit, revoke before it.  With the keys comes their creation under *)
(* the plan's limit, which counts in one transaction and creates in the    *)
(* next, and the request that a verified key lets in.                      *)
(***************************************************************************)
EXTENDS Integers, FiniteSets

CONSTANTS
  Versions,   \* parser versions of one wallet
  Admins,     \* platform administrators who activate versions
  Parses,     \* parse jobs that look the rules up at once
  Keys,       \* API keys
  Users,      \* users who revoke them
  Checks,     \* public requests that verify a key at once
  Creators,   \* requests that create a key at once
  KeyLimit,   \* plan.limits.webhooks, which bounds the keys as well
  MaxChanges  \* bound: activations, revocations, lapses and failures of Redis

Unlimited == -1

(* The limits that validatePlanLimits lets the API start with               *)
Limits == Nat \cup {Unlimited}

ASSUME CachesAssumption == MaxChanges \in Nat
ASSUME LimitAssumption == KeyLimit \in Limits
ASSUME FiniteAssumption == IsFiniteSet(Keys) /\ IsFiniteSet(Creators)

None == "none"
ASSUME NoneIsNeither == None \notin Versions /\ None \notin Keys

VARIABLES
  version,      \* [Versions -> parser_patterns row]
  admin,        \* [Admins -> local state of activateVersion]
  parse,        \* [Parses -> local state of findActivePatterns]
  cachedRules,  \* parser-patterns:<wallet>
  key,          \* [Keys -> api_keys row]
  user,         \* [Users -> local state of revoke]
  check,        \* [Checks -> local state of verify]
  creator,      \* [Creators -> local state of create]
  cachedKeys,   \* keys with an api-key:<hash> entry
  staleRules,   \* history: why the cached rules may not be the active ones
  staleKeys,    \* history: keys whose entry a revocation could not delete
  overtaken,    \* history: counts taken while another creation had counted
  changes

rules == <<version, admin, parse, cachedRules, staleRules>>
keys == <<key, user, check, creator, cachedKeys, staleKeys, overtaken>>
vars == <<version, admin, parse, cachedRules, key, user, check, creator, cachedKeys,
          staleRules, staleKeys, overtaken, changes>>

-----------------------------------------------------------------------------
(* Types *)

IdleAdmin == [at |-> "idle", target |-> None, active |-> {}]
Idle == [at |-> "idle", of |-> None]

(* "late": the key was revoked when the request came; "stale": the entry    *)
(* that let it in was one a revocation could not delete.                    *)
IdleCheck == [at |-> "idle", of |-> None, late |-> FALSE, stale |-> FALSE]

(* What is told apart of a row, or that there is none.                    *)
ParserPattern == {"none", "inactive", "active"}
ApiKey == {"none", "live", "lapsed", "revoked"}

TypeOK ==
  /\ version \in [Versions -> ParserPattern]
  /\ admin \in [Admins -> [at : {"idle", "activate", "invalidate"},
                           target : Versions \cup {None}, active : SUBSET Versions]]
  /\ parse \in [Parses -> [at : {"idle", "read", "fill"}, of : Versions \cup {None}]]
  /\ cachedRules \in Versions \cup {None}
  /\ key \in [Keys -> ApiKey]
  /\ user \in [Users -> [at : {"idle", "invalidate", "commit"}, of : Keys \cup {None}]]
  /\ check \in [Checks -> [at : {"idle", "read", "fill", "serve"}, of : Keys \cup {None},
                           late : BOOLEAN, stale : BOOLEAN]]
  /\ creator \in [Creators -> {"idle", "create"}]
  /\ cachedKeys \subseteq Keys
  /\ staleRules \in BOOLEAN
  /\ staleKeys \subseteq Keys
  /\ overtaken \in Nat
  /\ changes \in Nat

Init ==
  /\ version = [v \in Versions |-> "none"]
  /\ admin = [a \in Admins |-> IdleAdmin]
  /\ parse = [p \in Parses |-> Idle]
  /\ cachedRules = None
  /\ key = [k \in Keys |-> "none"]
  /\ user = [u \in Users |-> Idle]
  /\ check = [c \in Checks |-> IdleCheck]
  /\ creator = [n \in Creators |-> "idle"]
  /\ cachedKeys = {}
  /\ staleRules = FALSE
  /\ staleKeys = {}
  /\ overtaken = 0
  /\ changes = 0

Change == changes < MaxChanges /\ changes' = changes + 1

-----------------------------------------------------------------------------
(* Versions of the rules *)

ActiveIn(rows) == {v \in Versions : rows[v] = "active"}

CreateVersion(v) ==
  /\ version[v] = "none"
  /\ version' = [version EXCEPT ![v] = "inactive"]
  /\ UNCHANGED <<keys, admin, parse, cachedRules, staleRules, changes>>

(* updateMany takes the versions that are active when it starts.            *)
BeginActivate(a, v) ==
  /\ admin[a].at = "idle"
  /\ version[v] # "none"
  /\ admin' = [admin EXCEPT ![a] = [at |-> "activate", target |-> v,
                                     active |-> ActiveIn(version)]]
  /\ Change
  /\ UNCHANGED <<keys, version, parse, cachedRules, staleRules>>

Deactivated(rows) ==
  [v \in Versions |-> IF v \in rows /\ version[v] = "active" THEN "inactive" ELSE version[v]]

Activated(a) == [Deactivated(admin[a].active) EXCEPT ![admin[a].target] = "active"]

UniqueActive(rows) == \A v, w \in ActiveIn(rows) : v = w

CommitActivate(a) ==
  /\ admin[a].at = "activate"
  /\ \/ /\ UniqueActive(Activated(a))
        /\ version' = Activated(a)
        /\ admin' = [admin EXCEPT ![a].at = "invalidate"]
     \/ /\ ~UniqueActive(Activated(a))
        /\ admin' = [admin EXCEPT ![a] = IdleAdmin]
        /\ UNCHANGED version
  /\ UNCHANGED <<keys, parse, cachedRules, staleRules, changes>>

RulesInvalidated == None

InvalidateRules(a) ==
  /\ admin[a].at = "invalidate"
  /\ admin' = [admin EXCEPT ![a] = IdleAdmin]
  /\ cachedRules' = RulesInvalidated
  /\ staleRules' = FALSE
  /\ UNCHANGED <<keys, version, parse, changes>>

(* Redis, or the API, fails after the commit.                               *)
InvalidateFails(a) ==
  /\ admin[a].at = "invalidate"
  /\ admin' = [admin EXCEPT ![a] = IdleAdmin]
  /\ staleRules' = (cachedRules # None)
  /\ Change
  /\ UNCHANGED <<keys, version, parse, cachedRules>>

-----------------------------------------------------------------------------
(* findActivePatterns *)

MissRules(p) ==
  /\ parse[p].at = "idle" /\ cachedRules = None
  /\ parse' = [parse EXCEPT ![p].at = "read"]
  /\ UNCHANGED <<keys, version, admin, cachedRules, staleRules, changes>>

ReadRules(p) ==
  /\ parse[p].at = "read"
  /\ \/ \E v \in ActiveIn(version) : parse' = [parse EXCEPT ![p] = [at |-> "fill", of |-> v]]
     \/ ActiveIn(version) = {} /\ parse' = [parse EXCEPT ![p] = Idle]
  /\ UNCHANGED <<keys, version, admin, cachedRules, staleRules, changes>>

FillRules(p) ==
  /\ parse[p].at = "fill"
  /\ cachedRules' = parse[p].of
  /\ staleRules' = (version[parse[p].of] # "active")
  /\ parse' = [parse EXCEPT ![p] = Idle]
  /\ UNCHANGED <<keys, version, admin, changes>>

(* A mutant: SET without EX.                                                *)
KeptForever == FALSE

HasExpiry == TRUE

RulesExpire ==
  /\ cachedRules # None /\ HasExpiry
  /\ cachedRules' = None
  /\ staleRules' = FALSE
  /\ UNCHANGED <<keys, version, admin, parse, changes>>

-----------------------------------------------------------------------------
(* API keys *)

(* revokedAt is null: an expired key counts.                                *)
Unrevoked == {k \in Keys : key[k] \in {"live", "lapsed"}}

(* assertWithinLimit                                                        *)
WithinLimit == KeyLimit = Unlimited \/ Cardinality(Unrevoked) < KeyLimit

Creating == {n \in Creators : creator[n] = "create"}

(* assertWithinKeyLimit: a transaction of its own                           *)
CountKeys(n) ==
  /\ creator[n] = "idle"
  /\ WithinLimit
  /\ creator' = [creator EXCEPT ![n] = "create"]
  /\ overtaken' = IF Creating = {} THEN overtaken ELSE overtaken + 1
  /\ UNCHANGED <<rules, key, user, check, cachedKeys, staleKeys, changes>>

CreateKey(n, k) ==
  /\ creator[n] = "create"
  /\ key[k] = "none"
  /\ key' = [key EXCEPT ![k] = "live"]
  /\ creator' = [creator EXCEPT ![n] = "idle"]
  /\ UNCHANGED <<rules, user, check, cachedKeys, staleKeys, overtaken, changes>>

(* The insertion throws.                                                    *)
CreateFails(n) ==
  /\ creator[n] = "create"
  /\ creator' = [creator EXCEPT ![n] = "idle"]
  /\ Change
  /\ UNCHANGED <<rules, key, user, check, cachedKeys, staleKeys, overtaken>>

(* Expired, or its tenant suspended: nothing deletes its entry.             *)
KeyLapses(k) ==
  /\ key[k] = "live"
  /\ key' = [key EXCEPT ![k] = "lapsed"]
  /\ Change
  /\ UNCHANGED <<rules, user, check, creator, cachedKeys, staleKeys, overtaken>>

(* findUnique                                                               *)
BeginRevoke(u, k) ==
  /\ user[u].at = "idle"
  /\ k \in Unrevoked
  /\ user' = [user EXCEPT ![u] = [at |-> "invalidate", of |-> k]]
  /\ Change
  /\ UNCHANGED <<rules, key, check, creator, cachedKeys, staleKeys, overtaken>>

(* A mutant: the entry is left to expire.                                   *)
EveryEntry(u) == cachedKeys

OtherEntries(u) == cachedKeys \ {user[u].of}

(* The update locks the row until the commit: whoever revokes it too waits. *)
RowLocked(u) == \E w \in Users : user[w].at = "commit" /\ user[w].of = user[u].of

InvalidateKey(u) ==
  /\ user[u].at = "invalidate" /\ ~RowLocked(u)
  /\ cachedKeys' = OtherEntries(u)
  /\ staleKeys' = staleKeys \ {user[u].of}
  /\ user' = [user EXCEPT ![u].at = "commit"]
  /\ UNCHANGED <<rules, key, check, creator, overtaken, changes>>

(* The exception undoes the revocation.                                     *)
RevokeFails(u) ==
  /\ user[u].at = "invalidate"
  /\ user' = [user EXCEPT ![u] = Idle]
  /\ Change
  /\ UNCHANGED <<rules, key, check, creator, cachedKeys, staleKeys, overtaken>>

CommitRevoke(u) ==
  /\ user[u].at = "commit"
  /\ key' = [key EXCEPT ![user[u].of] = "revoked"]
  /\ user' = [user EXCEPT ![u] = Idle]
  /\ UNCHANGED <<rules, check, creator, cachedKeys, staleKeys, overtaken, changes>>

-----------------------------------------------------------------------------
(* A request with an API key: verify, and PublicApiAuthGuard lets it in *)

Comes(c, k, at, stale) ==
  /\ check[c].at = "idle" /\ key[k] # "none"
  /\ check' = [check EXCEPT ![c] = [at |-> at, of |-> k, late |-> key[k] = "revoked",
                                     stale |-> stale]]
  /\ UNCHANGED <<rules, key, user, creator, cachedKeys, staleKeys, overtaken, changes>>

HitKey(c, k) == k \in cachedKeys /\ Comes(c, k, "serve", k \in staleKeys)

MissKey(c, k) == k \notin cachedKeys /\ Comes(c, k, "read", FALSE)

ReadKey(c) ==
  /\ check[c].at = "read"
  /\ check' = [check EXCEPT ![c] = IF key[check[c].of] = "live" THEN [@ EXCEPT !.at = "fill"]
                                   ELSE IdleCheck]
  /\ UNCHANGED <<rules, key, user, creator, cachedKeys, staleKeys, overtaken, changes>>

BeingRevoked(k) == \E u \in Users : user[u].at = "commit" /\ user[u].of = k

FillKey(c) ==
  LET k == check[c].of
  IN  /\ check[c].at = "fill"
      /\ cachedKeys' = cachedKeys \cup {k}
      /\ staleKeys' = staleKeys \cup {x \in {k} : key[x] = "revoked" \/ BeingRevoked(x)}
      /\ check' = [check EXCEPT ![c].at = "serve"]
      /\ UNCHANGED <<rules, key, user, creator, overtaken, changes>>

(* The tenant and the scopes are those of the verified key.                 *)
Serve(c) ==
  /\ check[c].at = "serve"
  /\ check' = [check EXCEPT ![c] = IdleCheck]
  /\ UNCHANGED <<rules, key, user, creator, cachedKeys, staleKeys, overtaken, changes>>

KeyExpires(k) ==
  /\ k \in cachedKeys /\ HasExpiry
  /\ cachedKeys' = cachedKeys \ {k}
  /\ staleKeys' = staleKeys \ {k}
  /\ UNCHANGED <<rules, key, user, check, creator, overtaken, changes>>

-----------------------------------------------------------------------------
AdminStep(a) ==
  CommitActivate(a) \/ InvalidateRules(a) \/ InvalidateFails(a)
ParseStep(p) == ReadRules(p) \/ FillRules(p)
UserStep(u) == InvalidateKey(u) \/ RevokeFails(u) \/ CommitRevoke(u)
CheckStep(c) == ReadKey(c) \/ FillKey(c) \/ Serve(c)
CreatorStep(n) == CreateFails(n) \/ \E k \in Keys : CreateKey(n, k)

Next ==
  \/ \E v \in Versions : CreateVersion(v)
  \/ \E a \in Admins : AdminStep(a) \/ \E v \in Versions : BeginActivate(a, v)
  \/ \E p \in Parses : MissRules(p) \/ ParseStep(p)
  \/ RulesExpire
  \/ \E k \in Keys : KeyLapses(k) \/ KeyExpires(k)
  \/ \E u \in Users : UserStep(u) \/ \E k \in Keys : BeginRevoke(u, k)
  \/ \E n \in Creators : CountKeys(n) \/ CreatorStep(n)
  \/ \E c \in Checks : CheckStep(c) \/ \E k \in Keys : HitKey(c, k) \/ MissKey(c, k)

Spec == Init /\ [][Next]_vars

(* What has begun ends, and Redis expires what it holds.                    *)
FairSpec ==
  /\ Spec
  /\ \A a \in Admins : WF_vars(AdminStep(a))
  /\ \A p \in Parses : WF_vars(ParseStep(p))
  /\ \A u \in Users : WF_vars(UserStep(u))
  /\ \A c \in Checks : WF_vars(CheckStep(c))
  /\ WF_vars(RulesExpire)
  /\ \A k \in Keys : WF_vars(KeyExpires(k))

-----------------------------------------------------------------------------
(* Properties *)

(* "para que el cambio surta efecto sin esperar su expiracion": between     *)
(* activations the cache serves the active version, unless a parse filled   *)
(* it with what it had read before the activation, or the deletion failed   *)
(* (invalidate).                                                            *)
RulesAreActive ==
  cachedRules # None /\ (\A a \in Admins : admin[a].at # "invalidate") /\ ~staleRules =>
    version[cachedRules] = "active"

(* A revoked key has no entry, unless a verification that read the row      *)
(* before the revocation committed filled it after the deletion             *)
(* (ApiKeysService.revoke).                                                 *)
RevokedHasNoEntry == \A k \in cachedKeys : key[k] = "revoked" => k \in staleKeys

(* A request with a revoked key is let in only if it came before the        *)
(* revocation, or found an entry that was filled behind the deletion        *)
(* (ApiKeyVerifier.verify, PublicApiAuthGuard.activateWithApiKey).          *)
LateIsRefused == \A c \in Checks : check[c].at = "serve" /\ check[c].late => check[c].stale

(* Every key beyond the plan's limit is owed to a creation that counted     *)
(* while another one had counted and not yet created                        *)
(* (assertWithinKeyLimit, ApiKeysService.create).                           *)
KeysWithinLimit ==
  KeyLimit # Unlimited => Cardinality(Unrevoked) <= KeyLimit + overtaken

(* Whatever crossed, the entries catch up with the rows: in the end rules   *)
(* that are not active are not served, and dead keys are refused            *)
(* (CACHE_TTL_SECONDS).                                                     *)
CachesCatchUp ==
  <>[](/\ cachedRules # None => version[cachedRules] = "active"
       /\ \A k \in cachedKeys : key[k] = "live")

(* "la revocacion sigue siendo inmediata pese al cache positivo"            *)
RevokedIsRefused == \A k \in cachedKeys : key[k] # "revoked"
=============================================================================
