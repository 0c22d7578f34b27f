--------------------------- MODULE DevicePresence ---------------------------
(***************************************************************************)
(* One paired device as the server sees it and as the phone lives: its     *)
(* heartbeats, the offline check of every API instance, the mails about    *)
(* both, and the wallets whose notifications the phone listens to, which   *)
(* it learns from the answers to its heartbeats.                           *)
(*                                                                         *)
(* The foreground service, the backup worker and the status screen call    *)
(* on their own; their answers may be lost or arrive in any order.  Time   *)
(* is counted in ticks: a device not seen for Threshold ticks is offline.  *)
(***************************************************************************)
EXTENDS Integers, FiniteSets

CONSTANTS
  Callers,     \* what calls from the phone: service, worker, status screen
  Checkers,    \* API instances, each with its DeviceOfflineScheduler
  Users,       \* users of the dashboard
  Wallets,
  WalletLimit, \* plan.limits.wallets
  Threshold,   \* DEVICE_OFFLINE_THRESHOLD_MS, in ticks
  MaxTicks,    \* bound: ticks of the clock
  MaxChanges,  \* bound: what users do
  MaxLosses    \* bound: answers lost

ConstantsAssumption ==
  /\ IsFiniteSet(Checkers)
  /\ {WalletLimit, Threshold, MaxTicks, MaxChanges, MaxLosses} \subseteq Nat

ASSUME PresenceAssumption == ConstantsAssumption

VARIABLES
  now,      \* ticks
  row,      \* the devices row
  wallet,   \* enabled tenant_wallets, and when one last changed
  phone,    \* the packages it listens to, and the version of that list
  call,     \* [Callers -> a heartbeat or a GET /config on its way]
  checker,  \* [Checkers -> local state of detectOfflineDevices]
  user,     \* [Users -> local state of a wallet's activation]
  mails,    \* history: times marked, offline and recovered mails
  spent     \* changes and losses

vars == <<now, row, wallet, phone, call, checker, user, mails, spent>>

-----------------------------------------------------------------------------
(* Types *)

Config == [packages : SUBSET Wallets, version : 0..MaxTicks]
IdleCall == [at |-> "idle", config |-> [packages |-> {}, version |-> 0]]

TypeOK ==
  /\ now \in 0..MaxTicks
  /\ row \in [status : {"ACTIVE", "PAUSED", "REVOKED"}, seen : 0..MaxTicks, marked : BOOLEAN]
  /\ wallet \in [enabled : SUBSET Wallets, updatedAt : 0..MaxTicks]
  /\ phone \in Config
  /\ call \in [Callers -> [at : {"idle", "seen", "clear", "config", "answer"}, config : Config]]
  /\ checker \in [Checkers -> {"idle", "mark", "mail"}]
  /\ user \in [Users -> [at : {"idle", "enable"}, wallet : Wallets \cup {"none"}]]
  /\ mails \in [marks : Nat, offline : Nat, recovered : Nat]
  /\ spent \in [changes : 0..MaxChanges, losses : 0..MaxLosses]

(* Just paired, with the wallets that were enabled then.                    *)
Init ==
  /\ now = 0
  /\ row = [status |-> "ACTIVE", seen |-> 0, marked |-> FALSE]
  /\ \E w \in Wallets :
       /\ wallet = [enabled |-> {w}, updatedAt |-> 0]
       /\ phone = [packages |-> {w}, version |-> 0]
  /\ call = [c \in Callers |-> IdleCall]
  /\ checker = [k \in Checkers |-> "idle"]
  /\ user = [u \in Users |-> [at |-> "idle", wallet |-> "none"]]
  /\ mails = [marks |-> 0, offline |-> 0, recovered |-> 0]
  /\ spent = [changes |-> 0, losses |-> 0]

-----------------------------------------------------------------------------
(* The phone calls: sendHeartbeat, fetchRemoteConfig *)

GoTo(c, step) == call' = [call EXCEPT ![c].at = step]

(* DeviceTokenGuard: a revoked device is answered 401.                      *)
Authenticated == row.status # "REVOKED"

StartHeartbeat(c) ==
  /\ call[c].at = "idle"
  /\ Authenticated
  /\ GoTo(c, "seen")
  /\ UNCHANGED <<now, row, wallet, phone, checker, user, mails, spent>>

FetchConfig(c) ==
  /\ call[c].at = "idle"
  /\ Authenticated
  /\ GoTo(c, "config")
  /\ UNCHANGED <<now, row, wallet, phone, checker, user, mails, spent>>

(* A mutant: a paused device is not announced as recovered.                 *)
RecoversIfActive == row.marked /\ row.status = "ACTIVE"

(* updated.offlineNotifiedAt                                                *)
Recovers == row.marked

UpdateSeen(c) ==
  /\ call[c].at = "seen"
  /\ row' = [row EXCEPT !.seen = now]
  /\ GoTo(c, IF Recovers THEN "clear" ELSE "config")
  /\ UNCHANGED <<now, wallet, phone, checker, user, mails, spent>>

(* updateMany .. WHERE offlineNotifiedAt IS NOT NULL: its count decides.    *)
Clears == row.marked

NotifyRecovery(c) ==
  /\ call[c].at = "clear"
  /\ row' = [row EXCEPT !.marked = FALSE]
  /\ mails' = IF Clears THEN [mails EXCEPT !.recovered = @ + 1] ELSE mails
  /\ GoTo(c, "config")
  /\ UNCHANGED <<now, wallet, phone, checker, user, spent>>

ReadConfig(c) ==
  /\ call[c].at = "config"
  /\ call' = [call EXCEPT ![c] =
       [at |-> "answer", config |-> [packages |-> wallet.enabled, version |-> wallet.updatedAt]]]
  /\ UNCHANGED <<now, row, wallet, phone, checker, user, mails, spent>>

(* A mutant: a list is saved when its version is another.                   *)
SavesNewVersion(config) == IF config.version # phone.version THEN config ELSE phone

(* RemoteConfigPreferences.save                                             *)
Saves(config) == config

Answer(c) ==
  /\ call[c].at = "answer"
  /\ phone' = Saves(call[c].config)
  /\ call' = [call EXCEPT ![c] = IdleCall]
  /\ UNCHANGED <<now, row, wallet, checker, user, mails, spent>>

LoseAnswer(c) ==
  /\ call[c].at = "answer"
  /\ spent.losses < MaxLosses
  /\ call' = [call EXCEPT ![c] = IdleCall]
  /\ spent' = [spent EXCEPT !.losses = @ + 1]
  /\ UNCHANGED <<now, row, wallet, phone, checker, user, mails>>

-----------------------------------------------------------------------------
(* detectOfflineDevices *)

(* A mutant: devices that were told of are candidates again.                *)
CandidateAgain == row.status = "ACTIVE" /\ now - row.seen > Threshold

Candidate == row.status = "ACTIVE" /\ ~row.marked /\ now - row.seen > Threshold

ReadCandidates(k) ==
  /\ checker[k] = "idle"
  /\ Candidate
  /\ checker' = [checker EXCEPT ![k] = "mark"]
  /\ UNCHANGED <<now, row, wallet, phone, call, user, mails, spent>>

(* The update repeats the mark's condition, not the silence's, and its      *)
(* count does not decide the mail.                                          *)
MarkOffline(k) ==
  /\ checker[k] = "mark"
  /\ checker' = [checker EXCEPT ![k] = "mail"]
  /\ row' = [row EXCEPT !.marked = TRUE]
  /\ mails' = IF row.marked THEN mails ELSE [mails EXCEPT !.marks = @ + 1]
  /\ UNCHANGED <<now, wallet, phone, call, user, spent>>

MailOffline(k) ==
  /\ checker[k] = "mail"
  /\ checker' = [checker EXCEPT ![k] = "idle"]
  /\ mails' = [mails EXCEPT !.offline = @ + 1]
  /\ UNCHANGED <<now, row, wallet, phone, call, user, spent>>

-----------------------------------------------------------------------------
(* Users: the device's status, the wallets *)

Change == spent.changes < MaxChanges /\ spent' = [spent EXCEPT !.changes = @ + 1]

SetStatus(status) ==
  /\ row.status # "REVOKED" /\ row.status # status
  /\ row' = [row EXCEPT !.status = status]
  /\ Change
  /\ UNCHANGED <<now, wallet, phone, call, checker, user, mails>>

WithEnabled(wallets) == wallet' = [enabled |-> wallets, updatedAt |-> now]

(* activateWallet, updateWallet: the limit is counted before the write.     *)
CheckWalletLimit(u, w) ==
  /\ user[u].at = "idle"
  /\ w \notin wallet.enabled
  /\ Cardinality(wallet.enabled) < WalletLimit
  /\ user' = [user EXCEPT ![u] = [at |-> "enable", wallet |-> w]]
  /\ Change
  /\ UNCHANGED <<now, row, wallet, phone, call, checker, mails>>

EnableWallet(u) ==
  /\ user[u].at = "enable"
  /\ WithEnabled(wallet.enabled \cup {user[u].wallet})
  /\ user' = [user EXCEPT ![u] = [at |-> "idle", wallet |-> "none"]]
  /\ UNCHANGED <<now, row, phone, call, checker, mails, spent>>

DeactivateWallet(w) ==
  /\ w \in wallet.enabled
  /\ WithEnabled(wallet.enabled \ {w})
  /\ Change
  /\ UNCHANGED <<now, row, phone, call, checker, user, mails>>

-----------------------------------------------------------------------------
Tick ==
  /\ now < MaxTicks
  /\ now' = now + 1
  /\ UNCHANGED <<row, wallet, phone, call, checker, user, mails, spent>>

Serve(c) == UpdateSeen(c) \/ NotifyRecovery(c) \/ ReadConfig(c) \/ Answer(c)
Check(k) == ReadCandidates(k) \/ MarkOffline(k) \/ MailOffline(k)

Next ==
  \/ \E c \in Callers : StartHeartbeat(c) \/ FetchConfig(c) \/ Serve(c) \/ LoseAnswer(c)
  \/ \E k \in Checkers : Check(k)
  \/ \E status \in {"ACTIVE", "PAUSED", "REVOKED"} : SetStatus(status)
  \/ \E u \in Users : EnableWallet(u) \/ \E w \in Wallets : CheckWalletLimit(u, w)
  \/ \E w \in Wallets : DeactivateWallet(w)
  \/ Tick

Spec == Init /\ [][Next]_vars

(* The service and the worker beat again and again, what has begun in the   *)
(* API ends, an interval runs, users end what they began.                   *)
Fairness ==
  /\ \A c \in Callers : SF_vars(StartHeartbeat(c)) /\ WF_vars(Serve(c))
  /\ \A k \in Checkers : WF_vars(Check(k))
  /\ \A u \in Users : WF_vars(EnableWallet(u))

FairSpec == Spec /\ Fairness

-----------------------------------------------------------------------------
(* Safety *)

(* However the instances' checks and the heartbeats cross, a spell offline  *)
(* is mailed at most once by each instance, and its end at most once        *)
(* (detectOfflineDevices, notifyRecovery).                                  *)
MailsPerMark ==
  /\ mails.offline <= Cardinality(Checkers) * mails.marks
  /\ mails.recovered <= mails.marks

-----------------------------------------------------------------------------
(* Liveness *)

(* A phone that beats is not left marked as offline, also when a check had  *)
(* read it before the heartbeat and marks it after (heartbeat).             *)
BeatingIsOnline == <>[](row.status = "REVOKED" \/ ~row.marked)

(* The phone ends up listening to the wallets that are enabled, though      *)
(* answers are lost or overtake each other (SendHeartbeatUseCase).          *)
ConfigConverges == <>[](row.status = "REVOKED" \/ phone.packages = wallet.enabled)
=============================================================================
