--------------------------- MODULE IngestPipeline ---------------------------
(***************************************************************************)
(* The server side of Yallego's central flow, for one tenant that starts   *)
(* in the free trial: POST /internal/v1/ingest, the BullMQ parsing queue,  *)
(* ParsingWorker, EntitlementService's quota buckets and the platform      *)
(* administrator's reprocessing.                                           *)
(*                                                                         *)
(* A notification stands for one (device, dedupe_hash) pair, so sending it *)
(* twice is sending the same element.  A database transaction is one       *)
(* action, except the one that creates a Transaction row: it reads the     *)
(* subscription with one statement and writes with later ones, under READ  *)
(* COMMITTED, so it is split into BeginCommit (the read) and               *)
(* CommitTransaction (the writes, atomic because of their row locks).      *)
(***************************************************************************)
EXTENDS Naturals, FiniteSets

CONSTANTS
  Notifications,   \* what the phone can capture, one element per dedupe hash
  Requests,        \* ingest requests the API can be serving at once
  Workers,         \* parsing workers: one per API instance
  Admins,          \* platform administrators reprocessing notifications
  LastDay,         \* the days of the tenant's time zone are 1..LastDay
  DailyLimit,      \* plan.limits.transactions_per_day of TRIAL
  TotalLimit,      \* plan.limits.transactions_per_period of TRIAL
  MonthlyLimit,    \* plan.limits.transactions_per_month of the paid plan
  MaxAttempts,     \* BullMQ "attempts" of a parsing job
  MaxJobStalls,    \* BullMQ maxStalledCount: stalls a job survives
  MaxApiFaults,    \* bound: requests cut short by a crash or an error
  MaxWorkerFaults, \* bound: attempts that throw, workers that die
  MaxLockLosses,   \* bound: job locks that expire while the worker still runs
  MaxReprocess,    \* bound: reprocessing calls
  TrialElapses,    \* bound: whether the trial's 72 hours can pass
  UpgradeHappens   \* bound: whether the tenant can move to a paid plan

Days == 1..LastDay
NoDay == 0         \* quotaWindowStart IS NULL
NoOwner == "none"
NoItem == "none"

ASSUME FiniteAssumption == IsFiniteSet(Notifications)
ASSUME BoundAssumption ==
  /\ LastDay \in Nat \ {0}
  /\ DailyLimit \in Nat \ {0}
  /\ TotalLimit \in Nat \ {0}
  /\ MonthlyLimit \in Nat
  /\ MaxAttempts \in Nat \ {0}
  /\ MaxJobStalls \in Nat
  /\ MaxApiFaults \in Nat
  /\ MaxWorkerFaults \in Nat
  /\ MaxLockLosses \in Nat
  /\ MaxReprocess \in Nat
  /\ {TrialElapses, UpgradeHappens} \subseteq BOOLEAN
ASSUME OwnerAssumption == NoOwner \notin Workers

VARIABLES
  \* the phone and the clock
  phone,            \* [Notifications -> "unseen" | "queued" | "acked"]
  today,            \* the tenant's current local day
  \* PostgreSQL
  subscription,     \* the tenant's subscription row
  parseStatus,      \* raw_notifications.parse_status, or "absent"
  quotaWindow,      \* raw_notifications.quota_window_start
  transactions,     \* the notifications that have a transactions row
  paidPeriod,       \* notifications posted in the paid billing period
  dayUsed, dayReserved,     \* usage_buckets of type DAY
  totalUsed, totalReserved, \* usage_buckets of type SUBSCRIPTION_PERIOD
  \* Redis: the parsing queue
  jobs,             \* [JobIds -> job]
  \* the processes
  request,          \* [Requests -> the handler's local state]
  worker,           \* [Workers -> the use case's local state]
  admin,            \* [Admins -> the reprocess call's local state]
  \* what is observable downstream of TransactionCreated
  published,        \* [Notifications -> times counted and published]
  \* bounds
  budget            \* faults and reprocessing calls already spent

buckets == <<dayUsed, dayReserved, totalUsed, totalReserved>>
vars == <<phone, today, subscription, parseStatus, quotaWindow, transactions,
          paidPeriod, dayUsed, dayReserved, totalUsed, totalReserved, jobs,
          request, worker, admin, published, budget>>

-----------------------------------------------------------------------------
(* Types *)

(* The jobId is the raw notification's id, or that id and the reprocessing  *)
(* call that queued it.                                                     *)
JobIds == Notifications \X (0..MaxReprocess)
Job == [state : {"none", "waiting", "active", "completed", "failed"},
        attempts : Nat, stalls : Nat,
        owner : Workers \cup {NoOwner}]

(* trialClock is trial_ends_at seen from now: null, ahead, or past.         *)
Subscription == [plan : {"TRIAL", "PAID"},
                 status : {"PENDING_TRIAL", "TRIALING", "ACTIVE"},
                 trialClock : {"unset", "running", "elapsed"},
                 trialEnd : {"none", "TIME_LIMIT", "TOTAL_LIMIT"},
                 trialStarts : Nat]

Request == [at : {"idle", "insert", "enqueue"},
            batch : SUBSET Notifications,    \* items of the request
            toEnqueue : SUBSET Notifications, \* inserted, no job added yet
            accepted : SUBSET Notifications]  \* QUEUED or DUPLICATE

Worker == [at : {"idle", "matched", "unmatched", "commit", "release", "publish"},
           item : Notifications \cup {NoItem}, call : 0..MaxReprocess, \* its job
           sub : Subscription]               \* the subscription it has read

Admin == [at : {"idle", "update", "enqueue"}, rows : SUBSET Notifications,
          call : 0..MaxReprocess]

NewSubscription == [plan |-> "TRIAL", status |-> "PENDING_TRIAL",
                    trialClock |-> "unset", trialEnd |-> "none",
                    trialStarts |-> 0]
IdleRequest == [at |-> "idle", batch |-> {}, toEnqueue |-> {}, accepted |-> {}]
IdleWorker == [at |-> "idle", item |-> NoItem, call |-> 0, sub |-> NewSubscription]
IdleAdmin == [at |-> "idle", rows |-> {}, call |-> 0]

Busy(w) == worker[w].at # "idle"
JobOf(w) == <<worker[w].item, worker[w].call>>

TypeOK ==
  /\ phone \in [Notifications -> {"unseen", "queued", "acked"}]
  /\ today \in Days
  /\ subscription \in Subscription
  /\ parseStatus \in [Notifications -> {"absent", "PENDING", "PARSED", "UNMATCHED"}]
  /\ quotaWindow \in [Notifications -> Days \cup {NoDay}]
  /\ transactions \in SUBSET Notifications
  /\ paidPeriod \in SUBSET Notifications
  /\ dayUsed \in [Days -> Nat]
  /\ dayReserved \in [Days -> Nat]
  /\ totalUsed \in Nat
  /\ totalReserved \in Nat
  /\ jobs \in [JobIds -> Job]
  /\ request \in [Requests -> Request]
  /\ worker \in [Workers -> Worker]
  /\ \A w \in Workers : Busy(w) => worker[w].item \in Notifications
  /\ admin \in [Admins -> Admin]
  /\ published \in [Notifications -> Nat]
  /\ budget \in [api : Nat, worker : Nat, locks : Nat, reprocess : 0..MaxReprocess]

Init ==
  /\ phone = [n \in Notifications |-> "unseen"]
  /\ today = 1
  /\ subscription = NewSubscription
  /\ parseStatus = [n \in Notifications |-> "absent"]
  /\ quotaWindow = [n \in Notifications |-> NoDay]
  /\ transactions = {}
  /\ paidPeriod = {}
  /\ dayUsed = [d \in Days |-> 0]
  /\ dayReserved = [d \in Days |-> 0]
  /\ totalUsed = 0
  /\ totalReserved = 0
  /\ jobs = [j \in JobIds |->
               [state |-> "none", attempts |-> 0, stalls |-> 0, owner |-> NoOwner]]
  /\ request = [r \in Requests |-> IdleRequest]
  /\ worker = [w \in Workers |-> IdleWorker]
  /\ admin = [a \in Admins |-> IdleAdmin]
  /\ published = [n \in Notifications |-> 0]
  /\ budget = [api |-> 0, worker |-> 0, locks |-> 0, reprocess |-> 0]

-----------------------------------------------------------------------------
(* The phone, the clock and the billing operations *)

(* NotificationCaptureCoordinator stores a captured notification in the     *)
(* phone's queue.  One posted after the upgrade falls in the paid period.   *)
Capture(n) ==
  /\ phone[n] = "unseen"
  /\ phone' = [phone EXCEPT ![n] = "queued"]
  /\ paidPeriod' = IF subscription.plan = "PAID" THEN paidPeriod \cup {n} ELSE paidPeriod
  /\ UNCHANGED <<today, subscription, parseStatus, quotaWindow, transactions,
                 buckets, jobs, request, worker, admin, published, budget>>

NextDay ==
  /\ today < LastDay
  /\ today' = today + 1
  /\ UNCHANGED <<phone, subscription, parseStatus, quotaWindow, transactions,
                 paidPeriod, buckets, jobs, request, worker, admin, published, budget>>

(* trial_ends_at passes: evaluate() refuses from this instant on.           *)
TrialClockElapses ==
  /\ TrialElapses
  /\ subscription.trialClock = "running"
  /\ subscription' = [subscription EXCEPT !.trialClock = "elapsed"]
  /\ UNCHANGED <<phone, today, parseStatus, quotaWindow, transactions, paidPeriod,
                 buckets, jobs, request, worker, admin, published, budget>>

(* TrialExpirationScheduler: the guarded UPDATE that stores the reason.     *)
CloseExpiredTrial ==
  /\ subscription.status = "TRIALING"
  /\ subscription.trialClock = "elapsed"
  /\ subscription.trialEnd = "none"
  /\ subscription' = [subscription EXCEPT !.trialEnd = "TIME_LIMIT"]
  /\ UNCHANGED <<phone, today, parseStatus, quotaWindow, transactions, paidPeriod,
                 buckets, jobs, request, worker, admin, published, budget>>

(* applyConfirmedChange, from the trial to a paid plan: an upgrade that is  *)
(* leaving the trial.                                                       *)
Upgrade ==
  /\ UpgradeHappens
  /\ subscription.plan = "TRIAL"
  /\ subscription' = [subscription EXCEPT !.plan = "PAID", !.status = "ACTIVE"]
  /\ UNCHANGED <<phone, today, parseStatus, quotaWindow, transactions, paidPeriod,
                 buckets, jobs, request, worker, admin, published, budget>>

-----------------------------------------------------------------------------
(* POST /internal/v1/ingest *)

(* EntitlementService.evaluate and assertCanOperate.                        *)
CanOperate(sub) ==
  \/ sub.status = "PENDING_TRIAL"
  \/ sub.status = "TRIALING" /\ sub.trialEnd = "none" /\ sub.trialClock = "running"
  \/ sub.status = "ACTIVE"

(* assertWithinTransactionLimit: transactions of the current paid period.   *)
WithinTransactionLimit == Cardinality(transactions \cap paidPeriod) < MonthlyLimit

(* The phone sends a batch.  A request that is refused here changes nothing *)
(* and leaves the items in the phone's queue.                               *)
AdmitBatch(r, batch) ==
  /\ request[r].at = "idle"
  /\ batch # {}
  /\ \A n \in batch : phone[n] = "queued"
  /\ CanOperate(subscription)
  /\ subscription.plan = "TRIAL" \/ WithinTransactionLimit
  /\ request' = [request EXCEPT ![r] = [IdleRequest EXCEPT !.at = "insert", !.batch = batch]]
  /\ UNCHANGED <<phone, today, subscription, parseStatus, quotaWindow, transactions,
                 paidPeriod, buckets, jobs, worker, admin, published, budget>>

(* Mutants of Granted: the condition forgets the reserved units; the total  *)
(* is compared with <= instead of <.                                        *)
GrantedIgnoringReserved(c) ==
  LET fits(k) == dayUsed[today] + k <= DailyLimit /\ totalUsed + k <= TotalLimit
  IN  CHOOSE k \in 0..c : (k = 0 \/ fits(k)) /\ (k = c \/ ~fits(k + 1))
GrantedOneTooMany(c) ==
  LET fits(k) == /\ dayUsed[today] + dayReserved[today] + k <= DailyLimit
                 /\ totalUsed + totalReserved + k <= TotalLimit + 1
  IN  CHOOSE k \in 0..c : (k = 0 \/ fits(k)) /\ (k = c \/ ~fits(k + 1))

(* tryReserveOne, k units in a row: UPDATE .. WHERE used + reserved < limit, *)
(* of the day's bucket and of the trial's.                                  *)
Fits(k) ==
  /\ dayUsed[today] + dayReserved[today] + k <= DailyLimit
  /\ totalUsed + totalReserved + k <= TotalLimit

(* What reserveQuota's loop grants of c units today: it stops at the first  *)
(* unit that the day or the total refuses, and undoes the day's half of it. *)
Granted(c) == CHOOSE k \in 0..c : /\ k = 0 \/ Fits(k)
                                  /\ k = c \/ ~Fits(k + 1)

(* Mutant of Accepted: what quota rejected is also reported as accepted.    *)
AcceptedWithRejected(batch, new, kept) == batch

(* The accepted list of the response: inserted rows and duplicates.         *)
Accepted(batch, new, kept) == batch \ (new \ kept)

(* The items of the request that INSERT .. ON CONFLICT DO NOTHING inserts.  *)
New(r) == {n \in request[r].batch : parseStatus[n] = "absent"}

(* reserveQuota, for the rows that stay; outside the trial all of them.     *)
ReserveQuota(r, kept) ==
  IF subscription.plan = "TRIAL"
  THEN /\ Cardinality(kept) = Granted(Cardinality(New(r)))
       /\ quotaWindow' = [n \in Notifications |->
                            IF n \in kept THEN today ELSE quotaWindow[n]]
       /\ dayReserved' = [dayReserved EXCEPT ![today] = @ + Cardinality(kept)]
       /\ totalReserved' = totalReserved + Cardinality(kept)
  ELSE /\ kept = New(r)
       /\ UNCHANGED <<quotaWindow, dayReserved, totalReserved>>

(* The ingest transaction: the INSERT, the reservation, and the deletion of *)
(* the inserted rows that got no quota.                                     *)
InsertRows(r, kept) ==
  /\ request[r].at = "insert"
  /\ ReserveQuota(r, kept)
  /\ parseStatus' = [n \in Notifications |->
                       IF n \in kept THEN "PENDING" ELSE parseStatus[n]]
  /\ request' = [request EXCEPT ![r] =
                   [at |-> "enqueue", batch |-> request[r].batch, toEnqueue |-> kept,
                    accepted |-> Accepted(request[r].batch, New(r), kept)]]
  /\ UNCHANGED <<phone, today, subscription, transactions, paidPeriod, dayUsed,
                 totalUsed, jobs, worker, admin, published, budget>>

InsertBatch(r) == \E kept \in SUBSET New(r) : InsertRows(r, kept)

(* queue.add with a jobId: a no-op if a job with that id is still kept.     *)
AddJob(q, id) ==
  IF q[id].state = "none" THEN [q EXCEPT ![id].state = "waiting"] ELSE q

(* After the commit, one queue.add per inserted row.                        *)
EnqueueParse(r) ==
  /\ request[r].at = "enqueue"
  /\ \E n \in request[r].toEnqueue :
       /\ jobs' = AddJob(jobs, <<n, 0>>)
       /\ request' = [request EXCEPT ![r].toEnqueue = @ \ {n}]
  /\ UNCHANGED <<phone, today, subscription, parseStatus, quotaWindow, transactions,
                 paidPeriod, buckets, worker, admin, published, budget>>

(* 202: the phone deletes the accepted items, duplicates included.          *)
ReplyAccepted(r) ==
  /\ request[r].at = "enqueue"
  /\ request[r].toEnqueue = {}
  /\ phone' = [n \in Notifications |->
                 IF n \in request[r].accepted THEN "acked" ELSE phone[n]]
  /\ request' = [request EXCEPT ![r] = IdleRequest]
  /\ UNCHANGED <<today, subscription, parseStatus, quotaWindow, transactions,
                 paidPeriod, buckets, jobs, worker, admin, published, budget>>

(* The response never reaches the phone, which keeps its items.             *)
LoseReply(r) ==
  /\ request[r].at = "enqueue"
  /\ request[r].toEnqueue = {}
  /\ request' = [request EXCEPT ![r] = IdleRequest]
  /\ UNCHANGED <<phone, today, subscription, parseStatus, quotaWindow, transactions,
                 paidPeriod, buckets, jobs, worker, admin, published, budget>>

(* The API instance dies, the database transaction fails and rolls back, or *)
(* queue.add throws: the phone sees an error and keeps its items.           *)
AbortIngest(r) ==
  /\ request[r].at # "idle"
  /\ budget.api < MaxApiFaults
  /\ request' = [request EXCEPT ![r] = IdleRequest]
  /\ budget' = [budget EXCEPT !.api = @ + 1]
  /\ UNCHANGED <<phone, today, subscription, parseStatus, quotaWindow, transactions,
                 paidPeriod, buckets, jobs, worker, admin, published>>

-----------------------------------------------------------------------------
(* The parsing queue (BullMQ) *)

HoldsLock(w) == jobs[JobOf(w)].owner = w

(* The job's promise resolved.  Without the lock the result is discarded.   *)
Completed(w) ==
  IF HoldsLock(w)
  THEN [jobs EXCEPT ![JobOf(w)].state = "completed", ![JobOf(w)].owner = NoOwner]
  ELSE jobs

(* Mutant of Rejected: the first failed attempt is final.                   *)
RejectedForGood(w) ==
  IF HoldsLock(w)
  THEN [jobs EXCEPT ![JobOf(w)].state = "failed", ![JobOf(w)].owner = NoOwner]
  ELSE jobs

(* The job's promise rejected: retried while attempts are left.             *)
Rejected(w) ==
  IF HoldsLock(w)
  THEN [jobs EXCEPT ![JobOf(w)].attempts = @ + 1, ![JobOf(w)].owner = NoOwner,
                    ![JobOf(w)].state = IF jobs[JobOf(w)].attempts + 1 < MaxAttempts
                                        THEN "waiting" ELSE "failed"]
  ELSE jobs

(* The lock of an active job expired: it is queued again, or failed after   *)
(* too many stalls.                                                         *)
Stalled(w) ==
  IF HoldsLock(w)
  THEN [jobs EXCEPT ![JobOf(w)].stalls = @ + 1, ![JobOf(w)].owner = NoOwner,
                    ![JobOf(w)].state = IF jobs[JobOf(w)].stalls < MaxJobStalls
                                        THEN "waiting" ELSE "failed"]
  ELSE jobs

-----------------------------------------------------------------------------
(* ParsingWorker and ParseNotificationUseCase *)

(* doExecute's early return: the job is idempotent on a late retry.         *)
StillPending(n) == parseStatus[n] = "PENDING"

(* A worker takes a job and reads the row.  If the row is not PENDING the   *)
(* job is done; otherwise the wallet, the parser and its active patterns    *)
(* decide, and they may have changed since an earlier run.                  *)
StartJob(w, id) ==
  /\ ~Busy(w)
  /\ jobs[id].state = "waiting"
  /\ \/ /\ ~StillPending(id[1])
        /\ jobs' = [jobs EXCEPT ![id].state = "completed"]
        /\ UNCHANGED worker
     \/ /\ StillPending(id[1])
        /\ jobs' = [jobs EXCEPT ![id].state = "active", ![id].owner = w]
        /\ \E outcome \in {"matched", "unmatched"} :
             worker' = [worker EXCEPT ![w] = [at |-> outcome, item |-> id[1],
                                              call |-> id[2], sub |-> NewSubscription]]
  /\ UNCHANGED <<phone, today, subscription, parseStatus, quotaWindow, transactions,
                 paidPeriod, buckets, request, admin, published, budget>>

(* markUnmatched: the row's update, committed by itself.                    *)
MarkUnmatched(w) ==
  /\ worker[w].at = "unmatched"
  /\ parseStatus' = [parseStatus EXCEPT ![worker[w].item] = "UNMATCHED"]
  /\ worker' = [worker EXCEPT ![w].at = "release"]
  /\ UNCHANGED <<phone, today, subscription, quotaWindow, transactions, paidPeriod,
                 buckets, jobs, request, admin, published, budget>>

(* SET reserved = GREATEST(reserved - 1, 0)                                 *)
OneLess(k) == IF k > 0 THEN k - 1 ELSE 0

(* Mutant of SettlementDay: the day the parser happens to run.              *)
CurrentDay(n) == today

(* The bucket a notification's quota is settled in: the day it was reserved *)
(* on, or the current day when the row carries none.                        *)
SettlementDay(n) == IF quotaWindow[n] = NoDay THEN today ELSE quotaWindow[n]

(* releaseQuota: a second transaction, a no-op outside the trial.           *)
ReleaseQuota(w) ==
  LET day == SettlementDay(worker[w].item)
  IN
  /\ worker[w].at = "release"
  /\ IF subscription.plan = "TRIAL"
     THEN /\ dayReserved' = [dayReserved EXCEPT ![day] = OneLess(@)]
          /\ totalReserved' = OneLess(totalReserved)
     ELSE UNCHANGED <<dayReserved, totalReserved>>
  /\ jobs' = Completed(w)
  /\ worker' = [worker EXCEPT ![w] = IdleWorker]
  /\ UNCHANGED <<phone, today, subscription, parseStatus, quotaWindow, transactions,
                 paidPeriod, dayUsed, totalUsed, request, admin, published, budget>>

(* createTransaction opens its transaction and commitQuota reads the        *)
(* subscription.                                                            *)
BeginCommit(w) ==
  /\ worker[w].at = "matched"
  /\ worker' = [worker EXCEPT ![w].at = "commit", ![w].sub = subscription]
  /\ UNCHANGED <<phone, today, subscription, parseStatus, quotaWindow, transactions,
                 paidPeriod, buckets, jobs, request, admin, published, budget>>

(* Mutant of SubscriptionAfterCommit: closes the trial one payment late.    *)
ClosedOneLate(sub, periodUsed) ==
  LET first == sub.status = "PENDING_TRIAL"
      full  == sub.trialEnd = "none" /\ periodUsed > TotalLimit
  IN  [subscription EXCEPT
         !.status = IF first THEN "TRIALING" ELSE @,
         !.trialClock = IF first THEN "running" ELSE @,
         !.trialStarts = IF first THEN @ + 1 ELSE @,
         !.trialEnd = IF full THEN "TOTAL_LIMIT" ELSE @]

(* The columns commitQuota updates, decided from the subscription it read.  *)
SubscriptionAfterCommit(sub, periodUsed) ==
  LET first == sub.status = "PENDING_TRIAL"
      full  == sub.trialEnd = "none" /\ periodUsed >= TotalLimit
  IN  [subscription EXCEPT
         !.status = IF first THEN "TRIALING" ELSE @,
         !.trialClock = IF first THEN "running" ELSE @,
         !.trialStarts = IF first THEN @ + 1 ELSE @,
         !.trialEnd = IF full THEN "TOTAL_LIMIT" ELSE @]

(* Mutant of NoTransactionYet: no unique index on raw_notification_id.      *)
NoUniqueIndex(n) == n \in Notifications

(* The unique index lets the INSERT through.                                *)
NoTransactionYet(n) == n \notin transactions

(* commitOne, of the day's bucket and of the trial's: a reserved unit is    *)
(* used.                                                                    *)
CommitOne(day) ==
  /\ dayReserved' = [dayReserved EXCEPT ![day] = OneLess(@)]
  /\ dayUsed' = [dayUsed EXCEPT ![day] = @ + 1]
  /\ totalReserved' = OneLess(totalReserved)
  /\ totalUsed' = totalUsed + 1

(* The Transaction row, the PARSED status and the quota, in one commit.     *)
CommitTransaction(w) ==
  LET n == worker[w].item
  IN
  /\ worker[w].at = "commit"
  /\ NoTransactionYet(n)
  /\ transactions' = transactions \cup {n}
  /\ parseStatus' = [parseStatus EXCEPT ![n] = "PARSED"]
  /\ IF worker[w].sub.plan = "TRIAL"
     THEN /\ CommitOne(SettlementDay(n))
          /\ subscription' = SubscriptionAfterCommit(worker[w].sub, totalUsed + 1)
     ELSE UNCHANGED <<buckets, subscription>>
  /\ worker' = [worker EXCEPT ![w].at = "publish"]
  /\ UNCHANGED <<phone, today, quotaWindow, paidPeriod, jobs, request, admin,
                 published, budget>>

(* The unique index on raw_notification_id refuses a second Transaction:    *)
(* everything rolls back and the attempt fails.                             *)
CommitRefused(w) ==
  /\ worker[w].at = "commit"
  /\ ~NoTransactionYet(worker[w].item)
  /\ jobs' = Rejected(w)
  /\ worker' = [worker EXCEPT ![w] = IdleWorker]
  /\ UNCHANGED <<phone, today, subscription, parseStatus, quotaWindow, transactions,
                 paidPeriod, buckets, request, admin, published, budget>>

(* After the commit: incrementTransactions and the in-process emission of   *)
(* TransactionCreated, then the job ends.  One step: nothing in this module *)
(* reads the monthly counter in between.                                    *)
PublishTransaction(w) ==
  /\ worker[w].at = "publish"
  /\ published' = [published EXCEPT ![worker[w].item] = @ + 1]
  /\ jobs' = Completed(w)
  /\ worker' = [worker EXCEPT ![w] = IdleWorker]
  /\ UNCHANGED <<phone, today, subscription, parseStatus, quotaWindow, transactions,
                 paidPeriod, buckets, request, admin, budget>>

(* A database or Redis error makes the attempt throw between two steps.     *)
FailAttempt(w) ==
  /\ Busy(w)
  /\ budget.worker < MaxWorkerFaults
  /\ jobs' = Rejected(w)
  /\ worker' = [worker EXCEPT ![w] = IdleWorker]
  /\ budget' = [budget EXCEPT !.worker = @ + 1]
  /\ UNCHANGED <<phone, today, subscription, parseStatus, quotaWindow, transactions,
                 paidPeriod, buckets, request, admin, published>>

(* The worker's process dies between two steps; its job stalls.             *)
CrashWorker(w) ==
  /\ Busy(w)
  /\ budget.worker < MaxWorkerFaults
  /\ jobs' = Stalled(w)
  /\ worker' = [worker EXCEPT ![w] = IdleWorker]
  /\ budget' = [budget EXCEPT !.worker = @ + 1]
  /\ UNCHANGED <<phone, today, subscription, parseStatus, quotaWindow, transactions,
                 paidPeriod, buckets, request, admin, published>>

(* The lock expires under a worker that is alive and goes on: the same job  *)
(* can now run twice at the same time.                                      *)
LoseLock(w) ==
  /\ Busy(w)
  /\ HoldsLock(w)
  /\ budget.locks < MaxLockLosses
  /\ jobs' = Stalled(w)
  /\ budget' = [budget EXCEPT !.locks = @ + 1]
  /\ UNCHANGED <<phone, today, subscription, parseStatus, quotaWindow, transactions,
                 paidPeriod, buckets, request, worker, admin, published>>

-----------------------------------------------------------------------------
(* PlatformNotificationsService.reprocess *)

(* The query for UNMATCHED rows (ERROR, the other eligible status, is never *)
(* stored by any code).                                                     *)
SelectUnmatched(a, rows) ==
  /\ admin[a].at = "idle"
  /\ rows # {}
  /\ \A n \in rows : parseStatus[n] = "UNMATCHED"
  /\ budget.reprocess < MaxReprocess
  /\ admin' = [admin EXCEPT ![a] = [at |-> "update", rows |-> rows,
                                    call |-> budget.reprocess + 1]]
  /\ budget' = [budget EXCEPT !.reprocess = @ + 1]
  /\ UNCHANGED <<phone, today, subscription, parseStatus, quotaWindow, transactions,
                 paidPeriod, buckets, jobs, request, worker, published>>

(* UPDATE .. SET parse_status = 'PENDING' for the selected ids.             *)
ResetToPending(a) ==
  /\ admin[a].at = "update"
  /\ parseStatus' = [n \in Notifications |->
                       IF n \in admin[a].rows THEN "PENDING" ELSE parseStatus[n]]
  /\ admin' = [admin EXCEPT ![a].at = "enqueue"]
  /\ UNCHANGED <<phone, today, subscription, quotaWindow, transactions, paidPeriod,
                 buckets, jobs, request, worker, published, budget>>

(* The job id of a row in a reprocessing call.                              *)
ReprocessJob(n, call) == <<n, call>>

(* One queue.add per row, under an id of its own; then the audit event.     *)
EnqueueReprocess(a) ==
  /\ admin[a].at = "enqueue"
  /\ \E n \in admin[a].rows :
       /\ jobs' = AddJob(jobs, ReprocessJob(n, admin[a].call))
       /\ admin' = [admin EXCEPT ![a] =
                      IF admin[a].rows = {n} THEN IdleAdmin
                      ELSE [admin[a] EXCEPT !.rows = admin[a].rows \ {n}]]
  /\ UNCHANGED <<phone, today, subscription, parseStatus, quotaWindow, transactions,
                 paidPeriod, buckets, request, worker, published, budget>>

(* The call dies between two steps.                                         *)
AbortReprocess(a) ==
  /\ admin[a].at # "idle"
  /\ budget.api < MaxApiFaults
  /\ admin' = [admin EXCEPT ![a] = IdleAdmin]
  /\ budget' = [budget EXCEPT !.api = @ + 1]
  /\ UNCHANGED <<phone, today, subscription, parseStatus, quotaWindow, transactions,
                 paidPeriod, buckets, jobs, request, worker, published>>

-----------------------------------------------------------------------------
Environment ==
  \/ \E n \in Notifications : Capture(n)
  \/ NextDay
  \/ TrialClockElapses
  \/ CloseExpiredTrial
  \/ Upgrade

Ingest(r) ==
  \/ \E batch \in SUBSET Notifications : AdmitBatch(r, batch)
  \/ InsertBatch(r)
  \/ EnqueueParse(r)
  \/ ReplyAccepted(r)
  \/ LoseReply(r)
  \/ AbortIngest(r)

(* The steps of a job once it is taken.                                     *)
ParseStep(w) ==
  \/ MarkUnmatched(w)
  \/ ReleaseQuota(w)
  \/ BeginCommit(w)
  \/ CommitTransaction(w)
  \/ CommitRefused(w)
  \/ PublishTransaction(w)

Parse(w) ==
  \/ \E id \in JobIds : StartJob(w, id)
  \/ ParseStep(w)
  \/ FailAttempt(w)
  \/ CrashWorker(w)
  \/ LoseLock(w)

Reprocess(a) ==
  \/ \E rows \in SUBSET Notifications : SelectUnmatched(a, rows)
  \/ ResetToPending(a)
  \/ EnqueueReprocess(a)
  \/ AbortReprocess(a)

Next ==
  \/ Environment
  \/ \E r \in Requests : Ingest(r)
  \/ \E w \in Workers : Parse(w)
  \/ \E a \in Admins : Reprocess(a)

Spec == Init /\ [][Next]_vars

(* A request that has committed goes on to queue its jobs, a worker that    *)
(* holds a job goes on with it, and BullMQ hands waiting jobs to idle       *)
(* workers.  Nothing obliges the phone, the clock or an administrator.      *)
Fairness ==
  /\ \A r \in Requests : WF_vars(EnqueueParse(r))
  /\ \A w \in Workers : WF_vars(ParseStep(w))
  /\ \A w \in Workers : WF_vars(\E id \in JobIds : StartJob(w, id))
  /\ \A a \in Admins : WF_vars(ResetToPending(a) \/ EnqueueReprocess(a))

FairSpec == Spec /\ Fairness

-----------------------------------------------------------------------------
(* Safety *)

(* Whatever fails, runs twice or is reprocessed, what the trial has used is *)
(* the number of payments on record, in total and by the day each one was   *)
(* reserved on (commitQuota inside createTransaction's transaction).        *)
UsedMatchesTransactions ==
  subscription.plan = "TRIAL" =>
    /\ totalUsed = Cardinality(transactions)
    /\ \A d \in Days :
         dayUsed[d] = Cardinality({n \in transactions : quotaWindow[n] = d})

(* Concurrent batches, duplicates, retries and crashes never take the quota *)
(* of a day or of the trial over its limit (reserveQuota's conditional      *)
(* UPDATE, commitQuota and releaseQuota).                                   *)
QuotaWithinLimits ==
  /\ totalUsed + totalReserved <= TotalLimit
  /\ \A d \in Days : dayUsed[d] + dayReserved[d] <= DailyLimit

(* The phone deletes an item only when the server has stored it: what quota *)
(* refused or a rollback undid stays on the phone (the accepted list of the *)
(* ingest response).                                                        *)
AckedIsStored ==
  \A n \in Notifications : phone[n] = "acked" => parseStatus[n] # "absent"

(* A payment's notification stays PARSED: no late run of its job takes it   *)
(* back to UNMATCHED or PENDING (the parseStatus guard of doExecute).       *)
TransactionIsParsed ==
  \A n \in transactions : parseStatus[n] = "PARSED"

(* A payment is counted and announced at most once, and never before it is  *)
(* committed (the order of createTransaction and events.emit).              *)
PublishedOnce ==
  \A n \in Notifications :
    published[n] <= 1 /\ (published[n] = 1 => n \in transactions)

(* The trial is closed exactly when its total is used up, even when two     *)
(* workers commit the last units with the subscription read before.         *)
TrialClosedAtTotal ==
  subscription.plan = "TRIAL" =>
    /\ subscription.trialEnd = "TOTAL_LIMIT" => totalUsed >= TotalLimit
    /\ totalUsed >= TotalLimit => subscription.trialEnd # "none"

(* The notifications whose reservation is still to be settled: stored and   *)
(* not interpreted, or UNMATCHED with the release still to run.             *)
Releasing(n) == \E w \in Workers : worker[w].at = "release" /\ worker[w].item = n
Held == {n \in Notifications :
           quotaWindow[n] # NoDay /\ (parseStatus[n] = "PENDING" \/ Releasing(n))}

(* Every notification still to be settled holds a reserved unit of its day  *)
(* and of the total: failed attempts, crashes and other notifications'      *)
(* settlements never give away the unit it was accepted with.  (The         *)
(* converse is false: see the crash between markUnmatched's two             *)
(* transactions in the README.)                                             *)
ReservedCoversHeld ==
  subscription.plan = "TRIAL" =>
    /\ totalReserved >= Cardinality(Held)
    /\ \A d \in Days :
         dayReserved[d] >= Cardinality({n \in Held : quotaWindow[n] = d})

(* A stored notification has somebody who will interpret it: a live job, or *)
(* a request or an administrator about to queue one.                        *)
Underway(n) ==
  \/ \E c \in 0..MaxReprocess : jobs[<<n, c>>].state \in {"waiting", "active"}
  \/ \E r \in Requests : n \in request[r].toEnqueue
  \/ \E a \in Admins : n \in admin[a].rows

(* Once the phone has deleted it, a notification that nobody will interpret *)
(* is a lost payment.                                                       *)
NoPaymentLost ==
  \A n \in Notifications :
    phone[n] = "acked" /\ parseStatus[n] = "PENDING" => Underway(n)

(* A tenant that has moved to a paid plan stays ACTIVE: the commit of a     *)
(* payment does not turn it back into a trial.                              *)
PaidStaysActive == subscription.plan = "PAID" => subscription.status = "ACTIVE"

-----------------------------------------------------------------------------
(* Liveness *)

(* Every stored notification is eventually interpreted, whatever the        *)
(* interleaving of requests, workers and reprocessing.                      *)
EveryPendingIsParsed ==
  \A n \in Notifications :
    parseStatus[n] = "PENDING" ~> parseStatus[n] \in {"PARSED", "UNMATCHED"}

-----------------------------------------------------------------------------
(* Refinement: the buckets, rows and jobs keep the promise of the trial's   *)
(* total.  A payment counts if it was reserved in the trial.                *)
TrialHeld == {n \in Notifications : quotaWindow[n] # NoDay /\ parseStatus[n] = "PENDING"}
TrialCharged == {n \in transactions : quotaWindow[n] # NoDay}
Promise == INSTANCE QuotaPromise
             WITH Limit <- TotalLimit, held <- TrialHeld, charged <- TrialCharged
KeepsPromise == Promise!Spec
=============================================================================
