------------------------ MODULE IngestPipelineProofs ------------------------
(***************************************************************************)
(* Theorems about IngestPipeline, for every number of notifications,       *)
(* requests, workers, administrators and days, every limit and every bound *)
(* on faults.  First what holds whatever fails, runs twice or is           *)
(* reprocessed: types, stored rows, the used quota, publication and the    *)
(* end of the trial; then what needs that nobody reprocesses and no lock   *)
(* is lost under a live worker: the limits, the reservations and           *)
(* QuotaPromise.  Last, DayWindow: when one local day has one row.         *)
(***************************************************************************)
EXTENDS IngestInvariants, DayWindow, FiniteSetTheorems, TLAPS

(* Every subset of the notifications is finite, with a cardinality in Nat.  *)
LEMMA SubsetsAreFinite ==
  ASSUME NEW S \in SUBSET Notifications
  PROVE  IsFiniteSet(S) /\ Cardinality(S) \in Nat
BY FiniteAssumption, FS_Subset, FS_CardinalityType

(* reserveQuota grants at most what was asked, and a positive grant fits in *)
(* the day and in the total.                                                *)
LEMMA GrantFits ==
  ASSUME TypeOK, NEW c \in Nat
  PROVE  /\ Granted(c) \in 0..c
         /\ Granted(c) = 0 \/ /\ dayUsed[today] + dayReserved[today] + Granted(c) <= DailyLimit
                              /\ totalUsed + totalReserved + Granted(c) <= TotalLimit
<1> DEFINE fits(k) == /\ dayUsed[today] + dayReserved[today] + k <= DailyLimit
                      /\ totalUsed + totalReserved + k <= TotalLimit
           good(k) == /\ k = 0 \/ fits(k)
                      /\ k = c \/ ~fits(k + 1)
<1>1. /\ dayUsed[today] \in Nat /\ dayReserved[today] \in Nat
      /\ totalUsed \in Nat /\ totalReserved \in Nat
      /\ DailyLimit \in Nat /\ TotalLimit \in Nat
  BY BoundAssumption DEF TypeOK
<1>2. \E k \in 0..c : good(k)
  <2> DEFINE a == DailyLimit - (dayUsed[today] + dayReserved[today])
             b == TotalLimit - (totalUsed + totalReserved)
  <2>1. CASE a <= 0 \/ b <= 0
    <3>1. good(0)
      BY <1>1, <2>1
    <3>2. QED BY <3>1
  <2>2. CASE a >= c /\ b >= c
    <3>1. good(c)
      BY <1>1, <2>2
    <3>2. QED BY <3>1
  <2>3. CASE a > 0 /\ b > 0 /\ a <= b /\ a < c
    <3>1. good(a) /\ a \in 0..c
      BY <1>1, <2>3
    <3>2. QED BY <3>1
  <2>4. CASE a > 0 /\ b > 0 /\ b < a /\ b < c
    <3>1. good(b) /\ b \in 0..c
      BY <1>1, <2>4
    <3>2. QED BY <3>1
  <2>5. QED BY <1>1, <2>1, <2>2, <2>3, <2>4
<1>3. Granted(c) = CHOOSE k \in 0..c : good(k)
  BY DEF Granted, Fits
<1>4. Granted(c) \in 0..c /\ good(Granted(c))
  <2> HIDE DEF good
  <2>1. QED BY <1>2, <1>3
<1>5. QED BY <1>4

-----------------------------------------------------------------------------
(* Types *)

(* The initial state is well-typed.                                         *)
LEMMA TypeInit == Init => TypeOK
BY BoundAssumption DEF Init, TypeOK, Days, NewSubscription, Subscription, JobIds, Job, Request,
   IdleRequest, Worker, IdleWorker, Busy, Admin, IdleAdmin, NoDay

(* The three ways a job leaves a worker keep the queue well-typed.          *)
LEMMA JobsTyped ==
  ASSUME TypeOK, NEW w \in Workers, Busy(w)
  PROVE  /\ JobOf(w) \in JobIds
         /\ Completed(w) \in [JobIds -> Job]
         /\ Rejected(w) \in [JobIds -> Job]
         /\ Stalled(w) \in [JobIds -> Job]
<1>1. JobOf(w) \in JobIds
  BY DEF TypeOK, JobOf, JobIds, Worker
<1>2. jobs \in [JobIds -> Job] /\ jobs[JobOf(w)] \in Job
  BY <1>1 DEF TypeOK
<1>3. Completed(w) \in [JobIds -> Job]
  BY <1>1, <1>2 DEF Completed, Job
<1>4. Rejected(w) \in [JobIds -> Job]
  <2> DEFINE next == IF jobs[JobOf(w)].attempts + 1 < MaxAttempts THEN "waiting" ELSE "failed"
             job == [jobs[JobOf(w)] EXCEPT !.attempts = jobs[JobOf(w)].attempts + 1,
                                           !.owner = NoOwner, !.state = next]
  <2>1. next \in {"waiting", "failed"}
    OBVIOUS
  <2>2. jobs[JobOf(w)].attempts + 1 \in Nat
    BY <1>2 DEF Job
  <2>3. Rejected(w) = IF HoldsLock(w) THEN [jobs EXCEPT ![JobOf(w)] = job] ELSE jobs
    BY <1>1, <1>2 DEF Rejected
  <2> HIDE DEF next
  <2>4. job \in Job
    BY <1>2, <2>1, <2>2 DEF Job
  <2> HIDE DEF job
  <2> QED BY <1>2, <2>3, <2>4
<1>5. Stalled(w) \in [JobIds -> Job]
  <2> DEFINE next == IF jobs[JobOf(w)].stalls < MaxJobStalls THEN "waiting" ELSE "failed"
             job == [jobs[JobOf(w)] EXCEPT !.stalls = jobs[JobOf(w)].stalls + 1,
                                           !.owner = NoOwner, !.state = next]
  <2>1. next \in {"waiting", "failed"}
    OBVIOUS
  <2>2. jobs[JobOf(w)].stalls + 1 \in Nat
    BY <1>2 DEF Job
  <2>3. Stalled(w) = IF HoldsLock(w) THEN [jobs EXCEPT ![JobOf(w)] = job] ELSE jobs
    BY <1>1, <1>2 DEF Stalled
  <2> HIDE DEF next
  <2>4. job \in Job
    BY <1>2, <2>1, <2>2 DEF Job
  <2> HIDE DEF job
  <2> QED BY <1>2, <2>3, <2>4
<1> QED BY <1>1, <1>3, <1>4, <1>5

(* Adding a job leaves the queue well-typed.                                *)
LEMMA AddJobTyped ==
  ASSUME TypeOK, NEW id \in JobIds
  PROVE  AddJob(jobs, id) \in [JobIds -> Job]
<1>1. jobs \in [JobIds -> Job] /\ jobs[id] \in Job
  BY DEF TypeOK
<1> QED BY <1>1 DEF AddJob, Job

(* An idle worker is well-typed.                                            *)
LEMMA IdleWorkerTyped == IdleWorker \in Worker
BY BoundAssumption DEF IdleWorker, Worker, NewSubscription, Subscription

(* A worker that goes idle leaves the workers well-typed.                   *)
LEMMA LeavingWorkerTyped ==
  ASSUME TypeOK, NEW w \in Workers, worker' = [worker EXCEPT ![w] = IdleWorker]
  PROVE  /\ worker' \in [Workers -> Worker]
         /\ \A v \in Workers : Busy(v)' => worker'[v].item \in Notifications
<1>1. worker' \in [Workers -> Worker]
  BY IdleWorkerTyped DEF TypeOK
<1>2. ASSUME NEW v \in Workers, Busy(v)' PROVE worker'[v].item \in Notifications
  <2>1. CASE v = w
    BY <1>2, <2>1 DEF TypeOK, Busy, IdleWorker
  <2>2. CASE v # w
    BY <1>2, <2>2 DEF TypeOK, Busy
  <2> QED BY <2>1, <2>2
<1> QED BY <1>1, <1>2

(* Whatever subscription it was decided from, the one commitQuota stores is *)
(* well-typed.                                                              *)
LEMMA SubscriptionAfterCommitTyped ==
  ASSUME TypeOK, NEW sub, NEW k
  PROVE  SubscriptionAfterCommit(sub, k) \in Subscription
<1> DEFINE first == sub.status = "PENDING_TRIAL"
           full  == sub.trialEnd = "none" /\ k >= TotalLimit
           st == IF first THEN "TRIALING" ELSE subscription.status
           cl == IF first THEN "running" ELSE subscription.trialClock
           ts == IF first THEN subscription.trialStarts + 1 ELSE subscription.trialStarts
           te == IF full THEN "TOTAL_LIMIT" ELSE subscription.trialEnd
<1>1. subscription \in Subscription
  BY DEF TypeOK
<1>2. /\ st \in {"PENDING_TRIAL", "TRIALING", "ACTIVE"}
      /\ cl \in {"unset", "running", "elapsed"}
      /\ ts \in Nat
      /\ te \in {"none", "TIME_LIMIT", "TOTAL_LIMIT"}
  BY <1>1 DEF Subscription
<1>3. SubscriptionAfterCommit(sub, k) =
        [subscription EXCEPT !.status = st, !.trialClock = cl, !.trialStarts = ts,
                             !.trialEnd = te]
  BY DEF SubscriptionAfterCommit
<1> HIDE DEF st, cl, ts, te
<1> QED BY <1>1, <1>2, <1>3 DEF Subscription

(* What InsertRows stores of a request is well-typed.                       *)
LEMMA RequestRecord ==
  ASSUME NEW b \in SUBSET Notifications, NEW e \in SUBSET Notifications,
         NEW c \in SUBSET Notifications
  PROVE  [at |-> "enqueue", batch |-> b, toEnqueue |-> e, accepted |-> c] \in Request
BY DEF Request

(* Every step keeps the types.                                              *)
LEMMA TypeStep == TypeOK /\ [Next]_vars => TypeOK'
<1> SUFFICES ASSUME TypeOK, [Next]_vars PROVE TypeOK'
  OBVIOUS
<1> USE DEF TypeOK
<1>1. ASSUME NEW n \in Notifications, Capture(n) PROVE TypeOK'
  BY <1>1 DEF Capture, buckets, Busy
<1>2. CASE NextDay
  <2>1. today' \in Days
    BY <1>2, BoundAssumption DEF NextDay, Days
  <2> QED BY <1>2, <2>1 DEF NextDay, buckets, Busy
<1>3. CASE TrialClockElapses
  BY <1>3 DEF TrialClockElapses, Subscription, buckets, Busy
<1>4. CASE CloseExpiredTrial
  BY <1>4 DEF CloseExpiredTrial, Subscription, buckets, Busy
<1>5. CASE Upgrade
  BY <1>5 DEF Upgrade, Subscription, buckets, Busy
<1>6. ASSUME NEW r \in Requests, NEW batch \in SUBSET Notifications, AdmitBatch(r, batch)
      PROVE  TypeOK'
  BY <1>6 DEF AdmitBatch, Request, IdleRequest, buckets, Busy
<1>7. ASSUME NEW r \in Requests, InsertBatch(r) PROVE TypeOK'
  <2>1. New(r) \in SUBSET Notifications
    BY DEF Request, New
  <2>2. PICK kept \in SUBSET New(r) : InsertRows(r, kept)
    BY <1>7 DEF InsertBatch
  <2>3. kept \in SUBSET Notifications /\ Cardinality(kept) \in Nat
    BY <2>1, SubsetsAreFinite
  <2>4. /\ quotaWindow' \in [Notifications -> Days \cup {NoDay}]
        /\ dayReserved' \in [Days -> Nat]
        /\ totalReserved' \in Nat
    BY <2>2, <2>3 DEF InsertRows, ReserveQuota
  <2>5. request' \in [Requests -> Request]
    <3> DEFINE acc == Accepted(request[r].batch, New(r), kept)
               after == [at |-> "enqueue", batch |-> request[r].batch,
                         toEnqueue |-> kept, accepted |-> acc]
    <3>1. request[r] \in Request /\ request[r].batch \in SUBSET Notifications
      BY DEF Request
    <3>2. acc \in SUBSET Notifications
      BY <3>1 DEF Accepted
    <3>3. request' = [request EXCEPT ![r] = after]
      BY <2>2 DEF InsertRows
    <3>4. after \in Request
      BY <2>3, <3>1, <3>2, RequestRecord
    <3> HIDE DEF after
    <3> QED BY <3>3, <3>4
  <2>6. parseStatus' \in [Notifications -> {"absent", "PENDING", "PARSED", "UNMATCHED"}]
    BY <2>2 DEF InsertRows
  <2> QED
    BY <2>2, <2>4, <2>5, <2>6 DEF InsertRows, Busy
<1>8. ASSUME NEW r \in Requests, EnqueueParse(r) PROVE TypeOK'
  <2>1. PICK n \in request[r].toEnqueue :
          /\ jobs' = AddJob(jobs, <<n, 0>>)
          /\ request' = [request EXCEPT ![r].toEnqueue = @ \ {n}]
    BY <1>8 DEF EnqueueParse
  <2>2. <<n, 0>> \in JobIds
    BY BoundAssumption DEF JobIds, Request
  <2>3. jobs' \in [JobIds -> Job]
    BY <2>1, <2>2, AddJobTyped
  <2>4. request' \in [Requests -> Request]
    BY <2>1 DEF Request
  <2> QED BY <1>8, <2>3, <2>4 DEF EnqueueParse, buckets, Busy
<1>9. ASSUME NEW r \in Requests, ReplyAccepted(r) PROVE TypeOK'
  BY <1>9 DEF ReplyAccepted, Request, IdleRequest, buckets, Busy
<1>10. ASSUME NEW r \in Requests, LoseReply(r) PROVE TypeOK'
  BY <1>10 DEF LoseReply, Request, IdleRequest, buckets, Busy
<1>11. ASSUME NEW r \in Requests, AbortIngest(r) PROVE TypeOK'
  BY <1>11 DEF AbortIngest, Request, IdleRequest, buckets, Busy
<1>12. ASSUME NEW w \in Workers, NEW id \in JobIds, StartJob(w, id) PROVE TypeOK'
  <2>1. jobs' \in [JobIds -> Job]
    BY <1>12 DEF StartJob, Job
  <2>2. id[1] \in Notifications /\ id[2] \in 0..MaxReprocess
    BY DEF JobIds
  <2>3. NewSubscription \in Subscription
    BY DEF NewSubscription, Subscription
  <2>4. worker' \in [Workers -> Worker]
    BY <1>12, <2>2, <2>3 DEF StartJob, Worker
  <2>5. \A v \in Workers : worker'[v].at # "idle" => worker'[v].item \in Notifications
    BY <1>12, <2>2 DEF StartJob, Busy
  <2> QED BY <1>12, <2>1, <2>4, <2>5 DEF StartJob, buckets, Busy
<1>13. ASSUME NEW w \in Workers, MarkUnmatched(w) PROVE TypeOK'
  BY <1>13 DEF MarkUnmatched, Worker, buckets, Busy
<1>14. ASSUME NEW w \in Workers, ReleaseQuota(w) PROVE TypeOK'
  <2>1. jobs' \in [JobIds -> Job]
    BY <1>14, JobsTyped DEF ReleaseQuota, Busy
  <2>2. dayReserved' \in [Days -> Nat] /\ totalReserved' \in Nat
    BY <1>14 DEF ReleaseQuota, OneLess
  <2>3. worker' \in [Workers -> Worker]
    BY <1>14, IdleWorkerTyped DEF ReleaseQuota
  <2> QED BY <1>14, <2>1, <2>2, <2>3 DEF ReleaseQuota, Busy, IdleWorker
<1>15. ASSUME NEW w \in Workers, BeginCommit(w) PROVE TypeOK'
  <2>1. [[worker[w] EXCEPT !.at = "commit"] EXCEPT !.sub = subscription] \in Worker
    BY DEF Worker
  <2>2. worker' = [worker EXCEPT ![w] = [[worker[w] EXCEPT !.at = "commit"]
                                            EXCEPT !.sub = subscription]]
    BY <1>15 DEF BeginCommit
  <2>3. worker' \in [Workers -> Worker]
    BY <2>1, <2>2
  <2>4. \A v \in Workers : /\ worker'[v].item = worker[v].item
                         /\ worker'[v].at # "idle" => worker[v].at # "idle"
    BY <1>15 DEF BeginCommit, Worker
  <2> QED BY <1>15, <2>3, <2>4 DEF BeginCommit, buckets, Busy
<1>16. ASSUME NEW w \in Workers, CommitTransaction(w) PROVE TypeOK'
  <2>1. worker[w].item \in Notifications /\ SettlementDay(worker[w].item) \in Days
    BY <1>16 DEF CommitTransaction, CommitOne, SettlementDay, Busy
  <2>2. /\ dayReserved' \in [Days -> Nat] /\ totalReserved' \in Nat
        /\ dayUsed' \in [Days -> Nat] /\ totalUsed' \in Nat
    BY <1>16, <2>1 DEF CommitTransaction, CommitOne, OneLess, buckets
  <2>3. subscription' \in Subscription
    <3>1. SubscriptionAfterCommit(worker[w].sub, totalUsed + 1) \in Subscription
      BY SubscriptionAfterCommitTyped
    <3> QED BY <1>16, <3>1 DEF CommitTransaction, CommitOne, buckets
  <2>4. /\ parseStatus' \in [Notifications -> {"absent", "PENDING", "PARSED", "UNMATCHED"}]
        /\ transactions' \in SUBSET Notifications
        /\ worker' \in [Workers -> Worker]
        /\ \A v \in Workers : worker'[v].item = worker[v].item
        /\ \A v \in Workers : worker'[v].at # "idle" => worker[v].at # "idle"
    BY <1>16, <2>1 DEF CommitTransaction, CommitOne, Worker
  <2> QED BY <1>16, <2>2, <2>3, <2>4 DEF CommitTransaction, CommitOne, Busy
<1>17. ASSUME NEW w \in Workers, CommitRefused(w) PROVE TypeOK'
  <2>1. jobs' \in [JobIds -> Job]
    BY <1>17, JobsTyped DEF CommitRefused, Busy
  <2> QED BY <1>17, <2>1, IdleWorkerTyped DEF CommitRefused, IdleWorker, buckets, Busy
<1>18. ASSUME NEW w \in Workers, PublishTransaction(w) PROVE TypeOK'
  <2>1. jobs' \in [JobIds -> Job]
    BY <1>18, JobsTyped DEF PublishTransaction, Busy
  <2> QED BY <1>18, <2>1, IdleWorkerTyped DEF PublishTransaction, IdleWorker, buckets, Busy
<1>19. ASSUME NEW w \in Workers, FailAttempt(w) PROVE TypeOK'
  <2>1. jobs' \in [JobIds -> Job]
    BY <1>19, JobsTyped DEF FailAttempt
  <2> QED BY <1>19, <2>1, IdleWorkerTyped DEF FailAttempt, IdleWorker, buckets, Busy
<1>20. ASSUME NEW w \in Workers, CrashWorker(w) PROVE TypeOK'
  <2>1. jobs' \in [JobIds -> Job]
    BY <1>20, JobsTyped DEF CrashWorker
  <2> QED BY <1>20, <2>1, IdleWorkerTyped DEF CrashWorker, IdleWorker, buckets, Busy
<1>21. ASSUME NEW w \in Workers, LoseLock(w) PROVE TypeOK'
  <2>1. jobs' \in [JobIds -> Job]
    BY <1>21, JobsTyped DEF LoseLock
  <2> QED BY <1>21, <2>1 DEF LoseLock, buckets, Busy
<1>22. ASSUME NEW a \in Admins, NEW rows \in SUBSET Notifications, SelectUnmatched(a, rows)
       PROVE  TypeOK'
  BY <1>22, BoundAssumption DEF SelectUnmatched, Admin, buckets, Busy
<1>23. ASSUME NEW a \in Admins, ResetToPending(a) PROVE TypeOK'
  BY <1>23 DEF ResetToPending, Admin, buckets, Busy
<1>24. ASSUME NEW a \in Admins, EnqueueReprocess(a) PROVE TypeOK'
  <2>1. PICK n \in admin[a].rows :
          /\ jobs' = AddJob(jobs, ReprocessJob(n, admin[a].call))
          /\ admin' = [admin EXCEPT ![a] =
               IF admin[a].rows = {n} THEN IdleAdmin
               ELSE [admin[a] EXCEPT !.rows = admin[a].rows \ {n}]]
    BY <1>24 DEF EnqueueReprocess
  <2>2. ReprocessJob(n, admin[a].call) \in JobIds
    BY DEF JobIds, Admin, ReprocessJob
  <2>3. jobs' \in [JobIds -> Job]
    BY <2>1, <2>2, AddJobTyped
  <2>4. admin' \in [Admins -> Admin]
    <3>1. IdleAdmin \in Admin
      BY BoundAssumption DEF Admin, IdleAdmin
    <3>2. [admin[a] EXCEPT !.rows = admin[a].rows \ {n}] \in Admin
      BY DEF Admin
    <3> QED BY <2>1, <3>1, <3>2
  <2> QED BY <1>24, <2>3, <2>4 DEF EnqueueReprocess, buckets, Busy
<1>25. ASSUME NEW a \in Admins, AbortReprocess(a) PROVE TypeOK'
  BY <1>25, BoundAssumption DEF AbortReprocess, Admin, IdleAdmin, buckets, Busy
<1>26. CASE UNCHANGED vars
  BY <1>26 DEF vars, Busy
<1> QED
  BY <1>1, <1>2, <1>3, <1>4, <1>5, <1>6, <1>7, <1>8, <1>9, <1>10, <1>11, <1>12, <1>13,
     <1>14, <1>15, <1>16, <1>17, <1>18, <1>19, <1>20, <1>21, <1>22, <1>23, <1>24, <1>25,
     <1>26 DEF Next, Environment, Ingest, Parse, ParseStep, Reprocess

(* Type correctness of the pipeline.                                        *)
THEOREM TypeCorrect == Spec => []TypeOK
BY TypeInit, TypeStep, PTL DEF Spec

-----------------------------------------------------------------------------
(* Stored rows *)

(* Every step keeps what workers, administrators, requests and the phone    *)
(* handle inside the stored rows.                                           *)
LEMMA StoredRowsStep == TypeOK /\ OnlyStoredRows /\ [Next]_vars => OnlyStoredRows'
<1> SUFFICES ASSUME TypeOK, OnlyStoredRows, [Next]_vars PROVE OnlyStoredRows'
  OBVIOUS
<1> USE DEF OnlyStoredRows, Stored, AckedIsStored
<1>1. ASSUME NEW n \in Notifications, Capture(n) PROVE OnlyStoredRows'
  BY <1>1 DEF Capture, TypeOK, Busy, IdleWorker, IdleRequest, IdleAdmin, buckets
<1>2. CASE NextDay
  BY <1>2 DEF NextDay, TypeOK, Busy, IdleWorker, IdleRequest, IdleAdmin, buckets
<1>3. CASE TrialClockElapses
  BY <1>3 DEF TrialClockElapses, TypeOK, Busy, IdleWorker, IdleRequest, IdleAdmin, buckets
<1>4. CASE CloseExpiredTrial
  BY <1>4 DEF CloseExpiredTrial, TypeOK, Busy, IdleWorker, IdleRequest, IdleAdmin, buckets
<1>5. CASE Upgrade
  BY <1>5 DEF Upgrade, TypeOK, Busy, IdleWorker, IdleRequest, IdleAdmin, buckets
<1>6. ASSUME NEW r \in Requests, NEW batch \in SUBSET Notifications, AdmitBatch(r, batch)
      PROVE  OnlyStoredRows'
  BY <1>6 DEF AdmitBatch, TypeOK, Busy, IdleWorker, IdleRequest, IdleAdmin, buckets
<1>7. ASSUME NEW r \in Requests, InsertBatch(r) PROVE OnlyStoredRows'
  <2>1. PICK kept \in SUBSET New(r) : InsertRows(r, kept)
    BY <1>7 DEF InsertBatch
  <2>2. New(r) \subseteq request[r].batch /\ request[r].batch \in SUBSET Notifications
    BY DEF New, TypeOK, Request
  <2>3. /\ parseStatus' = [n \in Notifications |->
                             IF n \in kept THEN "PENDING" ELSE parseStatus[n]]
        /\ request' = [request EXCEPT ![r] =
             [at |-> "enqueue", batch |-> request[r].batch, toEnqueue |-> kept,
              accepted |-> Accepted(request[r].batch, New(r), kept)]]
        /\ UNCHANGED <<phone, transactions, worker, admin>>
    BY <2>1 DEF InsertRows
  <2>4. \A n \in Notifications : parseStatus[n] # "absent" => parseStatus'[n] # "absent"
    BY <2>3
  <2>5. \A n \in kept : n \in Notifications /\ parseStatus'[n] # "absent"
    BY <2>2, <2>3
  <2>6. \A n \in Accepted(request[r].batch, New(r), kept) : parseStatus'[n] # "absent"
    BY <2>2, <2>3, <2>4, <2>5 DEF Accepted, New
  <2>7. \A q \in Requests : request'[q].at = "enqueue" =>
          /\ \A n \in request'[q].accepted : parseStatus'[n] # "absent"
          /\ \A n \in request'[q].toEnqueue : parseStatus'[n] # "absent"
    BY <2>3, <2>4, <2>5, <2>6 DEF TypeOK, Request
  <2> QED BY <2>3, <2>4, <2>7 DEF TypeOK, Busy, Admin, Worker
<1>8. ASSUME NEW r \in Requests, EnqueueParse(r) PROVE OnlyStoredRows'
  BY <1>8 DEF EnqueueParse, TypeOK, Busy, IdleWorker, IdleRequest, IdleAdmin, buckets
<1>9. ASSUME NEW r \in Requests, ReplyAccepted(r) PROVE OnlyStoredRows'
  BY <1>9 DEF ReplyAccepted, TypeOK, Busy, IdleWorker, IdleRequest, IdleAdmin, buckets
<1>10. ASSUME NEW r \in Requests, LoseReply(r) PROVE OnlyStoredRows'
  BY <1>10 DEF LoseReply, TypeOK, Busy, IdleWorker, IdleRequest, IdleAdmin, buckets
<1>11. ASSUME NEW r \in Requests, AbortIngest(r) PROVE OnlyStoredRows'
  BY <1>11 DEF AbortIngest, TypeOK, Busy, IdleWorker, IdleRequest, IdleAdmin, buckets
<1>12. ASSUME NEW w \in Workers, NEW id \in JobIds, StartJob(w, id) PROVE OnlyStoredRows'
  BY <1>12 DEF StartJob, StillPending, TypeOK, Busy, JobIds, buckets
<1>13. ASSUME NEW w \in Workers, MarkUnmatched(w) PROVE OnlyStoredRows'
  BY <1>13 DEF MarkUnmatched, TypeOK, Busy, IdleWorker, IdleRequest, IdleAdmin, buckets
<1>14. ASSUME NEW w \in Workers, ReleaseQuota(w) PROVE OnlyStoredRows'
  BY <1>14 DEF ReleaseQuota, TypeOK, Busy, IdleWorker, IdleRequest, IdleAdmin, buckets
<1>15. ASSUME NEW w \in Workers, BeginCommit(w) PROVE OnlyStoredRows'
  BY <1>15 DEF BeginCommit, TypeOK, Busy, IdleWorker, IdleRequest, IdleAdmin, buckets
<1>16. ASSUME NEW w \in Workers, CommitTransaction(w) PROVE OnlyStoredRows'
  BY <1>16 DEF CommitTransaction, CommitOne, TypeOK, Busy, IdleWorker, IdleRequest, IdleAdmin, buckets
<1>17. ASSUME NEW w \in Workers, CommitRefused(w) PROVE OnlyStoredRows'
  BY <1>17 DEF CommitRefused, TypeOK, Busy, IdleWorker, IdleRequest, IdleAdmin, buckets
<1>18. ASSUME NEW w \in Workers, PublishTransaction(w) PROVE OnlyStoredRows'
  BY <1>18 DEF PublishTransaction, TypeOK, Busy, IdleWorker, IdleRequest, IdleAdmin, buckets
<1>19. ASSUME NEW w \in Workers, FailAttempt(w) PROVE OnlyStoredRows'
  BY <1>19 DEF FailAttempt, TypeOK, Busy, IdleWorker, IdleRequest, IdleAdmin, buckets
<1>20. ASSUME NEW w \in Workers, CrashWorker(w) PROVE OnlyStoredRows'
  BY <1>20 DEF CrashWorker, TypeOK, Busy, IdleWorker, IdleRequest, IdleAdmin, buckets
<1>21. ASSUME NEW w \in Workers, LoseLock(w) PROVE OnlyStoredRows'
  BY <1>21 DEF LoseLock, TypeOK, Busy, IdleWorker, IdleRequest, IdleAdmin, buckets
<1>22. ASSUME NEW a \in Admins, NEW rows \in SUBSET Notifications, SelectUnmatched(a, rows)
      PROVE  OnlyStoredRows'
  BY <1>22 DEF SelectUnmatched, TypeOK, Busy, IdleWorker, IdleRequest, IdleAdmin, buckets
<1>23. ASSUME NEW a \in Admins, ResetToPending(a) PROVE OnlyStoredRows'
  <2>1. \A n \in Notifications : parseStatus[n] # "absent" => parseStatus'[n] # "absent"
    BY <1>23 DEF ResetToPending
  <2> QED BY <1>23, <2>1 DEF ResetToPending, TypeOK, Busy, Request, Admin, buckets
<1>24. ASSUME NEW a \in Admins, EnqueueReprocess(a) PROVE OnlyStoredRows'
  BY <1>24 DEF EnqueueReprocess, TypeOK, Busy, IdleWorker, IdleRequest, IdleAdmin, buckets
<1>25. ASSUME NEW a \in Admins, AbortReprocess(a) PROVE OnlyStoredRows'
  BY <1>25 DEF AbortReprocess, TypeOK, Busy, IdleWorker, IdleRequest, IdleAdmin, buckets
<1>26. CASE UNCHANGED vars
  BY <1>26 DEF vars, TypeOK, Busy, IdleWorker, IdleRequest, IdleAdmin, buckets
<1> QED
  BY <1>1, <1>2, <1>3, <1>4, <1>5, <1>6, <1>7, <1>8, <1>9, <1>10, <1>11, <1>12, <1>13, <1>14,
     <1>15, <1>16, <1>17, <1>18, <1>19, <1>20, <1>21, <1>22, <1>23, <1>24, <1>25, <1>26
     DEF Next, Environment, Ingest, Parse, ParseStep, Reprocess

(* The phone deletes an item only when the server has stored it.            *)
THEOREM AcknowledgedIsStored == Spec => []AckedIsStored
<1>1. Init => OnlyStoredRows
  BY DEF Init, OnlyStoredRows, AckedIsStored, Busy, IdleWorker, IdleRequest, IdleAdmin
<1>2. OnlyStoredRows => AckedIsStored
  BY DEF OnlyStoredRows
<1> QED
  BY <1>1, <1>2, TypeInit, TypeStep, StoredRowsStep, PTL DEF Spec

-----------------------------------------------------------------------------
(* The used quota *)

(* Every step keeps the trial's stored rows on the day they were reserved on.*)
LEMMA TrialRowsStep ==
  TypeOK /\ OnlyStoredRows /\ TrialRowsReserved /\ [Next]_vars => TrialRowsReserved'
<1> SUFFICES ASSUME TypeOK, OnlyStoredRows, TrialRowsReserved, [Next]_vars PROVE TrialRowsReserved'
  OBVIOUS
<1>1. ASSUME NEW n \in Notifications, Capture(n) PROVE TrialRowsReserved'
  BY <1>1 DEF Capture, TypeOK, Busy, IdleWorker, buckets, TrialRowsReserved, Stored
<1>2. CASE NextDay
  BY <1>2 DEF NextDay, TypeOK, Busy, IdleWorker, buckets, TrialRowsReserved, Stored
<1>3. CASE TrialClockElapses
  BY <1>3 DEF TrialClockElapses, TypeOK, Subscription, buckets, TrialRowsReserved, Stored
<1>4. CASE CloseExpiredTrial
  BY <1>4 DEF CloseExpiredTrial, TypeOK, Subscription, buckets, TrialRowsReserved, Stored
<1>5. CASE Upgrade
  BY <1>5 DEF Upgrade, TypeOK, Subscription, TrialRowsReserved
<1>6. ASSUME NEW r \in Requests, NEW batch \in SUBSET Notifications, AdmitBatch(r, batch)
      PROVE  TrialRowsReserved'
  BY <1>6 DEF AdmitBatch, TypeOK, Busy, IdleWorker, buckets, TrialRowsReserved, Stored
<1>7. ASSUME NEW r \in Requests, InsertBatch(r) PROVE TrialRowsReserved'
  <2>1. PICK kept \in SUBSET New(r) : InsertRows(r, kept)
    BY <1>7 DEF InsertBatch
  <2>2. UNCHANGED <<subscription, worker>>
    BY <2>1 DEF InsertRows
  <2>3. ASSUME subscription.plan = "TRIAL", NEW n \in Notifications, Stored(n)'
        PROVE  quotaWindow'[n] # NoDay
    <3>1. quotaWindow' = [m \in Notifications |-> IF m \in kept THEN today ELSE quotaWindow[m]]
      BY <2>1, <2>3 DEF InsertRows, ReserveQuota
    <3>2. n \notin kept => Stored(n)
      BY <2>1, <2>3 DEF InsertRows, Stored
    <3>3. today # NoDay
      BY DEF TypeOK, Days, NoDay
    <3> QED BY <2>3, <3>1, <3>2, <3>3 DEF TrialRowsReserved
  <2> QED BY <2>2, <2>3 DEF TrialRowsReserved
<1>8. ASSUME NEW r \in Requests, EnqueueParse(r) PROVE TrialRowsReserved'
  BY <1>8 DEF EnqueueParse, TypeOK, Busy, IdleWorker, buckets, TrialRowsReserved, Stored
<1>9. ASSUME NEW r \in Requests, ReplyAccepted(r) PROVE TrialRowsReserved'
  BY <1>9 DEF ReplyAccepted, TypeOK, Busy, IdleWorker, buckets, TrialRowsReserved, Stored
<1>10. ASSUME NEW r \in Requests, LoseReply(r) PROVE TrialRowsReserved'
  BY <1>10 DEF LoseReply, TypeOK, Busy, IdleWorker, buckets, TrialRowsReserved, Stored
<1>11. ASSUME NEW r \in Requests, AbortIngest(r) PROVE TrialRowsReserved'
  BY <1>11 DEF AbortIngest, TypeOK, Busy, IdleWorker, buckets, TrialRowsReserved, Stored
<1>12. ASSUME NEW w \in Workers, NEW id \in JobIds, StartJob(w, id)
      PROVE  TrialRowsReserved'
  BY <1>12 DEF StartJob, TypeOK, Busy, JobIds, buckets, TrialRowsReserved, Stored, NewSubscription
<1>13. ASSUME NEW w \in Workers, MarkUnmatched(w) PROVE TrialRowsReserved'
  BY <1>13 DEF MarkUnmatched, TypeOK, Busy, buckets, TrialRowsReserved, Stored, OnlyStoredRows
<1>14. ASSUME NEW w \in Workers, ReleaseQuota(w) PROVE TrialRowsReserved'
  BY <1>14 DEF ReleaseQuota, TypeOK, Busy, IdleWorker, buckets, TrialRowsReserved, Stored
<1>15. ASSUME NEW w \in Workers, BeginCommit(w) PROVE TrialRowsReserved'
  BY <1>15 DEF BeginCommit, TypeOK, Worker, buckets, TrialRowsReserved, Stored
<1>16. ASSUME NEW w \in Workers, CommitTransaction(w) PROVE TrialRowsReserved'
  <2>1. subscription'.plan = subscription.plan
    BY <1>16 DEF CommitTransaction, CommitOne, SubscriptionAfterCommit, TypeOK, Subscription, buckets
  <2> QED BY <1>16, <2>1 DEF CommitTransaction, CommitOne, TypeOK, Busy, TrialRowsReserved, Stored, OnlyStoredRows
<1>17. ASSUME NEW w \in Workers, CommitRefused(w) PROVE TrialRowsReserved'
  BY <1>17 DEF CommitRefused, TypeOK, Busy, IdleWorker, buckets, TrialRowsReserved, Stored
<1>18. ASSUME NEW w \in Workers, PublishTransaction(w) PROVE TrialRowsReserved'
  BY <1>18 DEF PublishTransaction, TypeOK, Busy, IdleWorker, buckets, TrialRowsReserved, Stored
<1>19. ASSUME NEW w \in Workers, FailAttempt(w) PROVE TrialRowsReserved'
  BY <1>19 DEF FailAttempt, TypeOK, Busy, IdleWorker, buckets, TrialRowsReserved, Stored
<1>20. ASSUME NEW w \in Workers, CrashWorker(w) PROVE TrialRowsReserved'
  BY <1>20 DEF CrashWorker, TypeOK, Busy, IdleWorker, buckets, TrialRowsReserved, Stored
<1>21. ASSUME NEW w \in Workers, LoseLock(w) PROVE TrialRowsReserved'
  BY <1>21 DEF LoseLock, TypeOK, Busy, IdleWorker, buckets, TrialRowsReserved, Stored
<1>22. ASSUME NEW a \in Admins, NEW rows \in SUBSET Notifications, SelectUnmatched(a, rows)
      PROVE  TrialRowsReserved'
  BY <1>22 DEF SelectUnmatched, TypeOK, Busy, IdleWorker, buckets, TrialRowsReserved, Stored
<1>23. ASSUME NEW a \in Admins, ResetToPending(a) PROVE TrialRowsReserved'
  BY <1>23 DEF ResetToPending, TypeOK, buckets, TrialRowsReserved, Stored, OnlyStoredRows
<1>24. ASSUME NEW a \in Admins, EnqueueReprocess(a) PROVE TrialRowsReserved'
  BY <1>24 DEF EnqueueReprocess, TypeOK, Busy, IdleWorker, buckets, TrialRowsReserved, Stored
<1>25. ASSUME NEW a \in Admins, AbortReprocess(a) PROVE TrialRowsReserved'
  BY <1>25 DEF AbortReprocess, TypeOK, Busy, IdleWorker, buckets, TrialRowsReserved, Stored
<1>26. CASE UNCHANGED vars
  BY <1>26 DEF vars, TypeOK, Busy, IdleWorker, buckets, TrialRowsReserved, Stored
<1> QED
  BY <1>1, <1>2, <1>3, <1>4, <1>5, <1>6, <1>7, <1>8, <1>9, <1>10, <1>11, <1>12, <1>13, <1>14,
     <1>15, <1>16, <1>17, <1>18, <1>19, <1>20, <1>21, <1>22, <1>23, <1>24, <1>25, <1>26
     DEF Next, Environment, Ingest, Parse, ParseStep, Reprocess

(* A step that leaves the used units, the payments and their days alone.    *)
LEMMA UsedFrame ==
  ASSUME UsedMatchesTransactions,
         UNCHANGED <<transactions, quotaWindow, dayUsed, totalUsed>>,
         subscription'.plan = "TRIAL" => subscription.plan = "TRIAL"
  PROVE  UsedMatchesTransactions'
BY DEF UsedMatchesTransactions

(* Every step keeps the used units equal to the payments on record.         *)
LEMMA UsedStep ==
  UsedInv /\ [Next]_vars => UsedMatchesTransactions'
<1> SUFFICES ASSUME UsedInv, [Next]_vars PROVE UsedMatchesTransactions'
  OBVIOUS
<1> USE DEF UsedInv
<1>1. ASSUME NEW n \in Notifications, Capture(n) PROVE UsedMatchesTransactions'
  BY <1>1, UsedFrame DEF Capture, buckets
<1>2. CASE NextDay
  BY <1>2, UsedFrame DEF NextDay, buckets
<1>3. CASE TrialClockElapses
  BY <1>3, UsedFrame DEF TrialClockElapses, buckets, TypeOK, Subscription
<1>4. CASE CloseExpiredTrial
  BY <1>4, UsedFrame DEF CloseExpiredTrial, buckets, TypeOK, Subscription
<1>5. CASE Upgrade
  BY <1>5, UsedFrame DEF Upgrade, buckets, TypeOK, Subscription
<1>6. ASSUME NEW r \in Requests, NEW batch \in SUBSET Notifications, AdmitBatch(r, batch)
      PROVE  UsedMatchesTransactions'
  BY <1>6, UsedFrame DEF AdmitBatch, buckets
<1>7. ASSUME NEW r \in Requests, InsertBatch(r) PROVE UsedMatchesTransactions'
  <2>1. PICK kept \in SUBSET New(r) : InsertRows(r, kept)
    BY <1>7 DEF InsertBatch
  <2>2. UNCHANGED <<subscription, transactions, dayUsed, totalUsed>>
    BY <2>1 DEF InsertRows
  <2>3. \A n \in transactions : n \notin kept
    BY <2>1 DEF New, OnlyStoredRows, Stored
  <2>4. \A n \in transactions : quotaWindow'[n] = quotaWindow[n]
    BY <2>1, <2>3 DEF InsertRows, ReserveQuota, TypeOK
  <2>5. \A d \in Days : {n \in transactions : quotaWindow'[n] = d}
                       = {n \in transactions : quotaWindow[n] = d}
    BY <2>4
  <2> QED BY <2>2, <2>5 DEF UsedMatchesTransactions
<1>8. ASSUME NEW r \in Requests, EnqueueParse(r) PROVE UsedMatchesTransactions'
  BY <1>8, UsedFrame DEF EnqueueParse, buckets
<1>9. ASSUME NEW r \in Requests, ReplyAccepted(r) PROVE UsedMatchesTransactions'
  BY <1>9, UsedFrame DEF ReplyAccepted, buckets
<1>10. ASSUME NEW r \in Requests, LoseReply(r) PROVE UsedMatchesTransactions'
  BY <1>10, UsedFrame DEF LoseReply, buckets
<1>11. ASSUME NEW r \in Requests, AbortIngest(r) PROVE UsedMatchesTransactions'
  BY <1>11, UsedFrame DEF AbortIngest, buckets
<1>12. ASSUME NEW w \in Workers, NEW id \in JobIds, StartJob(w, id)
      PROVE  UsedMatchesTransactions'
  BY <1>12, UsedFrame DEF StartJob, buckets
<1>13. ASSUME NEW w \in Workers, MarkUnmatched(w) PROVE UsedMatchesTransactions'
  BY <1>13, UsedFrame DEF MarkUnmatched, buckets
<1>14. ASSUME NEW w \in Workers, ReleaseQuota(w) PROVE UsedMatchesTransactions'
  BY <1>14, UsedFrame DEF ReleaseQuota, buckets
<1>15. ASSUME NEW w \in Workers, BeginCommit(w) PROVE UsedMatchesTransactions'
  BY <1>15, UsedFrame DEF BeginCommit, buckets
<1>16. ASSUME NEW w \in Workers, CommitTransaction(w) PROVE UsedMatchesTransactions'
  <2> DEFINE n == worker[w].item
             day == SettlementDay(n)
             On(S, d) == {m \in S : quotaWindow[m] = d}
  <2>1. n \in Notifications /\ n \notin transactions /\ transactions' = transactions \cup {n}
    BY <1>16 DEF CommitTransaction, CommitOne, NoTransactionYet, TypeOK, Busy
  <2>2. UNCHANGED quotaWindow /\ subscription'.plan = subscription.plan
    BY <1>16 DEF CommitTransaction, CommitOne, SubscriptionAfterCommit, TypeOK, Subscription, buckets
  <2> SUFFICES ASSUME subscription.plan = "TRIAL"
               PROVE  /\ totalUsed' = Cardinality(transactions')
                      /\ \A d \in Days : dayUsed'[d] = Cardinality(On(transactions', d))
    BY <2>2 DEF UsedMatchesTransactions
  <2>3. day = quotaWindow[n] /\ day \in Days
    BY <1>16, <2>1 DEF CommitTransaction, CommitOne, TrialRowsReserved, OnlyStoredRows, Busy,
                     SettlementDay, TypeOK
  <2>4. totalUsed' = totalUsed + 1 /\ dayUsed' = [dayUsed EXCEPT ![day] = @ + 1]
    BY <1>16 DEF CommitTransaction, CommitOne, TrialRowsReserved
  <2>5. totalUsed' = Cardinality(transactions')
    BY <2>1, <2>4, SubsetsAreFinite, FS_AddElement DEF UsedMatchesTransactions, TypeOK
  <2>6. ASSUME NEW d \in Days PROVE dayUsed'[d] = Cardinality(On(transactions', d))
    <3>1. dayUsed[d] = Cardinality(On(transactions, d))
      BY DEF UsedMatchesTransactions
    <3>2. CASE d = day
      <4>1. On(transactions', d) = On(transactions, d) \cup {n} /\ n \notin On(transactions, d)
        BY <2>1, <2>3, <3>2
      <4>2. IsFiniteSet(On(transactions, d))
        BY SubsetsAreFinite, On(transactions, d) \in SUBSET Notifications DEF TypeOK
      <4>3. Cardinality(On(transactions', d)) = Cardinality(On(transactions, d)) + 1
        BY <4>1, <4>2, FS_AddElement
      <4> QED BY <2>3, <2>4, <3>1, <3>2, <4>3 DEF TypeOK
    <3>3. CASE d # day
      <4>1. On(transactions', d) = On(transactions, d)
        BY <2>1, <2>3, <3>3
      <4> QED BY <2>3, <2>4, <3>1, <3>3, <4>1 DEF TypeOK
    <3> QED BY <3>2, <3>3
  <2> QED BY <2>5, <2>6
<1>17. ASSUME NEW w \in Workers, CommitRefused(w) PROVE UsedMatchesTransactions'
  BY <1>17, UsedFrame DEF CommitRefused, buckets
<1>18. ASSUME NEW w \in Workers, PublishTransaction(w) PROVE UsedMatchesTransactions'
  BY <1>18, UsedFrame DEF PublishTransaction, buckets
<1>19. ASSUME NEW w \in Workers, FailAttempt(w) PROVE UsedMatchesTransactions'
  BY <1>19, UsedFrame DEF FailAttempt, buckets
<1>20. ASSUME NEW w \in Workers, CrashWorker(w) PROVE UsedMatchesTransactions'
  BY <1>20, UsedFrame DEF CrashWorker, buckets
<1>21. ASSUME NEW w \in Workers, LoseLock(w) PROVE UsedMatchesTransactions'
  BY <1>21, UsedFrame DEF LoseLock, buckets
<1>22. ASSUME NEW a \in Admins, NEW rows \in SUBSET Notifications, SelectUnmatched(a, rows)
      PROVE  UsedMatchesTransactions'
  BY <1>22, UsedFrame DEF SelectUnmatched, buckets
<1>23. ASSUME NEW a \in Admins, ResetToPending(a) PROVE UsedMatchesTransactions'
  BY <1>23, UsedFrame DEF ResetToPending, buckets
<1>24. ASSUME NEW a \in Admins, EnqueueReprocess(a) PROVE UsedMatchesTransactions'
  BY <1>24, UsedFrame DEF EnqueueReprocess, buckets
<1>25. ASSUME NEW a \in Admins, AbortReprocess(a) PROVE UsedMatchesTransactions'
  BY <1>25, UsedFrame DEF AbortReprocess, buckets
<1>26. CASE UNCHANGED vars
  BY <1>26, UsedFrame DEF vars
<1> QED
  BY <1>1, <1>2, <1>3, <1>4, <1>5, <1>6, <1>7, <1>8, <1>9, <1>10, <1>11, <1>12, <1>13, <1>14,
     <1>15, <1>16, <1>17, <1>18, <1>19, <1>20, <1>21, <1>22, <1>23, <1>24, <1>25, <1>26
     DEF Next, Environment, Ingest, Parse, ParseStep, Reprocess

(* In the trial, what the total and every day have used is the number of    *)
(* payments on record, whatever fails, runs twice or is reprocessed.        *)
THEOREM UsedIsExact == Spec => []UsedMatchesTransactions
<1>1. Init => UsedInv
  <2>1. Cardinality({}) = 0
    BY FS_EmptySet
  <2>2. Init => UsedMatchesTransactions
    <3>1. ASSUME Init, NEW d \in Days PROVE {n \in transactions : quotaWindow[n] = d} = {}
      BY <3>1 DEF Init
    <3> QED BY <2>1, <3>1 DEF Init, UsedMatchesTransactions
  <2> QED
    BY <2>2, TypeInit DEF UsedInv, Init, OnlyStoredRows, AckedIsStored, TrialRowsReserved,
       Stored, Busy, IdleWorker, IdleRequest, IdleAdmin
<1>2. UsedInv /\ [Next]_vars => UsedInv'
  BY TypeStep, StoredRowsStep, TrialRowsStep, UsedStep DEF UsedInv
<1>3. UsedInv => UsedMatchesTransactions
  BY DEF UsedInv
<1> QED
  BY <1>1, <1>2, <1>3, PTL DEF Spec

-----------------------------------------------------------------------------
(* Publication *)

(* Every step keeps at most one publisher and one publication per payment.  *)
LEMMA PublishStep ==
  TypeOK /\ PublishInv /\ [Next]_vars => PublishInv'
<1> SUFFICES ASSUME TypeOK, PublishInv, [Next]_vars PROVE PublishInv'
  OBVIOUS
<1> USE DEF PublishInv
<1>1. ASSUME NEW n \in Notifications, Capture(n) PROVE PublishInv'
  BY <1>1 DEF Capture, IdleWorker, TypeOK, PublishedOnce, Publishing, Busy
<1>2. CASE NextDay
  BY <1>2 DEF NextDay, IdleWorker, TypeOK, PublishedOnce, Publishing, Busy
<1>3. CASE TrialClockElapses
  BY <1>3 DEF TrialClockElapses, IdleWorker, TypeOK, PublishedOnce, Publishing, Busy
<1>4. CASE CloseExpiredTrial
  BY <1>4 DEF CloseExpiredTrial, IdleWorker, TypeOK, PublishedOnce, Publishing, Busy
<1>5. CASE Upgrade
  BY <1>5 DEF Upgrade, IdleWorker, TypeOK, PublishedOnce, Publishing, Busy
<1>6. ASSUME NEW r \in Requests, NEW batch \in SUBSET Notifications, AdmitBatch(r, batch)
      PROVE  PublishInv'
  BY <1>6 DEF AdmitBatch, IdleWorker, TypeOK, PublishedOnce, Publishing, Busy
<1>7. ASSUME NEW r \in Requests, InsertBatch(r) PROVE PublishInv'
  BY <1>7 DEF InsertBatch, InsertRows, PublishedOnce, Publishing
<1>8. ASSUME NEW r \in Requests, EnqueueParse(r) PROVE PublishInv'
  BY <1>8 DEF EnqueueParse, IdleWorker, TypeOK, PublishedOnce, Publishing, Busy
<1>9. ASSUME NEW r \in Requests, ReplyAccepted(r) PROVE PublishInv'
  BY <1>9 DEF ReplyAccepted, IdleWorker, TypeOK, PublishedOnce, Publishing, Busy
<1>10. ASSUME NEW r \in Requests, LoseReply(r) PROVE PublishInv'
  BY <1>10 DEF LoseReply, IdleWorker, TypeOK, PublishedOnce, Publishing, Busy
<1>11. ASSUME NEW r \in Requests, AbortIngest(r) PROVE PublishInv'
  BY <1>11 DEF AbortIngest, IdleWorker, TypeOK, PublishedOnce, Publishing, Busy
<1>12. ASSUME NEW w \in Workers, NEW id \in JobIds, StartJob(w, id) PROVE PublishInv'
  BY <1>12 DEF StartJob, IdleWorker, TypeOK, PublishedOnce, Publishing, Busy
<1>13. ASSUME NEW w \in Workers, MarkUnmatched(w) PROVE PublishInv'
  BY <1>13 DEF MarkUnmatched, IdleWorker, TypeOK, PublishedOnce, Publishing, Busy
<1>14. ASSUME NEW w \in Workers, ReleaseQuota(w) PROVE PublishInv'
  BY <1>14 DEF ReleaseQuota, IdleWorker, TypeOK, PublishedOnce, Publishing, Busy
<1>15. ASSUME NEW w \in Workers, BeginCommit(w) PROVE PublishInv'
  BY <1>15 DEF BeginCommit, IdleWorker, TypeOK, PublishedOnce, Publishing, Busy
<1>16. ASSUME NEW w \in Workers, CommitTransaction(w) PROVE PublishInv'
  <2>1. /\ worker[w].item \notin transactions
        /\ transactions' = transactions \cup {worker[w].item}
        /\ worker' = [worker EXCEPT ![w].at = "publish"]
        /\ UNCHANGED published
        /\ worker[w].item \in Notifications
    BY <1>16 DEF CommitTransaction, CommitOne, NoTransactionYet, TypeOK, Busy
  <2>2. published[worker[w].item] = 0
    BY <2>1 DEF TypeOK, PublishedOnce
  <2>3. \A v \in Workers : /\ worker'[v].item = worker[v].item
                          /\ v # w => worker'[v].at = worker[v].at
    BY <2>1 DEF TypeOK, Worker
  <2>4. PublishedOnce'
    BY <2>1 DEF PublishedOnce
  <2>5. \A v \in Workers : Publishing(v)' =>
          worker'[v].item \in transactions' /\ published'[worker'[v].item] = 0
    BY <2>1, <2>2, <2>3 DEF Publishing
  <2>6. \A u, v \in Workers :
          Publishing(u)' /\ Publishing(v)' /\ worker'[u].item = worker'[v].item => u = v
    BY <2>1, <2>3 DEF Publishing
  <2> QED BY <2>4, <2>5, <2>6
<1>17. ASSUME NEW w \in Workers, CommitRefused(w) PROVE PublishInv'
  BY <1>17 DEF CommitRefused, IdleWorker, TypeOK, PublishedOnce, Publishing, Busy
<1>18. ASSUME NEW w \in Workers, PublishTransaction(w) PROVE PublishInv'
  BY <1>18 DEF PublishTransaction, IdleWorker, TypeOK, PublishedOnce, Publishing, Busy
<1>19. ASSUME NEW w \in Workers, FailAttempt(w) PROVE PublishInv'
  BY <1>19 DEF FailAttempt, IdleWorker, TypeOK, PublishedOnce, Publishing, Busy
<1>20. ASSUME NEW w \in Workers, CrashWorker(w) PROVE PublishInv'
  BY <1>20 DEF CrashWorker, IdleWorker, TypeOK, PublishedOnce, Publishing, Busy
<1>21. ASSUME NEW w \in Workers, LoseLock(w) PROVE PublishInv'
  BY <1>21 DEF LoseLock, IdleWorker, TypeOK, PublishedOnce, Publishing, Busy
<1>22. ASSUME NEW a \in Admins, NEW rows \in SUBSET Notifications, SelectUnmatched(a, rows)
      PROVE  PublishInv'
  BY <1>22 DEF SelectUnmatched, IdleWorker, TypeOK, PublishedOnce, Publishing, Busy
<1>23. ASSUME NEW a \in Admins, ResetToPending(a) PROVE PublishInv'
  BY <1>23 DEF ResetToPending, IdleWorker, TypeOK, PublishedOnce, Publishing, Busy
<1>24. ASSUME NEW a \in Admins, EnqueueReprocess(a) PROVE PublishInv'
  BY <1>24 DEF EnqueueReprocess, IdleWorker, TypeOK, PublishedOnce, Publishing, Busy
<1>25. ASSUME NEW a \in Admins, AbortReprocess(a) PROVE PublishInv'
  BY <1>25 DEF AbortReprocess, IdleWorker, TypeOK, PublishedOnce, Publishing, Busy
<1>26. CASE UNCHANGED vars
  BY <1>26 DEF vars, TypeOK, PublishedOnce, Publishing, Busy
<1> QED
  BY <1>1, <1>2, <1>3, <1>4, <1>5, <1>6, <1>7, <1>8, <1>9, <1>10, <1>11, <1>12, <1>13, <1>14,
     <1>15, <1>16, <1>17, <1>18, <1>19, <1>20, <1>21, <1>22, <1>23, <1>24, <1>25, <1>26
     DEF Next, Environment, Ingest, Parse, ParseStep, Reprocess

(* Every payment is published at most once, and only after its commit.      *)
THEOREM PublishedAtMostOnce == Spec => []PublishedOnce
<1>1. Init => PublishInv
  BY DEF Init, PublishInv, PublishedOnce, Publishing, IdleWorker
<1>2. PublishInv => PublishedOnce
  BY DEF PublishInv
<1> QED
  BY <1>1, <1>2, TypeInit, TypeStep, PublishStep, PTL DEF Spec

-----------------------------------------------------------------------------
(* The end of the trial *)

(* A step that leaves the subscription's plan and end and the used total    *)
(* alone, and begins no commit, keeps the trial closed when it should be.   *)
LEMMA ClosedFrame ==
  ASSUME ClosedInv, UNCHANGED totalUsed,
         subscription'.plan = subscription.plan,
         subscription'.trialEnd = subscription.trialEnd,
         \A v \in Workers : worker'[v].at = "commit" =>
           worker[v].at = "commit" /\ worker'[v].sub = worker[v].sub
  PROVE  EndReadIsThere' /\ TrialClosedAtTotal'
BY DEF ClosedInv, EndReadIsThere, TrialClosedAtTotal

(* The commit that uses the last unit stores the reason, unless it has read *)
(* one, and nothing clears it.                                              *)
LEMMA ClosedStep ==
  ASSUME ClosedInv, [Next]_vars
  PROVE  EndReadIsThere' /\ TrialClosedAtTotal'
<1>1. ASSUME NEW n \in Notifications, Capture(n)
      PROVE  EndReadIsThere' /\ TrialClosedAtTotal'
  BY <1>1, ClosedFrame DEF Capture, buckets
<1>2. CASE NextDay
  BY <1>2, ClosedFrame DEF NextDay, buckets
<1>3. CASE TrialClockElapses
  BY <1>3, ClosedFrame DEF TrialClockElapses, ClosedInv, TypeOK, Subscription, buckets
<1>4. CASE CloseExpiredTrial
  BY <1>4 DEF CloseExpiredTrial, ClosedInv, TypeOK, Subscription, EndReadIsThere, TrialClosedAtTotal
<1>5. CASE Upgrade
  BY <1>5 DEF Upgrade, ClosedInv, TypeOK, Subscription, EndReadIsThere, TrialClosedAtTotal
<1>6. ASSUME NEW r \in Requests, NEW batch \in SUBSET Notifications, AdmitBatch(r, batch)
      PROVE  EndReadIsThere' /\ TrialClosedAtTotal'
  BY <1>6, ClosedFrame DEF AdmitBatch, buckets
<1>7. ASSUME NEW r \in Requests, InsertBatch(r)
      PROVE  EndReadIsThere' /\ TrialClosedAtTotal'
  BY <1>7, ClosedFrame DEF InsertBatch, InsertRows, buckets
<1>8. ASSUME NEW r \in Requests, EnqueueParse(r)
      PROVE  EndReadIsThere' /\ TrialClosedAtTotal'
  BY <1>8, ClosedFrame DEF EnqueueParse, buckets
<1>9. ASSUME NEW r \in Requests, ReplyAccepted(r)
      PROVE  EndReadIsThere' /\ TrialClosedAtTotal'
  BY <1>9, ClosedFrame DEF ReplyAccepted, buckets
<1>10. ASSUME NEW r \in Requests, LoseReply(r)
      PROVE  EndReadIsThere' /\ TrialClosedAtTotal'
  BY <1>10, ClosedFrame DEF LoseReply, buckets
<1>11. ASSUME NEW r \in Requests, AbortIngest(r)
      PROVE  EndReadIsThere' /\ TrialClosedAtTotal'
  BY <1>11, ClosedFrame DEF AbortIngest, buckets
<1>12. ASSUME NEW w \in Workers, NEW id \in JobIds, StartJob(w, id)
      PROVE  EndReadIsThere' /\ TrialClosedAtTotal'
  BY <1>12, ClosedFrame DEF StartJob, ClosedInv, TypeOK, Worker, IdleWorker, buckets
<1>13. ASSUME NEW w \in Workers, MarkUnmatched(w)
      PROVE  EndReadIsThere' /\ TrialClosedAtTotal'
  BY <1>13, ClosedFrame DEF MarkUnmatched, ClosedInv, TypeOK, Worker, IdleWorker, buckets
<1>14. ASSUME NEW w \in Workers, ReleaseQuota(w)
      PROVE  EndReadIsThere' /\ TrialClosedAtTotal'
  BY <1>14, ClosedFrame DEF ReleaseQuota, ClosedInv, TypeOK, Worker, IdleWorker, buckets
<1>15. ASSUME NEW w \in Workers, BeginCommit(w)
      PROVE  EndReadIsThere' /\ TrialClosedAtTotal'
  <2>1. /\ worker' = [worker EXCEPT ![w].at = "commit", ![w].sub = subscription]
        /\ UNCHANGED <<subscription, totalUsed>>
    BY <1>15 DEF BeginCommit, buckets
  <2>2. \A v \in Workers : worker'[v].sub = IF v = w THEN subscription ELSE worker[v].sub
    BY <2>1 DEF ClosedInv, TypeOK, Worker
  <2>3. \A v \in Workers : v # w => worker'[v] = worker[v]
    BY <2>1 DEF ClosedInv, TypeOK
  <2> QED BY <2>1, <2>2, <2>3 DEF ClosedInv, EndReadIsThere, TrialClosedAtTotal
<1>16. ASSUME NEW w \in Workers, CommitTransaction(w)
      PROVE  EndReadIsThere' /\ TrialClosedAtTotal'
  <2>1. \A v \in Workers : worker'[v].at = "commit" =>
          worker[v].at = "commit" /\ worker'[v].sub = worker[v].sub
    BY <1>16 DEF CommitTransaction, CommitOne, ClosedInv, TypeOK, Worker
  <2>2. CASE worker[w].sub.plan = "TRIAL"
    <3>1. /\ totalUsed' = totalUsed + 1
          /\ subscription' = SubscriptionAfterCommit(worker[w].sub, totalUsed + 1)
      BY <1>16, <2>2 DEF CommitTransaction, CommitOne
    <3>2. worker[w].at = "commit"
      BY <1>16 DEF CommitTransaction, CommitOne
    <3> DEFINE full == worker[w].sub.trialEnd = "none" /\ totalUsed + 1 >= TotalLimit
    <3>3. /\ subscription'.plan = subscription.plan
          /\ subscription'.trialEnd = IF full THEN "TOTAL_LIMIT" ELSE subscription.trialEnd
      BY <3>1 DEF SubscriptionAfterCommit, ClosedInv, TypeOK, Subscription
    <3>4. EndReadIsThere'
      BY <2>1, <3>3 DEF EndReadIsThere, ClosedInv
    <3>5. TrialClosedAtTotal'
      <4>1. totalUsed \in Nat /\ TotalLimit \in Nat
        BY BoundAssumption DEF ClosedInv, TypeOK
      <4>2. CASE full
        BY <3>1, <3>3, <4>1, <4>2 DEF TrialClosedAtTotal
      <4>3. CASE ~full
        <5>1. totalUsed + 1 >= TotalLimit => subscription.trialEnd # "none"
          BY <3>2, <4>3 DEF EndReadIsThere, ClosedInv
        <5> QED BY <3>1, <3>3, <4>1, <4>3, <5>1 DEF TrialClosedAtTotal, ClosedInv
      <4> QED BY <4>2, <4>3
    <3> QED BY <3>4, <3>5
  <2>3. CASE worker[w].sub.plan # "TRIAL"
    <3>1. UNCHANGED <<subscription, totalUsed>>
      BY <1>16, <2>3 DEF CommitTransaction, CommitOne, buckets
    <3> QED BY <2>1, <3>1, ClosedFrame
  <2> QED BY <2>2, <2>3
<1>17. ASSUME NEW w \in Workers, CommitRefused(w)
      PROVE  EndReadIsThere' /\ TrialClosedAtTotal'
  BY <1>17, ClosedFrame DEF CommitRefused, ClosedInv, TypeOK, Worker, IdleWorker, buckets
<1>18. ASSUME NEW w \in Workers, PublishTransaction(w)
      PROVE  EndReadIsThere' /\ TrialClosedAtTotal'
  BY <1>18, ClosedFrame DEF PublishTransaction, ClosedInv, TypeOK, Worker, IdleWorker, buckets
<1>19. ASSUME NEW w \in Workers, FailAttempt(w)
      PROVE  EndReadIsThere' /\ TrialClosedAtTotal'
  BY <1>19, ClosedFrame DEF FailAttempt, ClosedInv, TypeOK, Worker, IdleWorker, buckets
<1>20. ASSUME NEW w \in Workers, CrashWorker(w)
      PROVE  EndReadIsThere' /\ TrialClosedAtTotal'
  BY <1>20, ClosedFrame DEF CrashWorker, ClosedInv, TypeOK, Worker, IdleWorker, buckets
<1>21. ASSUME NEW w \in Workers, LoseLock(w)
      PROVE  EndReadIsThere' /\ TrialClosedAtTotal'
  BY <1>21, ClosedFrame DEF LoseLock, buckets
<1>22. ASSUME NEW a \in Admins, NEW rows \in SUBSET Notifications, SelectUnmatched(a, rows)
      PROVE  EndReadIsThere' /\ TrialClosedAtTotal'
  BY <1>22, ClosedFrame DEF SelectUnmatched, buckets
<1>23. ASSUME NEW a \in Admins, ResetToPending(a)
      PROVE  EndReadIsThere' /\ TrialClosedAtTotal'
  BY <1>23, ClosedFrame DEF ResetToPending, buckets
<1>24. ASSUME NEW a \in Admins, EnqueueReprocess(a)
      PROVE  EndReadIsThere' /\ TrialClosedAtTotal'
  BY <1>24, ClosedFrame DEF EnqueueReprocess, buckets
<1>25. ASSUME NEW a \in Admins, AbortReprocess(a)
      PROVE  EndReadIsThere' /\ TrialClosedAtTotal'
  BY <1>25, ClosedFrame DEF AbortReprocess, buckets
<1>26. CASE UNCHANGED vars
  BY <1>26, ClosedFrame DEF vars, buckets
<1> QED
  BY <1>1, <1>2, <1>3, <1>4, <1>5, <1>6, <1>7, <1>8, <1>9, <1>10, <1>11, <1>12,
     <1>13, <1>14, <1>15, <1>16, <1>17, <1>18, <1>19, <1>20, <1>21, <1>22, <1>23,
     <1>24, <1>25, <1>26
     DEF Next, Environment, Ingest, Parse, ParseStep, Reprocess

(* The trial is closed exactly when its total is used up, whatever the      *)
(* workers had read when they began to commit.                              *)
THEOREM TrialIsClosed == Spec => []TrialClosedAtTotal
<1>1. Init => ClosedInv
  <2> SUFFICES ASSUME Init PROVE ClosedInv
    OBVIOUS
  <2>1. OnlyStoredRows /\ TrialRowsReserved
    BY DEF Init, OnlyStoredRows, TrialRowsReserved, AckedIsStored, Stored, Busy, IdleWorker,
           IdleRequest, IdleAdmin
  <2>2. EndReadIsThere
    BY DEF Init, EndReadIsThere, IdleWorker
  <2>3. TrialClosedAtTotal
    BY BoundAssumption DEF Init, TrialClosedAtTotal, NewSubscription
  <2> QED BY <2>1, <2>2, <2>3, TypeInit DEF ClosedInv
<1>2. ClosedInv /\ [Next]_vars => ClosedInv'
  BY TypeStep, StoredRowsStep, TrialRowsStep, ClosedStep DEF ClosedInv
<1>3. ClosedInv => TrialClosedAtTotal
  BY DEF ClosedInv
<1> QED
  BY <1>1, <1>2, <1>3, PTL DEF Spec

-----------------------------------------------------------------------------
(* Without reprocessing and without lost locks *)

(* What the theorems from here on assume of the bounds.                     *)
NoReruns == MaxReprocess = 0 /\ MaxLockLosses = 0

-----------------------------------------------------------------------------
(* One run per row *)

(* Two busy workers hold the locks of different jobs.                       *)
LEMMA BusyElsewhere ==
  ASSUME TypeOK, OneRunPerRow, NEW v \in Workers, NEW w \in Workers,
         Busy(v), Busy(w), v # w
  PROVE  JobOf(v) \in JobIds /\ JobOf(v) # JobOf(w)
BY JobsTyped DEF OneRunPerRow

(* Without reprocessing a row has one job, so they also handle different    *)
(* rows.                                                                    *)
LEMMA DistinctItems ==
  ASSUME TypeOK, OneRunPerRow, NoReruns, NEW v \in Workers, NEW w \in Workers,
         Busy(v), Busy(w), v # w
  PROVE  worker[v].item # worker[w].item
<1>1. worker[v].call = 0 /\ worker[w].call = 0
  BY DEF TypeOK, Worker, NoReruns
<1> QED BY <1>1, BusyElsewhere DEF JobOf

(* Without lost locks and reprocessing every busy worker keeps the lock of its*)
(* job.                                                                     *)
LEMMA OneRunStep ==
  ASSUME NoReruns, TypeOK, OneRunPerRow, [Next]_vars
  PROVE  OneRunPerRow'
<1>1. ASSUME NEW n \in Notifications, Capture(n) PROVE OneRunPerRow'
  BY <1>1 DEF Capture, OneRunPerRow, Busy, JobOf
<1>2. CASE NextDay
  BY <1>2 DEF NextDay, OneRunPerRow, Busy, JobOf
<1>3. CASE TrialClockElapses
  BY <1>3 DEF TrialClockElapses, OneRunPerRow, Busy, JobOf
<1>4. CASE CloseExpiredTrial
  BY <1>4 DEF CloseExpiredTrial, OneRunPerRow, Busy, JobOf
<1>5. CASE Upgrade
  BY <1>5 DEF Upgrade, OneRunPerRow, Busy, JobOf
<1>6. ASSUME NEW r \in Requests, NEW batch \in SUBSET Notifications, AdmitBatch(r, batch)
      PROVE  OneRunPerRow'
  BY <1>6 DEF AdmitBatch, OneRunPerRow, Busy, JobOf
<1>7. ASSUME NEW r \in Requests, InsertBatch(r) PROVE OneRunPerRow'
  BY <1>7 DEF InsertBatch, InsertRows, OneRunPerRow, Busy, JobOf
<1>8. ASSUME NEW r \in Requests, EnqueueParse(r) PROVE OneRunPerRow'
  <2>1. PICK n \in request[r].toEnqueue : jobs' = AddJob(jobs, <<n, 0>>)
    BY <1>8 DEF EnqueueParse
  <2>2. <<n, 0>> \in JobIds
    BY BoundAssumption DEF JobIds, TypeOK, Request
  <2>3. \A id \in JobIds : jobs[id].state = "active" => jobs'[id] = jobs[id]
    BY <2>1, <2>2 DEF AddJob, TypeOK
  <2>4. \A v \in Workers : Busy(v) => JobOf(v) \in JobIds
    BY JobsTyped
  <2> QED BY <1>8, <2>3, <2>4 DEF EnqueueParse, OneRunPerRow, Busy, JobOf
<1>9. ASSUME NEW r \in Requests, ReplyAccepted(r) PROVE OneRunPerRow'
  BY <1>9 DEF ReplyAccepted, OneRunPerRow, Busy, JobOf
<1>10. ASSUME NEW r \in Requests, LoseReply(r) PROVE OneRunPerRow'
  BY <1>10 DEF LoseReply, OneRunPerRow, Busy, JobOf
<1>11. ASSUME NEW r \in Requests, AbortIngest(r) PROVE OneRunPerRow'
  BY <1>11 DEF AbortIngest, OneRunPerRow, Busy, JobOf
<1>12. ASSUME NEW w \in Workers, NEW id \in JobIds, StartJob(w, id) PROVE OneRunPerRow'
  <2>1. \A v \in Workers : Busy(v) => JobOf(v) \in JobIds /\ JobOf(v) # id
    BY <1>12, JobsTyped DEF StartJob, OneRunPerRow
  <2>2. \A j \in JobIds : j # id => jobs'[j] = jobs[j]
    BY <1>12 DEF StartJob, TypeOK
  <2>3. UNCHANGED admin /\ ~Busy(w)
    BY <1>12 DEF StartJob
  <2>4. CASE UNCHANGED worker
    BY <2>1, <2>2, <2>3, <2>4 DEF OneRunPerRow, Busy, JobOf
  <2>5. CASE worker' # worker
    <3>1. /\ jobs' = [jobs EXCEPT ![id].state = "active", ![id].owner = w]
          /\ \E outcome \in {"matched", "unmatched"} :
               worker' = [worker EXCEPT ![w] = [at |-> outcome, item |-> id[1],
                                                call |-> id[2], sub |-> NewSubscription]]
      BY <1>12, <2>5 DEF StartJob
    <3>2. <<id[1], id[2]>> = id
      BY DEF JobIds
    <3>3. jobs'[id].state = "active" /\ jobs'[id].owner = w
      BY <3>1 DEF TypeOK, Job
    <3>4. \A v \in Workers : v # w => worker'[v] = worker[v]
      BY <3>1 DEF TypeOK
    <3>5. worker'[w].item = id[1] /\ worker'[w].call = id[2]
      BY <3>1 DEF TypeOK
    <3> QED
      BY <2>1, <2>2, <2>3, <3>2, <3>3, <3>4, <3>5 DEF OneRunPerRow, Busy, JobOf
  <2> QED BY <2>4, <2>5
<1>13. ASSUME NEW w \in Workers, MarkUnmatched(w) PROVE OneRunPerRow'
  <2>1. /\ \A v \in Workers : /\ worker'[v].item = worker[v].item
                              /\ worker'[v].call = worker[v].call
                              /\ worker'[v].at # "idle" => worker[v].at # "idle"
        /\ UNCHANGED <<jobs, admin>>
    BY <1>13 DEF MarkUnmatched, TypeOK, Worker
  <2>2. \A v \in Workers : Busy(v)' => Busy(v) /\ JobOf(v)' = JobOf(v)
    BY <2>1 DEF Busy, JobOf
  <2> QED BY <2>1, <2>2 DEF OneRunPerRow
<1>14. ASSUME NEW w \in Workers, ReleaseQuota(w) PROVE OneRunPerRow'
  <2>1. /\ jobs' = Completed(w)
        /\ worker' = [worker EXCEPT ![w] = IdleWorker]
        /\ UNCHANGED admin
        /\ Busy(w)
    BY <1>14 DEF ReleaseQuota, Busy
  <2>2. \A id \in JobIds : id # JobOf(w) => jobs'[id] = jobs[id]
    BY <2>1, JobsTyped DEF Completed, TypeOK
  <2> QED BY <2>1, <2>2, BusyElsewhere DEF OneRunPerRow, Busy, JobOf, IdleWorker, TypeOK
<1>15. ASSUME NEW w \in Workers, BeginCommit(w) PROVE OneRunPerRow'
  <2>1. /\ \A v \in Workers : /\ worker'[v].item = worker[v].item
                              /\ worker'[v].call = worker[v].call
                              /\ worker'[v].at # "idle" => worker[v].at # "idle"
        /\ UNCHANGED <<jobs, admin>>
    BY <1>15 DEF BeginCommit, TypeOK, Worker
  <2>2. \A v \in Workers : Busy(v)' => Busy(v) /\ JobOf(v)' = JobOf(v)
    BY <2>1 DEF Busy, JobOf
  <2> QED BY <2>1, <2>2 DEF OneRunPerRow
<1>16. ASSUME NEW w \in Workers, CommitTransaction(w) PROVE OneRunPerRow'
  <2>1. /\ \A v \in Workers : /\ worker'[v].item = worker[v].item
                              /\ worker'[v].call = worker[v].call
                              /\ worker'[v].at # "idle" => worker[v].at # "idle"
        /\ UNCHANGED <<jobs, admin>>
    BY <1>16 DEF CommitTransaction, CommitOne, TypeOK, Worker
  <2>2. \A v \in Workers : Busy(v)' => Busy(v) /\ JobOf(v)' = JobOf(v)
    BY <2>1 DEF Busy, JobOf
  <2> QED BY <2>1, <2>2 DEF OneRunPerRow
<1>17. ASSUME NEW w \in Workers, CommitRefused(w) PROVE OneRunPerRow'
  <2>1. /\ jobs' = Rejected(w)
        /\ worker' = [worker EXCEPT ![w] = IdleWorker]
        /\ UNCHANGED admin
        /\ Busy(w)
    BY <1>17 DEF CommitRefused, Busy
  <2>2. \A id \in JobIds : id # JobOf(w) => jobs'[id] = jobs[id]
    BY <2>1, JobsTyped DEF Rejected, TypeOK
  <2> QED BY <2>1, <2>2, BusyElsewhere DEF OneRunPerRow, Busy, JobOf, IdleWorker, TypeOK
<1>18. ASSUME NEW w \in Workers, PublishTransaction(w) PROVE OneRunPerRow'
  <2>1. /\ jobs' = Completed(w)
        /\ worker' = [worker EXCEPT ![w] = IdleWorker]
        /\ UNCHANGED admin
        /\ Busy(w)
    BY <1>18 DEF PublishTransaction, Busy
  <2>2. \A id \in JobIds : id # JobOf(w) => jobs'[id] = jobs[id]
    BY <2>1, JobsTyped DEF Completed, TypeOK
  <2> QED BY <2>1, <2>2, BusyElsewhere DEF OneRunPerRow, Busy, JobOf, IdleWorker, TypeOK
<1>19. ASSUME NEW w \in Workers, FailAttempt(w) PROVE OneRunPerRow'
  <2>1. /\ jobs' = Rejected(w)
        /\ worker' = [worker EXCEPT ![w] = IdleWorker]
        /\ UNCHANGED admin
        /\ Busy(w)
    BY <1>19 DEF FailAttempt, Busy
  <2>2. \A id \in JobIds : id # JobOf(w) => jobs'[id] = jobs[id]
    BY <2>1, JobsTyped DEF Rejected, TypeOK
  <2> QED BY <2>1, <2>2, BusyElsewhere DEF OneRunPerRow, Busy, JobOf, IdleWorker, TypeOK
<1>20. ASSUME NEW w \in Workers, CrashWorker(w) PROVE OneRunPerRow'
  <2>1. /\ jobs' = Stalled(w)
        /\ worker' = [worker EXCEPT ![w] = IdleWorker]
        /\ UNCHANGED admin
        /\ Busy(w)
    BY <1>20 DEF CrashWorker, Busy
  <2>2. \A id \in JobIds : id # JobOf(w) => jobs'[id] = jobs[id]
    BY <2>1, JobsTyped DEF Stalled, TypeOK
  <2> QED BY <2>1, <2>2, BusyElsewhere DEF OneRunPerRow, Busy, JobOf, IdleWorker, TypeOK
<1>21. ASSUME NEW w \in Workers, LoseLock(w) PROVE OneRunPerRow'
  BY <1>21 DEF LoseLock, NoReruns, TypeOK
<1>22. ASSUME NEW a \in Admins, NEW rows \in SUBSET Notifications, SelectUnmatched(a, rows)
      PROVE  OneRunPerRow'
  BY <1>22 DEF SelectUnmatched, NoReruns, TypeOK
<1>23. ASSUME NEW a \in Admins, ResetToPending(a) PROVE OneRunPerRow'
  BY <1>23 DEF ResetToPending, OneRunPerRow
<1>24. ASSUME NEW a \in Admins, EnqueueReprocess(a) PROVE OneRunPerRow'
  BY <1>24 DEF EnqueueReprocess, OneRunPerRow
<1>25. ASSUME NEW a \in Admins, AbortReprocess(a) PROVE OneRunPerRow'
  BY <1>25 DEF AbortReprocess, OneRunPerRow
<1>26. CASE UNCHANGED vars
  BY <1>26 DEF vars, OneRunPerRow, Busy, JobOf
<1> QED
  BY <1>1, <1>2, <1>3, <1>4, <1>5, <1>6, <1>7, <1>8, <1>9, <1>10, <1>11, <1>12, <1>13, <1>14,
     <1>15, <1>16, <1>17, <1>18, <1>19, <1>20, <1>21, <1>22, <1>23, <1>24, <1>25, <1>26
     DEF Next, Environment, Ingest, Parse, ParseStep, Reprocess

-----------------------------------------------------------------------------
(* Statuses and reservations *)

(* An insertion leaves the status and the day of the stored rows alone.     *)
LEMMA InsertLeavesStored ==
  ASSUME TypeOK, NEW r \in Requests, InsertBatch(r)
  PROVE  /\ \A n \in Notifications : Stored(n) =>
              parseStatus'[n] = parseStatus[n] /\ quotaWindow'[n] = quotaWindow[n]
         /\ UNCHANGED <<subscription, transactions, dayUsed, totalUsed, jobs, worker, admin>>
<1>1. PICK kept \in SUBSET New(r) : InsertRows(r, kept)
  BY DEF InsertBatch
<1>2. \A n \in Notifications : Stored(n) => n \notin kept
  BY DEF New, Stored
<1> QED
  BY <1>1, <1>2 DEF InsertRows, ReserveQuota, TypeOK

(* The status of a row changes only with the run that handles it.           *)
LEMMA StatusStep ==
  ASSUME NoReruns, TypeOK, OnlyStoredRows, OneRunPerRow, StatusFollowsRun, [Next]_vars
  PROVE  StatusFollowsRun'
<1>1. ASSUME NEW n \in Notifications, Capture(n) PROVE StatusFollowsRun'
  BY <1>1 DEF Capture, StatusFollowsRun, TransactionIsParsed, buckets
<1>2. CASE NextDay
  BY <1>2 DEF NextDay, StatusFollowsRun, TransactionIsParsed, buckets
<1>3. CASE TrialClockElapses
  BY <1>3 DEF TrialClockElapses, StatusFollowsRun, TransactionIsParsed, buckets
<1>4. CASE CloseExpiredTrial
  BY <1>4 DEF CloseExpiredTrial, StatusFollowsRun, TransactionIsParsed, buckets
<1>5. CASE Upgrade
  BY <1>5 DEF Upgrade, StatusFollowsRun, TransactionIsParsed, buckets
<1>6. ASSUME NEW r \in Requests, NEW batch \in SUBSET Notifications, AdmitBatch(r, batch)
      PROVE  StatusFollowsRun'
  BY <1>6 DEF AdmitBatch, StatusFollowsRun, TransactionIsParsed, buckets
<1>7. ASSUME NEW r \in Requests, InsertBatch(r) PROVE StatusFollowsRun'
  BY <1>7, InsertLeavesStored DEF StatusFollowsRun, TransactionIsParsed, OnlyStoredRows, Busy, TypeOK
<1>8. ASSUME NEW r \in Requests, EnqueueParse(r) PROVE StatusFollowsRun'
  BY <1>8 DEF EnqueueParse, StatusFollowsRun, TransactionIsParsed, buckets
<1>9. ASSUME NEW r \in Requests, ReplyAccepted(r) PROVE StatusFollowsRun'
  BY <1>9 DEF ReplyAccepted, StatusFollowsRun, TransactionIsParsed, buckets
<1>10. ASSUME NEW r \in Requests, LoseReply(r) PROVE StatusFollowsRun'
  BY <1>10 DEF LoseReply, StatusFollowsRun, TransactionIsParsed, buckets
<1>11. ASSUME NEW r \in Requests, AbortIngest(r) PROVE StatusFollowsRun'
  BY <1>11 DEF AbortIngest, StatusFollowsRun, TransactionIsParsed, buckets
<1>12. ASSUME NEW w \in Workers, NEW id \in JobIds, StartJob(w, id)
      PROVE  StatusFollowsRun'
  BY <1>12 DEF StartJob, StillPending, StatusFollowsRun, TransactionIsParsed, TypeOK, JobIds
<1>13. ASSUME NEW w \in Workers, MarkUnmatched(w) PROVE StatusFollowsRun'
  <2>1. /\ parseStatus' = [parseStatus EXCEPT ![worker[w].item] = "UNMATCHED"]
        /\ worker[w].item \in Notifications
        /\ \A v \in Workers : worker'[v].item = worker[v].item
        /\ \A v \in Workers : v # w => worker'[v].at = worker[v].at
        /\ worker'[w].at = "release"
    BY <1>13 DEF MarkUnmatched, TypeOK, Worker, Busy
  <2>2. \A v \in Workers : v # w /\ worker[v].at # "idle" => worker[v].item # worker[w].item
    BY <1>13, DistinctItems DEF MarkUnmatched, Busy
  <2>3. UNCHANGED transactions /\ worker[w].item \notin transactions
    BY <1>13 DEF MarkUnmatched, StatusFollowsRun, TransactionIsParsed
  <2> QED BY <2>1, <2>2, <2>3 DEF StatusFollowsRun, TransactionIsParsed, TypeOK
<1>14. ASSUME NEW w \in Workers, ReleaseQuota(w) PROVE StatusFollowsRun'
  <2>1. /\ UNCHANGED <<parseStatus, transactions>>
        /\ worker' = [worker EXCEPT ![w] = IdleWorker]
    BY <1>14 DEF ReleaseQuota
  <2> QED BY <2>1 DEF StatusFollowsRun, TransactionIsParsed, IdleWorker, TypeOK
<1>15. ASSUME NEW w \in Workers, BeginCommit(w) PROVE StatusFollowsRun'
  BY <1>15 DEF BeginCommit, StatusFollowsRun, TransactionIsParsed, TypeOK, Worker
<1>16. ASSUME NEW w \in Workers, CommitTransaction(w) PROVE StatusFollowsRun'
  <2>1. /\ parseStatus' = [parseStatus EXCEPT ![worker[w].item] = "PARSED"]
        /\ worker[w].item \in Notifications
        /\ \A v \in Workers : worker'[v].item = worker[v].item
        /\ \A v \in Workers : v # w => worker'[v].at = worker[v].at
        /\ worker'[w].at = "publish"
    BY <1>16 DEF CommitTransaction, CommitOne, TypeOK, Worker, Busy
  <2>2. \A v \in Workers : v # w /\ worker[v].at # "idle" => worker[v].item # worker[w].item
    BY <1>16, DistinctItems DEF CommitTransaction, CommitOne, Busy
  <2>3. transactions' = transactions \cup {worker[w].item}
    BY <1>16 DEF CommitTransaction, CommitOne, StatusFollowsRun, TransactionIsParsed
  <2> QED BY <2>1, <2>2, <2>3 DEF StatusFollowsRun, TransactionIsParsed, TypeOK
<1>17. ASSUME NEW w \in Workers, CommitRefused(w) PROVE StatusFollowsRun'
  <2>1. /\ UNCHANGED <<parseStatus, transactions>>
        /\ worker' = [worker EXCEPT ![w] = IdleWorker]
    BY <1>17 DEF CommitRefused
  <2> QED BY <2>1 DEF StatusFollowsRun, TransactionIsParsed, IdleWorker, TypeOK
<1>18. ASSUME NEW w \in Workers, PublishTransaction(w) PROVE StatusFollowsRun'
  <2>1. /\ UNCHANGED <<parseStatus, transactions>>
        /\ worker' = [worker EXCEPT ![w] = IdleWorker]
    BY <1>18 DEF PublishTransaction
  <2> QED BY <2>1 DEF StatusFollowsRun, TransactionIsParsed, IdleWorker, TypeOK
<1>19. ASSUME NEW w \in Workers, FailAttempt(w) PROVE StatusFollowsRun'
  <2>1. /\ UNCHANGED <<parseStatus, transactions>>
        /\ worker' = [worker EXCEPT ![w] = IdleWorker]
    BY <1>19 DEF FailAttempt
  <2> QED BY <2>1 DEF StatusFollowsRun, TransactionIsParsed, IdleWorker, TypeOK
<1>20. ASSUME NEW w \in Workers, CrashWorker(w) PROVE StatusFollowsRun'
  <2>1. /\ UNCHANGED <<parseStatus, transactions>>
        /\ worker' = [worker EXCEPT ![w] = IdleWorker]
    BY <1>20 DEF CrashWorker
  <2> QED BY <2>1 DEF StatusFollowsRun, TransactionIsParsed, IdleWorker, TypeOK
<1>21. ASSUME NEW w \in Workers, LoseLock(w) PROVE StatusFollowsRun'
  BY <1>21 DEF LoseLock, StatusFollowsRun, TransactionIsParsed, buckets
<1>22. ASSUME NEW a \in Admins, NEW rows \in SUBSET Notifications, SelectUnmatched(a, rows)
      PROVE  StatusFollowsRun'
  BY <1>22 DEF SelectUnmatched, StatusFollowsRun, TransactionIsParsed, buckets
<1>23. ASSUME NEW a \in Admins, ResetToPending(a) PROVE StatusFollowsRun'
  BY <1>23 DEF ResetToPending, OneRunPerRow
<1>24. ASSUME NEW a \in Admins, EnqueueReprocess(a) PROVE StatusFollowsRun'
  BY <1>24 DEF EnqueueReprocess, OneRunPerRow
<1>25. ASSUME NEW a \in Admins, AbortReprocess(a) PROVE StatusFollowsRun'
  BY <1>25 DEF AbortReprocess, StatusFollowsRun, TransactionIsParsed, buckets
<1>26. CASE UNCHANGED vars
  BY <1>26 DEF vars, StatusFollowsRun, TransactionIsParsed
<1> QED
  BY <1>1, <1>2, <1>3, <1>4, <1>5, <1>6, <1>7, <1>8, <1>9, <1>10, <1>11, <1>12, <1>13, <1>14,
     <1>15, <1>16, <1>17, <1>18, <1>19, <1>20, <1>21, <1>22, <1>23, <1>24, <1>25, <1>26
     DEF Next, Environment, Ingest, Parse, ParseStep, Reprocess

(* Reservations exist for stored rows only, and for the rows a commit of the*)
(* trial is about.                                                          *)
LEMMA ReservedStep ==
  ASSUME NoReruns, TypeOK, OnlyStoredRows, TrialRowsReserved, OneRunPerRow, TrialCommitReserved, AbsentUnreserved, [Next]_vars
  PROVE  TrialCommitReserved' /\ AbsentUnreserved'
<1>1. ASSUME NEW n \in Notifications, Capture(n)
      PROVE  TrialCommitReserved' /\ AbsentUnreserved'
  BY <1>1 DEF Capture, TrialCommitReserved, AbsentUnreserved, Stored, buckets
<1>2. CASE NextDay
  BY <1>2 DEF NextDay, TrialCommitReserved, AbsentUnreserved, Stored, buckets
<1>3. CASE TrialClockElapses
  BY <1>3 DEF TrialClockElapses, TrialCommitReserved, AbsentUnreserved, Stored, buckets
<1>4. CASE CloseExpiredTrial
  BY <1>4 DEF CloseExpiredTrial, TrialCommitReserved, AbsentUnreserved, Stored, buckets
<1>5. CASE Upgrade
  BY <1>5 DEF Upgrade, TrialCommitReserved, AbsentUnreserved, Stored, buckets
<1>6. ASSUME NEW r \in Requests, NEW batch \in SUBSET Notifications, AdmitBatch(r, batch)
      PROVE  TrialCommitReserved' /\ AbsentUnreserved'
  BY <1>6 DEF AdmitBatch, TrialCommitReserved, AbsentUnreserved, Stored, buckets
<1>7. ASSUME NEW r \in Requests, InsertBatch(r)
      PROVE  TrialCommitReserved' /\ AbsentUnreserved'
  <2>1. TrialCommitReserved'
    BY <1>7, InsertLeavesStored DEF TrialCommitReserved, OnlyStoredRows, Busy, TypeOK
  <2>2. PICK kept \in SUBSET New(r) : InsertRows(r, kept)
    BY <1>7 DEF InsertBatch
  <2>3. \A n \in Notifications : n \notin kept => quotaWindow'[n] = quotaWindow[n]
    BY <2>2 DEF InsertRows, ReserveQuota
  <2>4. parseStatus' = [n \in Notifications |->
                          IF n \in kept THEN "PENDING" ELSE parseStatus[n]]
    BY <2>2 DEF InsertRows
  <2> QED BY <2>1, <2>3, <2>4 DEF AbsentUnreserved, Stored
<1>8. ASSUME NEW r \in Requests, EnqueueParse(r)
      PROVE  TrialCommitReserved' /\ AbsentUnreserved'
  BY <1>8 DEF EnqueueParse, TrialCommitReserved, AbsentUnreserved, Stored, buckets
<1>9. ASSUME NEW r \in Requests, ReplyAccepted(r)
      PROVE  TrialCommitReserved' /\ AbsentUnreserved'
  BY <1>9 DEF ReplyAccepted, TrialCommitReserved, AbsentUnreserved, Stored, buckets
<1>10. ASSUME NEW r \in Requests, LoseReply(r)
      PROVE  TrialCommitReserved' /\ AbsentUnreserved'
  BY <1>10 DEF LoseReply, TrialCommitReserved, AbsentUnreserved, Stored, buckets
<1>11. ASSUME NEW r \in Requests, AbortIngest(r)
      PROVE  TrialCommitReserved' /\ AbsentUnreserved'
  BY <1>11 DEF AbortIngest, TrialCommitReserved, AbsentUnreserved, Stored, buckets
<1>12. ASSUME NEW w \in Workers, NEW id \in JobIds, StartJob(w, id)
      PROVE  TrialCommitReserved' /\ AbsentUnreserved'
  BY <1>12 DEF StartJob, TrialCommitReserved, AbsentUnreserved, Stored, TypeOK
<1>13. ASSUME NEW w \in Workers, MarkUnmatched(w)
      PROVE  TrialCommitReserved' /\ AbsentUnreserved'
  BY <1>13 DEF MarkUnmatched, TrialCommitReserved, AbsentUnreserved, Stored, TypeOK, Worker, IdleWorker, Busy, buckets
<1>14. ASSUME NEW w \in Workers, ReleaseQuota(w)
      PROVE  TrialCommitReserved' /\ AbsentUnreserved'
  BY <1>14 DEF ReleaseQuota, TrialCommitReserved, AbsentUnreserved, Stored, TypeOK, Worker, IdleWorker, Busy, buckets
<1>15. ASSUME NEW w \in Workers, BeginCommit(w)
      PROVE  TrialCommitReserved' /\ AbsentUnreserved'
  BY <1>15 DEF BeginCommit, TrialCommitReserved, AbsentUnreserved, Stored, TypeOK, Worker, TrialRowsReserved, OnlyStoredRows, Busy
<1>16. ASSUME NEW w \in Workers, CommitTransaction(w)
      PROVE  TrialCommitReserved' /\ AbsentUnreserved'
  BY <1>16 DEF CommitTransaction, CommitOne, TrialCommitReserved, AbsentUnreserved, Stored, TypeOK, Worker, IdleWorker, Busy, buckets
<1>17. ASSUME NEW w \in Workers, CommitRefused(w)
      PROVE  TrialCommitReserved' /\ AbsentUnreserved'
  BY <1>17 DEF CommitRefused, TrialCommitReserved, AbsentUnreserved, Stored, TypeOK, Worker, IdleWorker, Busy, buckets
<1>18. ASSUME NEW w \in Workers, PublishTransaction(w)
      PROVE  TrialCommitReserved' /\ AbsentUnreserved'
  BY <1>18 DEF PublishTransaction, TrialCommitReserved, AbsentUnreserved, Stored, TypeOK, Worker, IdleWorker, Busy, buckets
<1>19. ASSUME NEW w \in Workers, FailAttempt(w)
      PROVE  TrialCommitReserved' /\ AbsentUnreserved'
  BY <1>19 DEF FailAttempt, TrialCommitReserved, AbsentUnreserved, Stored, TypeOK, Worker, IdleWorker, Busy, buckets
<1>20. ASSUME NEW w \in Workers, CrashWorker(w)
      PROVE  TrialCommitReserved' /\ AbsentUnreserved'
  BY <1>20 DEF CrashWorker, TrialCommitReserved, AbsentUnreserved, Stored, TypeOK, Worker, IdleWorker, Busy, buckets
<1>21. ASSUME NEW w \in Workers, LoseLock(w)
      PROVE  TrialCommitReserved' /\ AbsentUnreserved'
  BY <1>21 DEF LoseLock, TrialCommitReserved, AbsentUnreserved, Stored, buckets
<1>22. ASSUME NEW a \in Admins, NEW rows \in SUBSET Notifications, SelectUnmatched(a, rows)
      PROVE  TrialCommitReserved' /\ AbsentUnreserved'
  BY <1>22 DEF SelectUnmatched, TrialCommitReserved, AbsentUnreserved, Stored, buckets
<1>23. ASSUME NEW a \in Admins, ResetToPending(a)
      PROVE  TrialCommitReserved' /\ AbsentUnreserved'
  BY <1>23 DEF ResetToPending, OneRunPerRow
<1>24. ASSUME NEW a \in Admins, EnqueueReprocess(a)
      PROVE  TrialCommitReserved' /\ AbsentUnreserved'
  BY <1>24 DEF EnqueueReprocess, OneRunPerRow
<1>25. ASSUME NEW a \in Admins, AbortReprocess(a)
      PROVE  TrialCommitReserved' /\ AbsentUnreserved'
  BY <1>25 DEF AbortReprocess, TrialCommitReserved, AbsentUnreserved, Stored, buckets
<1>26. CASE UNCHANGED vars
  BY <1>26 DEF vars, TrialCommitReserved, AbsentUnreserved, Stored
<1> QED
  BY <1>1, <1>2, <1>3, <1>4, <1>5, <1>6, <1>7, <1>8, <1>9, <1>10, <1>11, <1>12, <1>13, <1>14,
     <1>15, <1>16, <1>17, <1>18, <1>19, <1>20, <1>21, <1>22, <1>23, <1>24, <1>25, <1>26
     DEF Next, Environment, Ingest, Parse, ParseStep, Reprocess

-----------------------------------------------------------------------------
(* Units *)

(* The rows still to be settled can be counted.                             *)
LEMMA HeldFinite ==
  ASSUME TypeOK
  PROVE  /\ IsFiniteSet(Held) /\ Cardinality(Held) \in Nat
         /\ \A d \in Days : IsFiniteSet(HeldOn(d)) /\ Cardinality(HeldOn(d)) \in Nat
<1>1. Held \in SUBSET Notifications /\ \A d \in Days : HeldOn(d) \in SUBSET Notifications
  BY DEF Held, HeldOn
<1> QED BY <1>1, SubsetsAreFinite

(* A set grows by at most the elements added to it.                         *)
LEMMA CardinalityAdded ==
  ASSUME NEW S, NEW T, NEW U, IsFiniteSet(S), IsFiniteSet(T), U \subseteq S \cup T,
         \A x \in T : x \notin S
  PROVE  Cardinality(U) <= Cardinality(S) + Cardinality(T) /\ Cardinality(U) \in Nat
<1>1. S \cap T = {}
  OBVIOUS
<1>2. /\ IsFiniteSet(S \cup T)
      /\ Cardinality(S \cup T) = Cardinality(S) + Cardinality(T)
  <2>1. Cardinality(S) \in Nat /\ Cardinality(T) \in Nat
    BY FS_CardinalityType
  <2>2. Cardinality(S \cap T) = 0
    BY <1>1, FS_EmptySet
  <2>3. /\ IsFiniteSet(S \cup T)
        /\ Cardinality(S \cup T) = Cardinality(S) + Cardinality(T) - Cardinality(S \cap T)
    BY FS_Union
  <2> QED BY <2>1, <2>2, <2>3
<1> QED BY <1>2, FS_Subset, FS_CardinalityType

(* A step that leaves the buckets alone and adds no row to be settled.      *)
LEMMA UnitsFrame ==
  ASSUME TypeOK, UnitsHeld, QuotaWithinLimits, Held' \subseteq Held,
         UNCHANGED <<quotaWindow, dayUsed, dayReserved, totalUsed, totalReserved>>
  PROVE  UnitsHeld' /\ QuotaWithinLimits'
<1>1. Cardinality(Held') <= Cardinality(Held) /\ Cardinality(Held') \in Nat
  BY HeldFinite, FS_Subset, FS_CardinalityType
<1>2. ASSUME NEW d \in Days
      PROVE  Cardinality(HeldOn(d)') <= Cardinality(HeldOn(d)) /\ Cardinality(HeldOn(d)') \in Nat
  <2>1. HeldOn(d)' \subseteq HeldOn(d)
    BY DEF HeldOn
  <2> QED BY <2>1, HeldFinite, FS_Subset, FS_CardinalityType
<1> QED
  BY <1>1, <1>2, HeldFinite DEF UnitsHeld, QuotaWithinLimits, TypeOK

(* A step that settles one row, by a commit or a release: the unit it gives *)
(* up is there, and the other rows keep theirs.                             *)
LEMMA UnitSettled ==
  ASSUME TypeOK, UnitsHeld, NEW n \in Held, Held' \subseteq Held \ {n},
         UNCHANGED quotaWindow,
         dayReserved' = [dayReserved EXCEPT ![quotaWindow[n]] = OneLess(@)],
         totalReserved' = OneLess(totalReserved)
  PROVE  /\ UnitsHeld'
         /\ quotaWindow[n] \in Days
         /\ totalReserved' = totalReserved - 1 /\ totalReserved' \in Nat
         /\ dayReserved' = [dayReserved EXCEPT ![quotaWindow[n]] = @ - 1]
         /\ dayReserved' \in [Days -> Nat]
<1> DEFINE day == quotaWindow[n]
<1>1. n \in Notifications /\ day \in Days
  BY DEF Held, TypeOK
<1>2. /\ Cardinality(Held \ {n}) = Cardinality(Held) - 1
      /\ Cardinality(Held') <= Cardinality(Held) - 1
      /\ Cardinality(Held') \in Nat
  <2>1. IsFiniteSet(Held \ {n}) /\ Cardinality(Held \ {n}) = Cardinality(Held) - 1
    BY HeldFinite, FS_RemoveElement
  <2> QED BY <2>1, FS_Subset, FS_CardinalityType
<1>3. totalReserved >= 1 /\ totalReserved \in Nat
  BY <1>2, HeldFinite DEF UnitsHeld, TypeOK
<1>4. totalReserved' = totalReserved - 1 /\ totalReserved' >= Cardinality(Held')
  BY <1>2, <1>3, HeldFinite DEF OneLess, UnitsHeld
<1>5. n \in HeldOn(day)
  BY DEF HeldOn
<1>6. /\ Cardinality(HeldOn(day)') <= Cardinality(HeldOn(day)) - 1
      /\ Cardinality(HeldOn(day)') \in Nat
  <2>1. /\ IsFiniteSet(HeldOn(day) \ {n})
        /\ Cardinality(HeldOn(day) \ {n}) = Cardinality(HeldOn(day)) - 1
    BY <1>1, <1>5, HeldFinite, FS_RemoveElement
  <2>2. HeldOn(day)' \subseteq HeldOn(day) \ {n}
    BY DEF HeldOn
  <2> QED BY <2>1, <2>2, FS_Subset, FS_CardinalityType
<1>7. dayReserved[day] >= 1 /\ dayReserved \in [Days -> Nat]
  BY <1>1, <1>6, HeldFinite DEF UnitsHeld, TypeOK
<1>8. dayReserved' = [dayReserved EXCEPT ![day] = @ - 1] /\ dayReserved' \in [Days -> Nat]
  <2>1. OneLess(dayReserved[day]) = dayReserved[day] - 1 /\ dayReserved[day] - 1 \in Nat
    BY <1>1, <1>7 DEF OneLess
  <2> QED BY <1>1, <1>7, <2>1
<1>9. ASSUME NEW d \in Days PROVE dayReserved'[d] >= Cardinality(HeldOn(d)')
  <2>1. CASE d = day
    BY <1>1, <1>6, <1>7, <1>8, <2>1, HeldFinite DEF UnitsHeld
  <2>2. CASE d # day
    <3>1. HeldOn(d)' \subseteq HeldOn(d)
      BY DEF HeldOn
    <3>2. Cardinality(HeldOn(d)') <= Cardinality(HeldOn(d)) /\ Cardinality(HeldOn(d)') \in Nat
      BY <3>1, HeldFinite, FS_Subset, FS_CardinalityType
    <3>3. dayReserved'[d] = dayReserved[d] /\ dayReserved[d] \in Nat
      BY <1>7, <1>8, <2>2
    <3> QED BY <3>2, <3>3, HeldFinite DEF UnitsHeld
  <2> QED BY <2>1, <2>2
<1>10. UnitsHeld'
  BY <1>4, <1>9 DEF UnitsHeld
<1>11. totalReserved' \in Nat
  BY <1>3, <1>4
<1> QED BY <1>1, <1>4, <1>8, <1>10, <1>11

(* A step that settles a row as a commit does: one unit moves from reserved *)
(* to used.                                                                 *)
LEMMA UnitUsed ==
  ASSUME TypeOK, UnitsHeld, QuotaWithinLimits, NEW n \in Held, Held' \subseteq Held \ {n},
         UNCHANGED quotaWindow,
         dayReserved' = [dayReserved EXCEPT ![quotaWindow[n]] = OneLess(@)],
         totalReserved' = OneLess(totalReserved),
         dayUsed' = [dayUsed EXCEPT ![quotaWindow[n]] = @ + 1],
         totalUsed' = totalUsed + 1
  PROVE  UnitsHeld' /\ QuotaWithinLimits'
<1> DEFINE day == quotaWindow[n]
<1>1. /\ UnitsHeld'
      /\ day \in Days
      /\ totalReserved' = totalReserved - 1
      /\ dayReserved' = [dayReserved EXCEPT ![day] = @ - 1]
  BY UnitSettled
<1>2. totalUsed' + totalReserved' <= TotalLimit
  BY <1>1 DEF QuotaWithinLimits, TypeOK
<1>3. ASSUME NEW d \in Days PROVE dayUsed'[d] + dayReserved'[d] <= DailyLimit
  <2>1. dayUsed[d] \in Nat /\ dayReserved[d] \in Nat /\ dayUsed[d] + dayReserved[d] <= DailyLimit
    BY DEF QuotaWithinLimits, TypeOK
  <2>2. CASE d = day
    BY <1>1, <2>1, <2>2 DEF TypeOK
  <2>3. CASE d # day
    BY <1>1, <2>1, <2>3 DEF TypeOK
  <2> QED BY <2>2, <2>3
<1> QED BY <1>1, <1>2, <1>3 DEF QuotaWithinLimits

(* A step that settles a row as a release does.                             *)
LEMMA UnitGivenBack ==
  ASSUME TypeOK, UnitsHeld, QuotaWithinLimits, NEW n \in Held, Held' \subseteq Held \ {n},
         UNCHANGED <<quotaWindow, dayUsed, totalUsed>>,
         dayReserved' = [dayReserved EXCEPT ![quotaWindow[n]] = OneLess(@)],
         totalReserved' = OneLess(totalReserved)
  PROVE  UnitsHeld' /\ QuotaWithinLimits'
<1> DEFINE day == quotaWindow[n]
<1>1. /\ UnitsHeld'
      /\ day \in Days
      /\ totalReserved' = totalReserved - 1
      /\ dayReserved' = [dayReserved EXCEPT ![day] = @ - 1]
  BY UnitSettled
<1>2. totalUsed' + totalReserved' <= TotalLimit
  BY <1>1, BoundAssumption DEF QuotaWithinLimits, TypeOK
<1>3. ASSUME NEW d \in Days PROVE dayUsed'[d] + dayReserved'[d] <= DailyLimit
  <2>1. dayUsed[d] \in Nat /\ dayReserved[d] \in Nat /\ dayUsed[d] + dayReserved[d] <= DailyLimit
    BY DEF QuotaWithinLimits, TypeOK
  <2>2. CASE d = day
    BY <1>1, <2>1, <2>2, BoundAssumption DEF TypeOK
  <2>3. CASE d # day
    BY <1>1, <2>1, <2>3 DEF TypeOK
  <2> QED BY <2>2, <2>3
<1> QED BY <1>1, <1>2, <1>3 DEF QuotaWithinLimits

(* What an ingest transaction adds fits in the day and in the total.        *)
LEMMA UnitsReserved ==
  ASSUME QuotaInv, NEW r \in Requests, InsertBatch(r)
  PROVE  UnitsHeld' /\ QuotaWithinLimits'
<1>1. PICK kept \in SUBSET New(r) : InsertRows(r, kept)
  BY DEF InsertBatch
<1>2. TypeOK /\ UnitsHeld /\ QuotaWithinLimits
  BY DEF QuotaInv
<1>3. New(r) \in SUBSET Notifications /\ kept \in SUBSET Notifications
  BY <1>2 DEF New, TypeOK, Request
<1>4. /\ UNCHANGED <<worker, dayUsed, totalUsed>>
      /\ parseStatus' = [n \in Notifications |->
                            IF n \in kept THEN "PENDING" ELSE parseStatus[n]]
  BY <1>1 DEF InsertRows
<1>5. \A n \in kept : parseStatus[n] = "absent" /\ quotaWindow[n] = NoDay /\ n \notin Held
  BY <1>1, <1>3 DEF New, QuotaInv, AbsentUnreserved, Stored, Held
<1>6. CASE subscription.plan # "TRIAL"
  <2>1. UNCHANGED <<quotaWindow, dayReserved, totalReserved>>
    BY <1>1, <1>6 DEF InsertRows, ReserveQuota
  <2>2. Held' \subseteq Held
    BY <1>4, <1>5, <2>1 DEF Held, Releasing
  <2> QED BY <1>2, <1>4, <2>1, <2>2, UnitsFrame
<1>7. CASE subscription.plan = "TRIAL"
  <2> DEFINE k == Cardinality(kept)
  <2>1. k \in Nat /\ IsFiniteSet(kept) /\ Cardinality(New(r)) \in Nat
    BY <1>3, SubsetsAreFinite
  <2>2. /\ k = Granted(Cardinality(New(r)))
        /\ quotaWindow' = [n \in Notifications |-> IF n \in kept THEN today ELSE quotaWindow[n]]
        /\ dayReserved' = [dayReserved EXCEPT ![today] = @ + k]
        /\ totalReserved' = totalReserved + k
    BY <1>1, <1>7 DEF InsertRows, ReserveQuota
  <2>3. \/ k = 0
        \/ /\ dayUsed[today] + dayReserved[today] + k <= DailyLimit
           /\ totalUsed + totalReserved + k <= TotalLimit
    BY <1>2, <2>1, <2>2, GrantFits
  <2> HIDE DEF k
  <2>4. QuotaWithinLimits'
    <3>1. totalUsed' + totalReserved' <= TotalLimit
      BY <1>2, <1>4, <2>1, <2>2, <2>3 DEF QuotaWithinLimits, TypeOK
    <3>2. ASSUME NEW d \in Days PROVE dayUsed'[d] + dayReserved'[d] <= DailyLimit
      <4>1. /\ dayUsed'[d] = dayUsed[d] /\ dayUsed[d] \in Nat /\ dayReserved[d] \in Nat
            /\ dayReserved'[d] = IF d = today THEN dayReserved[d] + k ELSE dayReserved[d]
            /\ dayUsed[d] + dayReserved[d] <= DailyLimit
        BY <1>2, <1>4, <2>2 DEF QuotaWithinLimits, TypeOK
      <4> QED BY <2>1, <2>3, <4>1
    <3> QED BY <3>1, <3>2 DEF QuotaWithinLimits
  <2>5. Held' \subseteq Held \cup kept
    BY <1>4, <2>2 DEF Held, Releasing
  <2>6. /\ Cardinality(Held') <= Cardinality(Held) + k
        /\ Cardinality(Held') \in Nat
    BY <1>2, <1>5, <2>1, <2>5, HeldFinite, CardinalityAdded DEF k
  <2>7. ASSUME NEW d \in Days PROVE dayReserved'[d] >= Cardinality(HeldOn(d)')
    <3>1. CASE d = today
      <4>1. HeldOn(d)' \subseteq HeldOn(d) \cup kept /\ \A n \in kept : n \notin HeldOn(d)
        BY <1>5, <2>2, <2>5 DEF HeldOn, Held
      <4>2. /\ Cardinality(HeldOn(d)') <= Cardinality(HeldOn(d)) + k
            /\ Cardinality(HeldOn(d)') \in Nat
        BY <1>2, <2>1, <4>1, HeldFinite, CardinalityAdded DEF k
      <4> QED BY <1>2, <2>1, <2>2, <3>1, <4>2, HeldFinite DEF UnitsHeld, TypeOK
    <3>2. CASE d # today
      <4>1. HeldOn(d)' \subseteq HeldOn(d)
        BY <1>4, <2>2, <2>5, <3>2 DEF HeldOn, Held
      <4>2. Cardinality(HeldOn(d)') <= Cardinality(HeldOn(d)) /\ Cardinality(HeldOn(d)') \in Nat
        BY <1>2, <4>1, HeldFinite, FS_Subset, FS_CardinalityType
      <4> QED BY <1>2, <2>2, <3>2, <4>2, HeldFinite DEF UnitsHeld, TypeOK
    <3> QED BY <3>1, <3>2
  <2> QED
    BY <1>2, <2>1, <2>2, <2>4, <2>6, <2>7, HeldFinite DEF UnitsHeld, TypeOK
<1> QED BY <1>6, <1>7

(* Every step keeps a unit for every row still to be settled and the buckets*)
(* within their limits.                                                     *)
LEMMA UnitsStep ==
  ASSUME NoReruns, QuotaInv, [Next]_vars
  PROVE  UnitsHeld' /\ QuotaWithinLimits'
<1>1. ASSUME NEW n \in Notifications, Capture(n) PROVE UnitsHeld' /\ QuotaWithinLimits'
  <2>1. UNCHANGED <<parseStatus, quotaWindow, worker, buckets>>
    BY <1>1 DEF Capture
  <2> QED BY <2>1, UnitsFrame DEF QuotaInv, Held, Releasing, buckets
<1>2. CASE NextDay
  <2>1. UNCHANGED <<parseStatus, quotaWindow, worker, buckets>>
    BY <1>2 DEF NextDay
  <2> QED BY <2>1, UnitsFrame DEF QuotaInv, Held, Releasing, buckets
<1>3. CASE TrialClockElapses
  <2>1. UNCHANGED <<parseStatus, quotaWindow, worker, buckets>>
    BY <1>3 DEF TrialClockElapses
  <2> QED BY <2>1, UnitsFrame DEF QuotaInv, Held, Releasing, buckets
<1>4. CASE CloseExpiredTrial
  <2>1. UNCHANGED <<parseStatus, quotaWindow, worker, buckets>>
    BY <1>4 DEF CloseExpiredTrial
  <2> QED BY <2>1, UnitsFrame DEF QuotaInv, Held, Releasing, buckets
<1>5. CASE Upgrade
  <2>1. UNCHANGED <<parseStatus, quotaWindow, worker, buckets>>
    BY <1>5 DEF Upgrade
  <2> QED BY <2>1, UnitsFrame DEF QuotaInv, Held, Releasing, buckets
<1>6. ASSUME NEW r \in Requests, NEW batch \in SUBSET Notifications, AdmitBatch(r, batch)
      PROVE  UnitsHeld' /\ QuotaWithinLimits'
  <2>1. UNCHANGED <<parseStatus, quotaWindow, worker, buckets>>
    BY <1>6 DEF AdmitBatch
  <2> QED BY <2>1, UnitsFrame DEF QuotaInv, Held, Releasing, buckets
<1>7. ASSUME NEW r \in Requests, InsertBatch(r) PROVE UnitsHeld' /\ QuotaWithinLimits'
  BY <1>7, UnitsReserved
<1>8. ASSUME NEW r \in Requests, EnqueueParse(r) PROVE UnitsHeld' /\ QuotaWithinLimits'
  <2>1. UNCHANGED <<parseStatus, quotaWindow, worker, buckets>>
    BY <1>8 DEF EnqueueParse
  <2> QED BY <2>1, UnitsFrame DEF QuotaInv, Held, Releasing, buckets
<1>9. ASSUME NEW r \in Requests, ReplyAccepted(r) PROVE UnitsHeld' /\ QuotaWithinLimits'
  <2>1. UNCHANGED <<parseStatus, quotaWindow, worker, buckets>>
    BY <1>9 DEF ReplyAccepted
  <2> QED BY <2>1, UnitsFrame DEF QuotaInv, Held, Releasing, buckets
<1>10. ASSUME NEW r \in Requests, LoseReply(r) PROVE UnitsHeld' /\ QuotaWithinLimits'
  <2>1. UNCHANGED <<parseStatus, quotaWindow, worker, buckets>>
    BY <1>10 DEF LoseReply
  <2> QED BY <2>1, UnitsFrame DEF QuotaInv, Held, Releasing, buckets
<1>11. ASSUME NEW r \in Requests, AbortIngest(r) PROVE UnitsHeld' /\ QuotaWithinLimits'
  <2>1. UNCHANGED <<parseStatus, quotaWindow, worker, buckets>>
    BY <1>11 DEF AbortIngest
  <2> QED BY <2>1, UnitsFrame DEF QuotaInv, Held, Releasing, buckets
<1>12. ASSUME NEW w \in Workers, NEW id \in JobIds, StartJob(w, id)
      PROVE  UnitsHeld' /\ QuotaWithinLimits'
  <2>1. /\ UNCHANGED <<parseStatus, quotaWindow, buckets>>
        /\ \A v \in Workers : worker'[v].at = "release" =>
             worker[v].at = "release" /\ worker'[v].item = worker[v].item
    BY <1>12 DEF StartJob, QuotaInv, TypeOK, Worker, IdleWorker
  <2>2. Held' \subseteq Held
    BY <2>1 DEF Held, Releasing
  <2> QED BY <2>1, <2>2, UnitsFrame DEF QuotaInv, buckets
<1>13. ASSUME NEW w \in Workers, MarkUnmatched(w) PROVE UnitsHeld' /\ QuotaWithinLimits'
  <2>1. /\ UNCHANGED <<quotaWindow, buckets>>
        /\ parseStatus' = [parseStatus EXCEPT ![worker[w].item] = "UNMATCHED"]
        /\ parseStatus[worker[w].item] = "PENDING"
        /\ \A v \in Workers : /\ worker'[v].item = worker[v].item
                              /\ v # w => worker'[v].at = worker[v].at
    BY <1>13 DEF MarkUnmatched, QuotaInv, StatusFollowsRun, TypeOK, Worker
  <2>2. Held' \subseteq Held
    BY <2>1 DEF Held, Releasing, QuotaInv, TypeOK
  <2> QED BY <2>1, <2>2, UnitsFrame DEF QuotaInv, buckets
<1>14. ASSUME NEW w \in Workers, ReleaseQuota(w) PROVE UnitsHeld' /\ QuotaWithinLimits'
  <2> DEFINE n == worker[w].item
  <2>1. /\ TypeOK /\ OneRunPerRow /\ UnitsHeld /\ QuotaWithinLimits
        /\ n \in Notifications /\ Busy(w)
        /\ UNCHANGED quotaWindow
    BY <1>14 DEF ReleaseQuota, QuotaInv, Busy, TypeOK
  <2>2. \A v \in Workers : v # w /\ Busy(v) => worker[v].item # n
    BY <2>1, DistinctItems
  <2>3. Held' \subseteq Held \ {n}
    <3>1. /\ parseStatus' = [parseStatus EXCEPT ![n] = "UNMATCHED"]
          /\ worker'[w].at # "release"
          /\ \A v \in Workers : v # w => worker'[v] = worker[v]
      BY <1>14 DEF ReleaseQuota, QuotaInv, StatusFollowsRun, TypeOK, Worker, IdleWorker
    <3>2. ASSUME NEW m \in Held' PROVE m \in Held /\ m # n
      <4>1. m \in Notifications /\ quotaWindow[m] # NoDay
        BY <2>1, <3>2 DEF Held
      <4>2. CASE parseStatus'[m] = "PENDING"
        BY <2>1, <3>1, <4>1, <4>2 DEF Held, TypeOK
      <4>3. CASE Releasing(m)'
        <5>1. PICK v \in Workers : worker'[v].at = "release" /\ worker'[v].item = m
          BY <4>3 DEF Releasing
        <5>2. v # w /\ worker[v].at = "release" /\ worker[v].item = m
          BY <3>1, <5>1
        <5> QED BY <2>2, <4>1, <5>2 DEF Held, Releasing, Busy
      <4> QED BY <3>2, <4>2, <4>3 DEF Held
    <3> QED BY <3>2
  <2>4. CASE subscription.plan = "TRIAL"
    <3>1. quotaWindow[n] # NoDay /\ n \in Held
      BY <1>14, <2>1, <2>4 DEF ReleaseQuota, QuotaInv, TrialRowsReserved, OnlyStoredRows, Held, Releasing
    <3>2. /\ dayReserved' = [dayReserved EXCEPT ![quotaWindow[n]] = OneLess(@)]
          /\ totalReserved' = OneLess(totalReserved)
          /\ UNCHANGED <<dayUsed, totalUsed>>
      BY <1>14, <2>4, <3>1 DEF ReleaseQuota, SettlementDay
    <3> QED BY <2>1, <2>3, <3>1, <3>2, UnitGivenBack
  <2>5. CASE subscription.plan # "TRIAL"
    BY <1>14, <2>1, <2>3, <2>5, UnitsFrame DEF ReleaseQuota
  <2> QED BY <2>4, <2>5
<1>15. ASSUME NEW w \in Workers, BeginCommit(w) PROVE UnitsHeld' /\ QuotaWithinLimits'
  <2>1. /\ UNCHANGED <<parseStatus, quotaWindow, buckets>>
        /\ \A v \in Workers : worker'[v].at = "release" =>
             worker[v].at = "release" /\ worker'[v].item = worker[v].item
    BY <1>15 DEF BeginCommit, QuotaInv, TypeOK, Worker, IdleWorker
  <2>2. Held' \subseteq Held
    BY <2>1 DEF Held, Releasing
  <2> QED BY <2>1, <2>2, UnitsFrame DEF QuotaInv, buckets
<1>16. ASSUME NEW w \in Workers, CommitTransaction(w)
      PROVE  UnitsHeld' /\ QuotaWithinLimits'
  <2> DEFINE n == worker[w].item
  <2>1. /\ TypeOK /\ OneRunPerRow /\ UnitsHeld /\ QuotaWithinLimits
        /\ n \in Notifications /\ Busy(w)
        /\ UNCHANGED quotaWindow
    BY <1>16 DEF CommitTransaction, CommitOne, QuotaInv, Busy, TypeOK
  <2>2. \A v \in Workers : v # w /\ Busy(v) => worker[v].item # n
    BY <2>1, DistinctItems
  <2>3. Held' \subseteq Held \ {n}
    <3>1. /\ parseStatus' = [parseStatus EXCEPT ![n] = "PARSED"]
          /\ worker'[w].at # "release"
          /\ \A v \in Workers : v # w => worker'[v] = worker[v]
      BY <1>16 DEF CommitTransaction, CommitOne, QuotaInv, StatusFollowsRun, TypeOK, Worker, IdleWorker
    <3>2. ASSUME NEW m \in Held' PROVE m \in Held /\ m # n
      <4>1. m \in Notifications /\ quotaWindow[m] # NoDay
        BY <2>1, <3>2 DEF Held
      <4>2. CASE parseStatus'[m] = "PENDING"
        BY <2>1, <3>1, <4>1, <4>2 DEF Held, TypeOK
      <4>3. CASE Releasing(m)'
        <5>1. PICK v \in Workers : worker'[v].at = "release" /\ worker'[v].item = m
          BY <4>3 DEF Releasing
        <5>2. v # w /\ worker[v].at = "release" /\ worker[v].item = m
          BY <3>1, <5>1
        <5> QED BY <2>2, <4>1, <5>2 DEF Held, Releasing, Busy
      <4> QED BY <3>2, <4>2, <4>3 DEF Held
    <3> QED BY <3>2
  <2>4. CASE worker[w].sub.plan = "TRIAL"
    <3>1. quotaWindow[n] # NoDay /\ n \in Held
      BY <1>16, <2>1, <2>4 DEF CommitTransaction, CommitOne, QuotaInv, TrialCommitReserved, StatusFollowsRun, Held
    <3>2. /\ dayReserved' = [dayReserved EXCEPT ![quotaWindow[n]] = OneLess(@)]
          /\ totalReserved' = OneLess(totalReserved)
          /\ dayUsed' = [dayUsed EXCEPT ![quotaWindow[n]] = @ + 1]
          /\ totalUsed' = totalUsed + 1
      BY <1>16, <2>4, <3>1 DEF CommitTransaction, CommitOne, SettlementDay
    <3> QED BY <2>1, <2>3, <3>1, <3>2, UnitUsed
  <2>5. CASE worker[w].sub.plan # "TRIAL"
    BY <1>16, <2>1, <2>3, <2>5, UnitsFrame DEF CommitTransaction, CommitOne, buckets
  <2> QED BY <2>4, <2>5
<1>17. ASSUME NEW w \in Workers, CommitRefused(w) PROVE UnitsHeld' /\ QuotaWithinLimits'
  <2>1. /\ UNCHANGED <<parseStatus, quotaWindow, buckets>>
        /\ \A v \in Workers : worker'[v].at = "release" =>
             worker[v].at = "release" /\ worker'[v].item = worker[v].item
    BY <1>17 DEF CommitRefused, QuotaInv, TypeOK, Worker, IdleWorker
  <2>2. Held' \subseteq Held
    BY <2>1 DEF Held, Releasing
  <2> QED BY <2>1, <2>2, UnitsFrame DEF QuotaInv, buckets
<1>18. ASSUME NEW w \in Workers, PublishTransaction(w)
      PROVE  UnitsHeld' /\ QuotaWithinLimits'
  <2>1. /\ UNCHANGED <<parseStatus, quotaWindow, buckets>>
        /\ \A v \in Workers : worker'[v].at = "release" =>
             worker[v].at = "release" /\ worker'[v].item = worker[v].item
    BY <1>18 DEF PublishTransaction, QuotaInv, TypeOK, Worker, IdleWorker
  <2>2. Held' \subseteq Held
    BY <2>1 DEF Held, Releasing
  <2> QED BY <2>1, <2>2, UnitsFrame DEF QuotaInv, buckets
<1>19. ASSUME NEW w \in Workers, FailAttempt(w) PROVE UnitsHeld' /\ QuotaWithinLimits'
  <2>1. /\ UNCHANGED <<parseStatus, quotaWindow, buckets>>
        /\ \A v \in Workers : worker'[v].at = "release" =>
             worker[v].at = "release" /\ worker'[v].item = worker[v].item
    BY <1>19 DEF FailAttempt, QuotaInv, TypeOK, Worker, IdleWorker
  <2>2. Held' \subseteq Held
    BY <2>1 DEF Held, Releasing
  <2> QED BY <2>1, <2>2, UnitsFrame DEF QuotaInv, buckets
<1>20. ASSUME NEW w \in Workers, CrashWorker(w) PROVE UnitsHeld' /\ QuotaWithinLimits'
  <2>1. /\ UNCHANGED <<parseStatus, quotaWindow, buckets>>
        /\ \A v \in Workers : worker'[v].at = "release" =>
             worker[v].at = "release" /\ worker'[v].item = worker[v].item
    BY <1>20 DEF CrashWorker, QuotaInv, TypeOK, Worker, IdleWorker
  <2>2. Held' \subseteq Held
    BY <2>1 DEF Held, Releasing
  <2> QED BY <2>1, <2>2, UnitsFrame DEF QuotaInv, buckets
<1>21. ASSUME NEW w \in Workers, LoseLock(w) PROVE UnitsHeld' /\ QuotaWithinLimits'
  <2>1. UNCHANGED <<parseStatus, quotaWindow, worker, buckets>>
    BY <1>21 DEF LoseLock
  <2> QED BY <2>1, UnitsFrame DEF QuotaInv, Held, Releasing, buckets
<1>22. ASSUME NEW a \in Admins, NEW rows \in SUBSET Notifications, SelectUnmatched(a, rows)
      PROVE  UnitsHeld' /\ QuotaWithinLimits'
  <2>1. UNCHANGED <<parseStatus, quotaWindow, worker, buckets>>
    BY <1>22 DEF SelectUnmatched
  <2> QED BY <2>1, UnitsFrame DEF QuotaInv, Held, Releasing, buckets
<1>23. ASSUME NEW a \in Admins, ResetToPending(a) PROVE UnitsHeld' /\ QuotaWithinLimits'
  BY <1>23 DEF ResetToPending, QuotaInv, OneRunPerRow
<1>24. ASSUME NEW a \in Admins, EnqueueReprocess(a) PROVE UnitsHeld' /\ QuotaWithinLimits'
  BY <1>24 DEF EnqueueReprocess, QuotaInv, OneRunPerRow
<1>25. ASSUME NEW a \in Admins, AbortReprocess(a) PROVE UnitsHeld' /\ QuotaWithinLimits'
  <2>1. UNCHANGED <<parseStatus, quotaWindow, worker, buckets>>
    BY <1>25 DEF AbortReprocess
  <2> QED BY <2>1, UnitsFrame DEF QuotaInv, Held, Releasing, buckets
<1>26. CASE UNCHANGED vars
  <2>1. UNCHANGED <<parseStatus, quotaWindow, worker, buckets>>
    BY <1>26 DEF vars, buckets
  <2> QED BY <2>1, UnitsFrame DEF QuotaInv, Held, Releasing, buckets
<1> QED
  BY <1>1, <1>2, <1>3, <1>4, <1>5, <1>6, <1>7, <1>8, <1>9, <1>10, <1>11, <1>12, <1>13, <1>14,
     <1>15, <1>16, <1>17, <1>18, <1>19, <1>20, <1>21, <1>22, <1>23, <1>24, <1>25, <1>26
     DEF Next, Environment, Ingest, Parse, ParseStep, Reprocess

(* The invariant behind the quota is inductive ..                           *)
LEMMA QuotaStep == NoReruns /\ QuotaInv /\ [Next]_vars => QuotaInv'
BY TypeStep, StoredRowsStep, TrialRowsStep, OneRunStep, StatusStep, ReservedStep, UnitsStep
   DEF QuotaInv

(* .. and holds initially.                                                  *)
LEMMA QuotaInit == Init => QuotaInv
<1> SUFFICES ASSUME Init PROVE QuotaInv
  OBVIOUS
<1>1. Held = {} /\ \A d \in Days : HeldOn(d) = {}
  BY DEF Init, Held, HeldOn, NoDay
<1>2. UnitsHeld /\ QuotaWithinLimits
  <2>1. Cardinality(Held) = 0 /\ \A d \in Days : Cardinality(HeldOn(d)) = 0
    BY <1>1, FS_EmptySet
  <2>2. /\ totalUsed = 0 /\ totalReserved = 0
        /\ \A d \in Days : dayUsed[d] = 0 /\ dayReserved[d] = 0
    BY DEF Init
  <2> QED BY <2>1, <2>2, BoundAssumption DEF UnitsHeld, QuotaWithinLimits
<1>3. OnlyStoredRows
  BY DEF Init, OnlyStoredRows, AckedIsStored, Stored, Busy, IdleWorker, IdleRequest, IdleAdmin
<1>4. TrialRowsReserved /\ AbsentUnreserved /\ TrialCommitReserved
  BY DEF Init, TrialRowsReserved, AbsentUnreserved, TrialCommitReserved, Stored, IdleWorker
<1>5. OneRunPerRow /\ StatusFollowsRun
  BY DEF Init, OneRunPerRow, StatusFollowsRun, TransactionIsParsed, Busy, IdleWorker, IdleAdmin
<1> QED
  BY <1>2, <1>3, <1>4, <1>5, TypeInit DEF QuotaInv

(* The quota is never exceeded: concurrent batches, duplicates, retries,    *)
(* dead workers, changes of day and the upgrade included.                   *)
THEOREM QuotaRespected ==
  ASSUME NoReruns
  PROVE  Spec => [](QuotaWithinLimits /\ TransactionIsParsed)
<1>1. QuotaInv /\ [Next]_vars => QuotaInv'
  BY QuotaStep
<1>2. QuotaInv => QuotaWithinLimits /\ TransactionIsParsed
  BY DEF QuotaInv, StatusFollowsRun
<1> QED
  BY QuotaInit, <1>1, <1>2, PTL DEF Spec

(* Every notification still to be settled holds a unit of its day and of    *)
(* the total: no failed attempt, dead worker, or settlement of another one  *)
(* gives it away.                                                           *)
THEOREM HeldIsReserved ==
  ASSUME NoReruns
  PROVE  Spec => []ReservedCoversHeld
<1>1. QuotaInv /\ [Next]_vars => QuotaInv'
  BY QuotaStep
<1>2. QuotaInv => ReservedCoversHeld
  BY DEF QuotaInv, UnitsHeld, HeldOn, ReservedCoversHeld
<1> QED
  BY QuotaInit, <1>1, <1>2, PTL DEF Spec

-----------------------------------------------------------------------------
(* Refinement *)

PromiseStep == [Promise!Next]_<<TrialHeld, TrialCharged>>

(* Two subsets together have at most as many elements as the two sets.      *)
LEMMA CardinalityOfPair ==
  ASSUME NEW A, NEW B, IsFiniteSet(A), IsFiniteSet(B),
         NEW S \in SUBSET A, NEW T \in SUBSET B
  PROVE  Cardinality(S \cup T) <= Cardinality(A) + Cardinality(B) /\ IsFiniteSet(S \cup T)
<1>1. /\ IsFiniteSet(S) /\ IsFiniteSet(T)
      /\ Cardinality(S) <= Cardinality(A) /\ Cardinality(T) <= Cardinality(B)
  BY FS_Subset
<1>2. /\ IsFiniteSet(S \cup T) /\ IsFiniteSet(S \cap T)
      /\ Cardinality(S \cup T) = Cardinality(S) + Cardinality(T) - Cardinality(S \cap T)
  BY <1>1, FS_Union, FS_Subset, S \cap T \in SUBSET S
<1>3. /\ Cardinality(A) \in Nat /\ Cardinality(B) \in Nat
      /\ Cardinality(S) \in Nat /\ Cardinality(T) \in Nat /\ Cardinality(S \cap T) \in Nat
  BY <1>1, <1>2, FS_CardinalityType
<1> QED BY <1>1, <1>2, <1>3

(* A step that concerns neither rows nor payments is a stutter.             *)
LEMMA PromiseFrame ==
  ASSUME UNCHANGED <<parseStatus, quotaWindow, transactions>>
  PROVE  PromiseStep
BY DEF PromiseStep, TrialHeld, TrialCharged

(* An ingest transaction of the trial accepts a batch that fits.            *)
LEMMA InsertKeepsPromise ==
  ASSUME QuotaInv, UsedMatchesTransactions, NEW r \in Requests, InsertBatch(r)
  PROVE  PromiseStep
<1>1. PICK kept \in SUBSET New(r) : InsertRows(r, kept)
  BY DEF InsertBatch
<1>2. TypeOK
  BY DEF QuotaInv
<1>3. New(r) \in SUBSET Notifications /\ kept \in SUBSET Notifications
  BY <1>2 DEF New, TypeOK, Request
<1>4. /\ UNCHANGED transactions
      /\ parseStatus' = [n \in Notifications |->
                            IF n \in kept THEN "PENDING" ELSE parseStatus[n]]
  BY <1>1 DEF InsertRows
<1>5. \A n \in kept : /\ parseStatus[n] = "absent" /\ quotaWindow[n] = NoDay
                      /\ n \notin transactions
  BY <1>1, <1>3 DEF New, QuotaInv, AbsentUnreserved, OnlyStoredRows, Stored
<1>6. CASE subscription.plan # "TRIAL"
  <2>1. UNCHANGED quotaWindow
    BY <1>1, <1>6 DEF InsertRows, ReserveQuota
  <2> QED BY <1>4, <1>5, <2>1 DEF PromiseStep, TrialHeld, TrialCharged
<1>7. CASE subscription.plan = "TRIAL"
  <2> DEFINE k == Cardinality(kept)
  <2>1. k \in Nat /\ IsFiniteSet(kept) /\ Cardinality(New(r)) \in Nat
    BY <1>3, SubsetsAreFinite
  <2>2. /\ k = Granted(Cardinality(New(r)))
        /\ quotaWindow' = [n \in Notifications |-> IF n \in kept THEN today ELSE quotaWindow[n]]
    BY <1>1, <1>7 DEF InsertRows, ReserveQuota
  <2>3. k = 0 \/ totalUsed + totalReserved + k <= TotalLimit
    BY <1>2, <2>1, <2>2, GrantFits
  <2>4. /\ TrialHeld' = TrialHeld \cup kept
        /\ TrialCharged' = TrialCharged
    <3>1. today # NoDay
      BY <1>2 DEF TypeOK, Days, NoDay
    <3>2. TrialHeld' = TrialHeld \cup kept
      BY <1>3, <1>4, <1>5, <2>2, <3>1 DEF TrialHeld
    <3>3. transactions \in SUBSET Notifications
      BY <1>2 DEF TypeOK
    <3> QED BY <1>4, <1>5, <2>2, <3>2, <3>3 DEF TrialCharged
  <2>5. CASE k = 0
    <3>1. kept = {}
      BY <2>1, <2>5, FS_EmptySet
    <3> QED BY <2>4, <3>1 DEF PromiseStep
  <2>6. CASE k # 0
    <3> DEFINE all == TrialHeld \cup TrialCharged \cup kept
    <3>1. kept \cap (TrialHeld \cup TrialCharged) = {}
      BY <1>5 DEF TrialHeld, TrialCharged
    <3>2. TrialHeld \subseteq Held /\ TrialCharged \subseteq transactions
      BY DEF TrialHeld, TrialCharged, Held
    <3>3. /\ IsFiniteSet(Held) /\ IsFiniteSet(transactions)
          /\ Cardinality(Held) \in Nat /\ Cardinality(transactions) \in Nat
      BY <1>2, HeldFinite, SubsetsAreFinite DEF TypeOK
    <3>4. Cardinality(all) <= Cardinality(Held) + Cardinality(transactions) + k
      <4>1. /\ Cardinality(TrialHeld \cup TrialCharged)
                 <= Cardinality(Held) + Cardinality(transactions)
            /\ IsFiniteSet(TrialHeld \cup TrialCharged)
        BY <3>2, <3>3, CardinalityOfPair
      <4>2. Cardinality(all) <= Cardinality(TrialHeld \cup TrialCharged) + k
        BY <2>1, <4>1, CardinalityOfPair
      <4>3. Cardinality(all) \in Nat /\ Cardinality(TrialHeld \cup TrialCharged) \in Nat
        BY <2>1, <4>1, FS_Union, FS_CardinalityType
      <4> QED BY <2>1, <3>3, <4>1, <4>2, <4>3
    <3>5. Cardinality(all) \in Nat
      BY <2>1, <3>2, <3>3, FS_Union, FS_Subset, FS_CardinalityType
    <3>6. /\ totalUsed = Cardinality(transactions)
          /\ totalReserved \in Nat /\ totalReserved >= Cardinality(Held)
          /\ TotalLimit \in Nat
      BY <1>2, <1>7, BoundAssumption DEF UsedMatchesTransactions, QuotaInv, UnitsHeld, TypeOK
    <3>7. Cardinality(all) <= TotalLimit
      <4> HIDE DEF all, k
      <4> QED BY <2>1, <2>3, <2>6, <3>3, <3>4, <3>5, <3>6
    <3>8. Promise!Cardinality(all) = Cardinality(all)
      BY DEF Promise!Cardinality, Cardinality, Promise!IsFiniteSet, IsFiniteSet
    <3>9. Promise!Accept(kept)
      BY <2>4, <3>1, <3>7, <3>8 DEF Promise!Accept
    <3> QED BY <1>3, <3>9 DEF PromiseStep, Promise!Next
  <2> QED BY <2>5, <2>6
<1> QED BY <1>6, <1>7

(* Every step of the pipeline is a step of the promise or a stutter.        *)
LEMMA StepKeepsPromise ==
  ASSUME NoReruns, QuotaInv, UsedMatchesTransactions, [Next]_vars
  PROVE  PromiseStep
<1>1. ASSUME NEW n \in Notifications, Capture(n) PROVE PromiseStep
  BY <1>1, PromiseFrame DEF Capture
<1>2. CASE NextDay
  BY <1>2, PromiseFrame DEF NextDay
<1>3. CASE TrialClockElapses
  BY <1>3, PromiseFrame DEF TrialClockElapses
<1>4. CASE CloseExpiredTrial
  BY <1>4, PromiseFrame DEF CloseExpiredTrial
<1>5. CASE Upgrade
  BY <1>5, PromiseFrame DEF Upgrade
<1>6. ASSUME NEW r \in Requests, NEW batch \in SUBSET Notifications, AdmitBatch(r, batch)
      PROVE  PromiseStep
  BY <1>6, PromiseFrame DEF AdmitBatch
<1>7. ASSUME NEW r \in Requests, InsertBatch(r) PROVE PromiseStep
  BY <1>7, InsertKeepsPromise
<1>8. ASSUME NEW r \in Requests, EnqueueParse(r) PROVE PromiseStep
  BY <1>8, PromiseFrame DEF EnqueueParse
<1>9. ASSUME NEW r \in Requests, ReplyAccepted(r) PROVE PromiseStep
  BY <1>9, PromiseFrame DEF ReplyAccepted
<1>10. ASSUME NEW r \in Requests, LoseReply(r) PROVE PromiseStep
  BY <1>10, PromiseFrame DEF LoseReply
<1>11. ASSUME NEW r \in Requests, AbortIngest(r) PROVE PromiseStep
  BY <1>11, PromiseFrame DEF AbortIngest
<1>12. ASSUME NEW w \in Workers, NEW id \in JobIds, StartJob(w, id) PROVE PromiseStep
  BY <1>12, PromiseFrame DEF StartJob
<1>13. ASSUME NEW w \in Workers, MarkUnmatched(w) PROVE PromiseStep
  <2> DEFINE n == worker[w].item
  <2>1. /\ UNCHANGED <<quotaWindow, transactions>>
        /\ parseStatus' = [parseStatus EXCEPT ![n] = "UNMATCHED"]
        /\ n \in Notifications
    BY <1>13 DEF MarkUnmatched, QuotaInv, TypeOK, Busy
  <2>2. TrialHeld' = TrialHeld \ {n} /\ TrialCharged' = TrialCharged
    BY <2>1 DEF TrialHeld, TrialCharged, QuotaInv, TypeOK
  <2>3. CASE n \in TrialHeld
    BY <2>1, <2>2, <2>3 DEF PromiseStep, Promise!Next, Promise!GiveBack
  <2>4. CASE n \notin TrialHeld
    BY <2>2, <2>4 DEF PromiseStep
  <2> QED BY <2>3, <2>4
<1>14. ASSUME NEW w \in Workers, ReleaseQuota(w) PROVE PromiseStep
  BY <1>14, PromiseFrame DEF ReleaseQuota
<1>15. ASSUME NEW w \in Workers, BeginCommit(w) PROVE PromiseStep
  BY <1>15, PromiseFrame DEF BeginCommit
<1>16. ASSUME NEW w \in Workers, CommitTransaction(w) PROVE PromiseStep
  <2> DEFINE n == worker[w].item
  <2>1. /\ UNCHANGED quotaWindow
        /\ transactions' = transactions \cup {n}
        /\ parseStatus' = [parseStatus EXCEPT ![n] = "PARSED"]
        /\ parseStatus[n] = "PENDING"
        /\ n \in Notifications
    BY <1>16 DEF CommitTransaction, CommitOne, QuotaInv, StatusFollowsRun, TypeOK, Busy
  <2>2. TrialHeld' = TrialHeld \ {n}
    BY <2>1 DEF TrialHeld, QuotaInv, TypeOK
  <2>3. CASE quotaWindow[n] # NoDay
    <3>1. n \in TrialHeld /\ TrialCharged' = TrialCharged \cup {n}
      BY <2>1, <2>3 DEF TrialHeld, TrialCharged
    <3> QED BY <2>1, <2>2, <3>1 DEF PromiseStep, Promise!Next, Promise!Charge
  <2>4. CASE quotaWindow[n] = NoDay
    <3>1. n \notin TrialHeld /\ TrialCharged' = TrialCharged
      BY <2>1, <2>4 DEF TrialHeld, TrialCharged
    <3> QED BY <2>2, <3>1 DEF PromiseStep
  <2> QED BY <2>3, <2>4
<1>17. ASSUME NEW w \in Workers, CommitRefused(w) PROVE PromiseStep
  BY <1>17, PromiseFrame DEF CommitRefused
<1>18. ASSUME NEW w \in Workers, PublishTransaction(w) PROVE PromiseStep
  BY <1>18, PromiseFrame DEF PublishTransaction
<1>19. ASSUME NEW w \in Workers, FailAttempt(w) PROVE PromiseStep
  BY <1>19, PromiseFrame DEF FailAttempt
<1>20. ASSUME NEW w \in Workers, CrashWorker(w) PROVE PromiseStep
  BY <1>20, PromiseFrame DEF CrashWorker
<1>21. ASSUME NEW w \in Workers, LoseLock(w) PROVE PromiseStep
  BY <1>21, PromiseFrame DEF LoseLock
<1>22. ASSUME NEW a \in Admins, NEW rows \in SUBSET Notifications, SelectUnmatched(a, rows)
      PROVE  PromiseStep
  BY <1>22, PromiseFrame DEF SelectUnmatched
<1>23. ASSUME NEW a \in Admins, ResetToPending(a) PROVE PromiseStep
  BY <1>23 DEF ResetToPending, QuotaInv, OneRunPerRow
<1>24. ASSUME NEW a \in Admins, EnqueueReprocess(a) PROVE PromiseStep
  BY <1>24, PromiseFrame DEF EnqueueReprocess
<1>25. ASSUME NEW a \in Admins, AbortReprocess(a) PROVE PromiseStep
  BY <1>25, PromiseFrame DEF AbortReprocess
<1>26. CASE UNCHANGED vars
  BY <1>26, PromiseFrame DEF vars
<1> QED
  BY <1>1, <1>2, <1>3, <1>4, <1>5, <1>6, <1>7, <1>8, <1>9, <1>10, <1>11, <1>12, <1>13, <1>14,
     <1>15, <1>16, <1>17, <1>18, <1>19, <1>20, <1>21, <1>22, <1>23, <1>24, <1>25, <1>26
     DEF Next, Environment, Ingest, Parse, ParseStep, Reprocess

(* Rows, buckets and jobs implement the promise of the trial's total.       *)
THEOREM PromiseKept ==
  ASSUME NoReruns
  PROVE  Spec => KeepsPromise
<1>1. Init => Promise!Init
  BY DEF Init, Promise!Init, TrialHeld, TrialCharged
<1>2. QuotaInv /\ [Next]_vars => QuotaInv'
  BY QuotaStep
<1>3. QuotaInv /\ UsedMatchesTransactions /\ [Next]_vars => PromiseStep
  BY StepKeepsPromise
<1> QED
  BY QuotaInit, UsedIsExact, <1>1, <1>2, <1>3, PTL
     DEF Spec, KeepsPromise, Promise!Spec, PromiseStep

-----------------------------------------------------------------------------
(* The offset is what the clock shows beyond UTC: truncating both to whole  *)
(* seconds changes nothing, as offsets are whole seconds.                   *)
LEMMA OffsetIsExact ==
  ASSUME NEW z \in Zones, NEW t \in Int
  PROVE  /\ OffsetMsAt(z, t) = (IF t < z.at THEN z.before ELSE z.after)
         /\ OffsetMsAt(z, t) \in Int /\ ClockAt(z, t) \in Int /\ DayOf(z, t) \in Int
<1>1. PICK n \in Int : ClockAt(z, t) - t = 1000 * n
  BY DEF ClockAt, Zones, Offsets, Second
<1>2. z.before \in Int /\ z.after \in Int /\ z.at \in Int
  BY DEF Zones, Offsets, Second
<1>3. ClockAt(z, t) = t + 1000 * n
  BY <1>1, <1>2 DEF ClockAt
<1>4. (t + 1000 * n) \div 1000 = (t \div 1000) + n
  OBVIOUS
<1> QED BY <1>1, <1>2, <1>3, <1>4 DEF OffsetMsAt, TruncatedTo, Second, ClockAt, DayOf, DayLength, Hour

(* What a day is.                                                           *)
LEMMA DayBounds ==
  ASSUME NEW c \in Int, NEW d \in Int
  PROVE  c \div DayLength = d <=> d * DayLength <= c /\ c < d * DayLength + DayLength
BY DEF DayLength, Hour, Second

(* The window's start, without its conversions.                             *)
LEMMA StartIs ==
  ASSUME NEW z \in Zones, NEW t \in Int
  PROVE  LET m == DayOf(z, t) * DayLength
             g == m - (IF t < z.at THEN z.before ELSE z.after)
         IN  WindowStart(z, t) = m - (IF g < z.at THEN z.before ELSE z.after)
<1>1. z.before \in Int /\ z.after \in Int /\ z.at \in Int
  BY DEF Zones, Offsets, Second
<1>2. InitialGuess(z, t) = DayOf(z, t) * DayLength - (IF t < z.at THEN z.before ELSE z.after)
  BY OffsetIsExact DEF InitialGuess, LocalMidnightAsUtc
<1>3. InitialGuess(z, t) \in Int
  BY <1>1, <1>2, OffsetIsExact DEF DayLength, Hour, Second
<1> QED BY <1>2, <1>3, OffsetIsExact DEF WindowStart, ZonedMidnight, LocalMidnightAsUtc

(* A day of the clock: its first instant is at the midnight or after it.    *)
LEMMA DayOfIs ==
  ASSUME NEW z \in Zones, NEW t \in Int, NEW d \in Int
  PROVE  DayOf(z, t) = d <=>
           LET c == t + (IF t < z.at THEN z.before ELSE z.after)
           IN  d * DayLength <= c /\ c < d * DayLength + DayLength
BY OffsetIsExact, DayBounds DEF DayOf, ClockAt

(* Every instant of a local day has the same window exactly when no         *)
(* midnight comes twice (zonedMidnight's second pass; the comments on       *)
(* resolveDayWindow and offsetMsAt).                                        *)
THEOREM OneWindowUnlessRepeated ==
  \A z \in Zones : OneWindowPerDay(z, Int) <=> ~RepeatsMidnight(z)
<1> SUFFICES ASSUME NEW z \in Zones PROVE OneWindowPerDay(z, Int) <=> ~RepeatsMidnight(z)
  OBVIOUS
<1>0. z.before \in Int /\ z.after \in Int /\ z.at \in Int
  BY DEF Zones, Offsets, Second
<1> DEFINE k == (z.at + z.before - 1) \div DayLength
<1>1. /\ k \in Int /\ k * DayLength \in Int
      /\ k * DayLength <= z.at + z.before - 1 /\ z.at + z.before - 1 < k * DayLength + DayLength
  <2>1. z.at + z.before - 1 \in Int /\ k \in Int
    BY <1>0 DEF DayLength, Hour, Second
  <2> QED BY <2>1, DayBounds DEF DayLength, Hour, Second
<1>2. RepeatsMidnight(z) <=> z.at + z.after <= k * DayLength
  BY DEF RepeatsMidnight, TruncatedTo
<1> HIDE DEF k
<1>3. ASSUME ~RepeatsMidnight(z), NEW t \in Int, NEW u \in Int, DayOf(z, t) = DayOf(z, u),
             t < z.at, z.at <= u
      PROVE  WindowStart(z, t) = WindowStart(z, u)
  <2>1. PICK d \in Int : d = DayOf(z, t) /\ d = DayOf(z, u)
    BY <1>3, OffsetIsExact
  <2>2. PICK m \in Int : m = d * DayLength
    BY DEF DayLength, Hour, Second
  <2>3. m <= t + z.before
    BY <1>0, <1>3, <2>1, <2>2, DayOfIs
  <2>4. d <= k
    BY <1>0, <1>1, <1>3, <2>2, <2>3 DEF DayLength, Hour, Second
  <2>5. m <= k * DayLength
    BY <1>1, <2>2, <2>4 DEF DayLength, Hour, Second
  <2>6. m - z.after < z.at /\ m - z.before < z.at
    BY <1>0, <1>1, <1>2, <1>3, <2>3, <2>5
  <2>7. WindowStart(z, t) = m - z.before /\ WindowStart(z, u) = m - z.before
    BY <1>0, <1>3, <2>1, <2>2, <2>6, StartIs
  <2> QED BY <2>7
<1>4. ASSUME NEW t \in Int, NEW u \in Int, DayOf(z, t) = DayOf(z, u), t < z.at <=> u < z.at
      PROVE  WindowStart(z, t) = WindowStart(z, u)
  BY <1>4, StartIs
<1>5. ~RepeatsMidnight(z) => OneWindowPerDay(z, Int)
  BY <1>0, <1>3, <1>4 DEF OneWindowPerDay
<1>6. ASSUME RepeatsMidnight(z) PROVE ~OneWindowPerDay(z, Int)
  <2>1. PICK m \in Int : m = k * DayLength
    BY <1>1
  <2> DEFINE t == z.at - 1
             u == m - z.after
  <2>2. t \in Int /\ u \in Int /\ t < z.at /\ z.at <= u
    BY <1>0, <1>2, <1>6, <2>1
  <2>3. DayOf(z, t) = k
    BY <1>0, <1>1, <2>2, DayOfIs
  <2>4. DayOf(z, u) = k
    BY <1>0, <1>1, <2>1, <2>2, DayOfIs DEF DayLength, Hour, Second
  <2>5. m - z.before < z.at
    BY <1>0, <1>1, <2>1
  <2>6. WindowStart(z, t) = m - z.before
    BY <1>0, <2>1, <2>2, <2>3, <2>5, StartIs
  <2>7. WindowStart(z, u) = m - z.after
    BY <1>0, <2>1, <2>2, <2>4, StartIs
  <2>8. z.after # z.before
    BY <1>0, <1>1, <1>2, <1>6
  <2> QED BY <1>0, <2>2, <2>3, <2>4, <2>6, <2>7, <2>8 DEF OneWindowPerDay
<1> QED BY <1>5, <1>6

(* A day that the clock lengthens or shortens by an hour at most ends where *)
(* the next begins: 25 hours after its start the clock is on that next day  *)
(* (resolveDayWindow's comment).                                            *)
THEOREM DaysFollowEachOther ==
  \A z \in Zones : ShiftsByAnHour(z) /\ ~RepeatsMidnight(z) => WindowsFollow(z, Int)
<1> SUFFICES ASSUME NEW z \in Zones, ShiftsByAnHour(z), ~RepeatsMidnight(z),
                    NEW t \in Int, NEW u \in Int, DayOf(z, u) = DayOf(z, t) + 1
             PROVE  WindowEnd(z, t) = WindowStart(z, u)
  BY DEF WindowsFollow
<1>0. z.before \in Int /\ z.after \in Int /\ z.at \in Int
  BY DEF Zones, Offsets, Second
<1>1. PICK d \in Int : d = DayOf(z, t)
  BY OffsetIsExact
<1>2. PICK m \in Int : m = d * DayLength
  BY DEF DayLength, Hour, Second
<1>3. PICK o \in {z.before, z.after} : WindowStart(z, t) = m - o
  BY <1>1, <1>2, StartIs
<1>4. PICK p \in Int : p = WindowStart(z, t) + 25 * Hour
  BY <1>0, <1>3 DEF Hour, Second
<1>5. DayOf(z, p) = d + 1
  <2>1. PICK q \in {z.before, z.after} : q = (IF p < z.at THEN z.before ELSE z.after)
    OBVIOUS
  <2>2. PICK h \in Int : h = Hour /\ h > 0
    BY DEF Hour, Second
  <2>3. o \in Int /\ q \in Int /\ -h <= q - o /\ q - o <= h
    <3>1. -h <= z.after - z.before /\ z.after - z.before <= h
      BY <1>0, <2>2 DEF ShiftsByAnHour
    <3>2. (o = z.before \/ o = z.after) /\ (q = z.before \/ q = z.after)
      OBVIOUS
    <3> QED BY <1>0, <2>2, <3>1, <3>2
  <2>4. p = m - o + 25 * h
    BY <1>3, <1>4, <2>2
  <2>5. m + 24 * h <= p + q /\ p + q < m + 48 * h
    BY <2>2, <2>3, <2>4
  <2>6. m + 24 * h = (d + 1) * DayLength
    BY <1>2, <2>2 DEF DayLength, Hour, Second
  <2>7. (d + 1) * DayLength <= p + q /\ p + q < (d + 1) * DayLength + DayLength
    BY <2>2, <2>5, <2>6 DEF DayLength
  <2> QED BY <2>1, <2>7, DayOfIs
<1>6. WindowStart(z, p) = WindowStart(z, u)
  BY <1>1, <1>5, OneWindowUnlessRepeated DEF OneWindowPerDay
<1> QED BY <1>4, <1>6 DEF WindowEnd, WindowStart
=============================================================================
