-------------------------- MODULE AndroidSyncQueue --------------------------
(***************************************************************************)
(* The phone's half of the capture: NotificationCaptureCoordinator stores  *)
(* each notification in a Room table, NotificationSyncWorker sends the     *)
(* table in batches, and WorkManager runs that worker as one chain of      *)
(* works under a unique name.  The server is what the worker sees of it:   *)
(* which items an answer confirms, and why the others are refused.         *)
(*                                                                         *)
(* A call of the DAO, a request and an addition to the chain are one       *)
(* action each.  Time is counted in hours, relative to the row or work     *)
(* that waits; an hour passes between two runs of the worker, which        *)
(* WorkManager ends after ten minutes.                                     *)
(***************************************************************************)
EXTENDS Naturals, Sequences, SequencesExt

CONSTANTS
  Items,           \* the notifications, one element per client_ref
  BatchSize,       \* ingestBatchSize, at most MAX_BATCH_SIZE
  BatchesPerRun,   \* MAX_BATCHES_PER_RUN
  Recheck,         \* DEFERRED_RECHECK_DELAY_MS, in hours
  Retention,       \* SUBSCRIPTION_QUEUE_RETENTION_MS, in hours
  MaxChanges,      \* bound: changes of what the server answers
  MaxFaults        \* bound: requests that end in an exception, runs that
                   \* WorkManager stops, deaths of the process

ConstantsAssumption ==
  /\ BatchSize \in Nat \ {0}
  /\ BatchesPerRun \in Nat \ {0}
  /\ Recheck \in Nat \ {0}
  /\ Retention \in Nat \ {0}
  /\ {MaxChanges, MaxFaults} \subseteq Nat

ASSUME BoundAssumption == ConstantsAssumption

VARIABLES
  \* Room: table queued_notifications
  queue,       \* the rows in created_at order
  row,         \* [Items -> the blocked_* columns of its row]
  \* WorkManager: the chain "yallego_notification_sync"
  works,       \* its works' initial delays; the head may be running
  \* the app's process
  seen,        \* observedNotifications
  capturing,   \* stored by capture(), the sync not scheduled yet
  sync,        \* the local state of doWork
  serviceUp,   \* CaptureForegroundService has been started
  \* the server
  server,      \* what it answers
  stored,      \* the items it has stored
  \* history and bounds
  refused,     \* items that the server's last deferring answer refused for
               \* want of a subscription
  refusedFor,  \* [Items -> hours since the first answer in a row that did]
  unnoted,     \* items deferred for the day's limit by an answer that the
               \* phone was stopped before noting
  budget       \* changes and faults already spent

history == <<refused, refusedFor, unnoted>>
vars == <<queue, row, works, seen, capturing, sync, serviceUp, server, stored,
          refused, refusedFor, unnoted, budget>>

-----------------------------------------------------------------------------
(* Types *)

Answers == {"open", "daily", "limited", "blocked"}
Reasons == {"none", "DAILY_LIMIT_EXCEEDED", "SUBSCRIPTION_REQUIRED", "other"}

(* age is now - blocked_at, wait is retry_after - now.                      *)
Row == [reason : Reasons \ {"other"}, age : 0..Retention, wait : 0..Recheck]
Sync == [at : {"idle", "expire", "batch", "send", "confirm", "defer", "schedule", "done"},
         batch : SUBSET Items, confirmed : SUBSET Items, reason : Reasons,
         left : 0..BatchesPerRun]

NewRow == [reason |-> "none", age |-> 0, wait |-> 0]
IdleSync == [at |-> "idle", batch |-> {}, confirmed |-> {}, reason |-> "none", left |-> 0]

Queued == ToSet(queue)

TypeOK ==
  /\ queue \in Seq(Items) /\ IsInjective(queue)
  /\ row \in [Items -> Row]
  /\ works \in Seq(0..Recheck)
  /\ seen \in SUBSET Items
  /\ capturing \in SUBSET Items
  /\ sync \in Sync
  /\ Cardinality(sync.batch) <= BatchSize
  /\ serviceUp \in BOOLEAN
  /\ server \in Answers
  /\ stored \in SUBSET Items
  /\ refused \in SUBSET Items /\ unnoted \in SUBSET Items
  /\ refusedFor \in [Items -> 0..Retention]
  /\ budget \in [changes : Nat, net : Nat, breaks : Nat]

Init ==
  /\ queue = <<>>
  /\ row = [n \in Items |-> NewRow]
  /\ works = <<0>>
  /\ seen = {}
  /\ capturing = {}
  /\ sync = IdleSync
  /\ serviceUp = TRUE
  /\ server \in Answers
  /\ stored = {}
  /\ refused = {} /\ unnoted = {}
  /\ refusedFor = [n \in Items |-> 0]
  /\ budget = [changes |-> 0, net |-> 0, breaks |-> 0]

-----------------------------------------------------------------------------
(* Capture *)

(* The listener hands over a notification it has not seen in this process:  *)
(* a new one, or one that reconcileActiveNotifications found still active.  *)
(* After a death of the process, the start of the service binds it again.   *)
(* INSERT OR IGNORE keeps the row that is already there.                    *)
Capture(n) ==
  /\ n \notin seen
  /\ serviceUp
  /\ seen' = seen \cup {n}
  /\ IF n \in Queued
     THEN UNCHANGED <<queue, capturing>>
     ELSE /\ queue' = Append(queue, n)
          /\ capturing' = capturing \cup {n}
  /\ UNCHANGED <<row, works, sync, serviceUp, server, stored, history, budget>>

(* enqueueUniqueWork with APPEND_OR_REPLACE: behind the works of the chain. *)
(* No work of it fails, so nothing is ever replaced.                        *)
Schedule(delay) == works' = Append(works, delay)

(* capture() has stored a row and schedules the sync.                       *)
ScheduleCapture(n) ==
  /\ n \in capturing
  /\ capturing' = capturing \ {n}
  /\ Schedule(0)
  /\ UNCHANGED <<queue, row, seen, sync, serviceUp, server, stored, history, budget>>

-----------------------------------------------------------------------------
(* NotificationSyncWorker *)

(* WorkManager runs the head of the chain once its delay is over.           *)
StartWork ==
  /\ sync.at = "idle"
  /\ works # <<>>
  /\ Head(works) = 0
  /\ sync' = [IdleSync EXCEPT !.at = "expire"]
  /\ UNCHANGED <<queue, row, works, seen, capturing, serviceUp, server, stored,
                 history, budget>>

(* blocked_reason = 'SUBSCRIPTION_REQUIRED' AND blocked_at <= now - 24 h    *)
Expired(n) == row[n].reason = "SUBSCRIPTION_REQUIRED" /\ row[n].age >= Retention

(* The rows that are not gone, in their order: the k-th is the one with k   *)
(* of them up to it.                                                        *)
Without(rows, gone) ==
  LET kept == {i \in DOMAIN rows : rows[i] \notin gone}
      nth(k) == CHOOSE i \in kept : Cardinality({j \in kept : j <= i}) = k
  IN  [k \in 1..Cardinality(kept) |-> rows[nth(k)]]

(* The history of what the server refused: these items, each from when it   *)
(* came among them.                                                         *)
Refused(items) ==
  /\ refused' = items
  /\ refusedFor' = [n \in Items |-> IF n \in items THEN refusedFor[n] ELSE 0]

DeleteRows(gone) ==
  /\ queue' = Without(queue, gone)
  /\ row' = [n \in Items |-> IF n \in gone THEN NewRow ELSE row[n]]
  /\ Refused(refused \ gone)
  /\ unnoted' = unnoted \ gone

DeleteExpired ==
  /\ sync.at = "expire"
  /\ DeleteRows({n \in Queued : Expired(n)})
  /\ sync' = [sync EXCEPT !.at = "batch", !.left = BatchesPerRun]
  /\ UNCHANGED <<works, seen, capturing, serviceUp, server, stored, budget>>

(* The oldest rows that do not wait for a recheck.                          *)
NextBatch ==
  LET ready == Without(queue, {n \in Items : row[n].wait # 0})
  IN  SubSeq(ready, 1, IF Len(ready) < BatchSize THEN Len(ready) ELSE BatchSize)

(* Result.retry(): the same work runs again.                                *)
Retry ==
  /\ sync' = IdleSync
  /\ works' = [works EXCEPT ![1] = 0]

(* One turn of doWork's loop; without a batch the work has succeeded.       *)
TakeBatch ==
  /\ sync.at = "batch"
  /\ sync.left > 0
  /\ sync' = IF NextBatch = <<>> THEN [IdleSync EXCEPT !.at = "done"]
             ELSE [sync EXCEPT !.at = "send", !.batch = ToSet(NextBatch), !.left = @ - 1]
  /\ UNCHANGED <<queue, row, works, seen, capturing, serviceUp, server, stored,
                 history, budget>>

(* All the batches of the run are sent: countPending decides.               *)
LeaveLoop ==
  /\ sync.at = "batch"
  /\ sync.left = 0
  /\ \/ queue = <<>> /\ sync' = [sync EXCEPT !.at = "done"] /\ UNCHANGED works
     \/ queue # <<>> /\ Retry
  /\ UNCHANGED <<queue, row, seen, capturing, serviceUp, server, stored, history, budget>>

(* What the server may confirm of a batch: what it has is a duplicate, and  *)
(* of the rest all, some or nothing, as its quota allows.  A subscription   *)
(* that is over refuses the request as a whole, and so may "limited" do,    *)
(* the monthly limit of a paid plan or a trial's total.                     *)
Confirmable(batch) ==
  CASE server = "open"    -> {batch}
    [] server = "blocked" -> {{}}
    [] OTHER -> {confirmed \in SUBSET batch : batch \cap stored \subseteq confirmed}
                  \cup (IF server = "limited" THEN {{}} ELSE {})

Refusal == CASE server = "open"    -> "none"
             [] server = "blocked" -> "SUBSCRIPTION_REQUIRED"
             [] server = "daily"   -> "DAILY_LIMIT_EXCEEDED"
             [] server = "limited" -> "other"

(* The request is answered.                                                 *)
Send ==
  /\ sync.at = "send"
  /\ \E confirmed \in Confirmable(sync.batch) :
       /\ stored' = stored \cup confirmed
       /\ sync' = [sync EXCEPT !.at = "confirm", !.confirmed = confirmed, !.reason = Refusal]
       /\ Refused(CASE Refusal = "SUBSCRIPTION_REQUIRED" -> refused \cup (sync.batch \ confirmed)
                    [] Refusal = "DAILY_LIMIT_EXCEEDED"  -> refused \ (sync.batch \ confirmed)
                    [] OTHER                             -> refused)
  /\ UNCHANGED <<queue, row, works, seen, capturing, serviceUp, server, unnoted, budget>>

(* The request or its answer is lost: recordFailure, which leaves the       *)
(* blocked_* columns alone, and Result.retry().                             *)
LoseAnswer ==
  /\ sync.at = "send"
  /\ budget.net + budget.breaks < MaxFaults
  /\ stored' \in {stored} \cup {stored \cup c : c \in Confirmable(sync.batch)}
  /\ Retry
  /\ budget' = [budget EXCEPT !.net = @ + 1]
  /\ UNCHANGED <<queue, row, seen, capturing, serviceUp, server, history>>

(* handleIngestResponse: what the server confirmed is deleted ..            *)
DeleteConfirmed ==
  /\ sync.at = "confirm"
  /\ DeleteRows(sync.confirmed)
  /\ sync' = [sync EXCEPT !.at = IF sync.batch = sync.confirmed THEN "batch" ELSE "defer",
                          !.batch = @ \ sync.confirmed, !.confirmed = {}]
  /\ UNCHANGED <<works, seen, capturing, serviceUp, server, stored, budget>>

(* Mutant of Deferred: blocked_at is only set when it is null.              *)
DeferredFromFirstBlock(r, reason) ==
  [reason |-> reason, age |-> IF r.reason = "none" THEN 0 ELSE r.age, wait |-> Recheck]

(* The row after defer: blocked_at is kept if the reason is the same.       *)
Deferred(r, reason) ==
  [reason |-> reason, age |-> IF r.reason = reason THEN r.age ELSE 0, wait |-> Recheck]

(* .. and what it refused for the day's limit or the subscription waits for *)
(* a recheck; any other refusal is retried at once.                         *)
Defer ==
  /\ sync.at = "defer"
  /\ \/ /\ sync.reason # "other"
        /\ row' = [n \in Items |->
                     IF n \in sync.batch THEN Deferred(row[n], sync.reason) ELSE row[n]]
        /\ unnoted' = IF sync.reason = "DAILY_LIMIT_EXCEEDED" THEN unnoted \ sync.batch
                      ELSE unnoted
        /\ sync' = [IdleSync EXCEPT !.at = "schedule"]
        /\ UNCHANGED works
     \/ /\ sync.reason = "other"
        /\ Retry
        /\ UNCHANGED <<row, unnoted>>
  /\ UNCHANGED <<queue, seen, capturing, serviceUp, server, stored, refused, refusedFor, budget>>

(* Mutant of RecheckDelay: the recheck is scheduled without its delay.      *)
NoDelay == 0

RecheckDelay == Recheck

(* The recheck is appended to the chain the worker itself runs in.          *)
ScheduleRecheck ==
  /\ sync.at = "schedule"
  /\ Schedule(RecheckDelay)
  /\ sync' = [sync EXCEPT !.at = "done"]
  /\ UNCHANGED <<queue, row, seen, capturing, serviceUp, server, stored, history, budget>>

(* Result.success(): WorkManager goes on to the next work of the chain.     *)
FinishWork ==
  /\ sync.at = "done"
  /\ works' = Tail(works)
  /\ sync' = IdleSync
  /\ UNCHANGED <<queue, row, seen, capturing, serviceUp, server, stored, history, budget>>

-----------------------------------------------------------------------------
(* What happens to the phone *)

(* The answer the run was about to note, if it deferred for the day's limit.*)
Stopped ==
  /\ unnoted' = IF sync.at \in {"confirm", "defer"} /\ sync.reason = "DAILY_LIMIT_EXCEEDED"
                THEN unnoted \cup (sync.batch \ sync.confirmed) ELSE unnoted
  /\ UNCHANGED <<refused, refusedFor>>

(* WorkManager stops a run whose network constraint fails, and runs the     *)
(* same work again later.                                                   *)
StopWork ==
  /\ sync.at # "idle"
  /\ budget.net + budget.breaks < MaxFaults
  /\ Retry
  /\ Stopped
  /\ budget' = [budget EXCEPT !.breaks = @ + 1]
  /\ UNCHANGED <<queue, row, seen, capturing, serviceUp, server, stored>>

(* The process dies: Room and WorkManager keep their tables, and a work     *)
(* that was running runs again.                                             *)
Crash ==
  /\ serviceUp
  /\ budget.net + budget.breaks < MaxFaults
  /\ seen' = {}
  /\ capturing' = {}
  /\ sync' = IdleSync
  /\ works' = IF sync.at = "idle" THEN works ELSE [works EXCEPT ![1] = 0]
  /\ serviceUp' = FALSE
  /\ Stopped
  /\ budget' = [budget EXCEPT !.breaks = @ + 1]
  /\ UNCHANGED <<queue, row, server, stored>>

(* START_STICKY, the boot receiver or the user start the service again,     *)
(* which schedules the sync.                                                *)
StartService ==
  /\ ~serviceUp
  /\ serviceUp' = TRUE
  /\ Schedule(0)
  /\ UNCHANGED <<queue, row, seen, capturing, sync, server, stored, history, budget>>

(* An hour passes for the rows and for the head of the chain.               *)
Hour ==
  LET older(k) == IF k < Retention THEN k + 1 ELSE k
      closer(k) == IF k > 0 THEN k - 1 ELSE 0
  IN
  /\ sync.at = "idle"
  /\ row' = [n \in Items |->
               IF row[n].reason = "none" THEN row[n]
               ELSE [row[n] EXCEPT !.age = older(@), !.wait = closer(@)]]
  /\ refusedFor' = [n \in Items |-> IF n \in refused THEN older(refusedFor[n]) ELSE 0]
  /\ works' = IF works = <<>> THEN works ELSE [works EXCEPT ![1] = closer(@)]
  /\ UNCHANGED <<queue, seen, capturing, sync, serviceUp, server, stored, refused, unnoted,
                 budget>>

(* The day's limit is reached or a new day begins, the subscription ends or *)
(* is paid, a limit without a recheck is reached.                           *)
ServerChanges ==
  /\ budget.changes < MaxChanges
  /\ server' \in Answers \ {server}
  /\ budget' = [budget EXCEPT !.changes = @ + 1]
  /\ UNCHANGED <<queue, row, works, seen, capturing, sync, serviceUp, stored, history>>

-----------------------------------------------------------------------------
SyncStep ==
  \/ DeleteExpired
  \/ TakeBatch
  \/ LeaveLoop
  \/ Send
  \/ DeleteConfirmed
  \/ Defer
  \/ ScheduleRecheck
  \/ FinishWork

Next ==
  \/ \E n \in Items : Capture(n) \/ ScheduleCapture(n)
  \/ StartWork
  \/ SyncStep
  \/ LoseAnswer
  \/ StopWork
  \/ Crash
  \/ StartService
  \/ Hour
  \/ ServerChanges

Spec == Init /\ [][Next]_vars

(* Time passes, WorkManager starts a work whose delay is over, the service  *)
(* comes back after a crash, and what has begun goes on.                    *)
Fairness ==
  /\ WF_vars(Hour)
  /\ WF_vars(StartWork)
  /\ WF_vars(SyncStep)
  /\ WF_vars(StartService)
  /\ \A n \in Items : WF_vars(ScheduleCapture(n))

FairSpec == Spec /\ Fairness

-----------------------------------------------------------------------------
(* Safety *)

(* An item leaves the phone only once the server has stored it, or when the *)
(* server refused it for want of a subscription a whole window ago or       *)
(* longer and no answer since then deferred it for the day's limit, unless  *)
(* the phone was stopped before it noted that answer (deleteConfirmed,      *)
(* deleteExpiredSubscriptionBlocks and defer's blocked_at).                 *)
DiscardedWasRefused ==
  [][\A n \in Queued \ ToSet(queue') :
       \/ n \in stored
       \/ n \in refused /\ refusedFor[n] >= Retention
       \/ n \in unnoted]_vars

(* "La app elimina de la cola local unicamente tras confirmacion", and else *)
(* "tras 24 h sin suscripcion": while the server asks for one.              *)
DiscardsOnlyWhileBlocked ==
  [][\A n \in Queued \ ToSet(queue') : n \in stored \/ server = "blocked"]_vars

(* A row in the queue has a work to come: "el worker vuelve a comprobarla   *)
(* cada hora", and the service "reactiva la sincronizacion de cualquier     *)
(* notificacion que haya quedado pendiente".  capture() or the start of the *)
(* service may be about to schedule it.                                     *)
QueuedHasWork ==
  queue # <<>> => works # <<>> \/ capturing # {} \/ ~serviceUp

-----------------------------------------------------------------------------
(* Liveness *)

(* If the server stays open, every item is sent and deleted; if it stays    *)
(* without a subscription, every item is at last discarded.  A run that is  *)
(* cut short is excepted: it breaks QueuedHasWork.                          *)
ServerSettles == <>[](server = "open") \/ <>[](server = "blocked")
EveryItemLeaves ==
  ServerSettles =>
    \A n \in Items : n \in Queued ~> n \notin Queued \/ budget.breaks > 0
=============================================================================
