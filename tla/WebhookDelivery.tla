--------------------------- MODULE WebhookDelivery ---------------------------
(***************************************************************************)
(* The outgoing webhooks of one tenant: WebhookDispatchService turns a     *)
(* transaction event into one delivery row and one BullMQ job for each     *)
(* enabled endpoint, WebhookDeliveryWorker makes one attempt per job and   *)
(* queues the next attempt itself, and the user of the panel edits and     *)
(* deletes endpoints, sends test events and retries deliveries by hand.    *)
(*                                                                         *)
(* A database transaction is one action.  The delay of a job is left out:  *)
(* a queued job may start at any time.  So is the age at which BullMQ      *)
(* forgets an ended job, an hour or more: every job stays known by its id. *)
(***************************************************************************)
EXTENDS Naturals, FiniteSets

CONSTANTS
  Events,               \* the transaction events and test events to announce
  Endpoints,            \* the tenant's webhook endpoints
  Workers,              \* webhook workers: one per API instance
  MaxDeliveryAttempts,  \* MAX_DELIVERY_ATTEMPTS
  DisableAfter,         \* AUTO_DISABLE_AFTER_CONSECUTIVE_FAILURES
  MaxJobStalls,         \* BullMQ maxStalledCount: stalls a job survives
  MaxRetries,           \* bound: manual retries
  MaxCrashes,           \* bound: workers that die between two steps
  MaxErrors,            \* bound: steps that throw, dispatchers that die
  MaxEdits,             \* bound: edits of endpoints by the user
  MaxDisturbances,      \* bound: of the four above, taken together
  NoDelivery            \* what an idle worker works on

(* One delivery per event and endpoint (@@unique([endpointId, eventId])).   *)
Deliveries == Events \X Endpoints
EndpointOf(d) == d[2]

ASSUME WorkersAssumption == IsFiniteSet(Workers)
ASSUME BoundAssumption ==
  /\ MaxDeliveryAttempts \in Nat \ {0}
  /\ DisableAfter \in Nat \ {0}
  /\ MaxJobStalls \in Nat
  /\ MaxRetries \in Nat
  /\ MaxCrashes \in Nat
  /\ MaxErrors \in Nat
  /\ MaxEdits \in Nat
  /\ MaxDisturbances \in Nat
ASSUME NoDeliveryAssumption == NoDelivery \notin Deliveries

VARIABLES
  endpoint,     \* [Endpoints -> the endpoint's row]
  delivery,     \* [Deliveries -> the delivery's row]
  jobs,         \* [JobIds -> the job in the webhook queue]
  dispatcher,   \* [Events -> the local state of enqueueForEvent]
  worker,       \* [Workers -> the local state of doProcess]
  retrier,      \* the manual retry that is being served
  sent,         \* [Deliveries -> requests that reached the endpoint]
  streak,       \* [Endpoints -> deliveries given up in a row]
  budget        \* faults, retries and edits already spent

Disturbances == budget.retries + budget.crashes + budget.errors + budget.edits

vars == <<endpoint, delivery, jobs, dispatcher, worker, retrier, sent, streak, budget>>

-----------------------------------------------------------------------------
(* Types *)

(* The jobId is <delivery>-<attempt>, or <delivery>-retry-<now>: manual     *)
(* retries are numbered after the attempts.                                 *)
JobIds == Deliveries \X (1..(MaxDeliveryAttempts + MaxRetries))

Endpoint == [enabled : BOOLEAN, deleted : BOOLEAN, failures : Nat]
Delivery == [status : {"none", "PENDING", "DELIVERED", "ABANDONED"}, attempts : Nat]
Job == [state : {"none", "queued", "active", "completed", "failed"}, stalls : Nat]
Dispatcher == [at : {"new", "create", "add", "done"}, left : SUBSET Endpoints]

(* An attempt sends the request, stores the outcome in one of three ways,   *)
(* then queues the next attempt or counts the failure, and ends the job.    *)
Worker == [at : {"idle", "send", "success", "failure", "abandon", "schedule",
                 "count", "end"},
           item : Deliveries \cup {NoDelivery},
           number : 0..(MaxDeliveryAttempts + MaxRetries), \* of its job
           attempt : Nat,      \* attemptNumber
           counts : BOOLEAN,   \* giving up counts as the endpoint's failure
           gone : BOOLEAN]     \* the endpoint answered 410
Retrier == [at : {"idle", "write", "add"}, item : Deliveries \cup {NoDelivery}]

IdleWorker == [at |-> "idle", item |-> NoDelivery, number |-> 0, attempt |-> 0,
               counts |-> FALSE, gone |-> FALSE]
IdleRetrier == [at |-> "idle", item |-> NoDelivery]

Busy(w) == worker[w].at # "idle"
JobOf(w) == <<worker[w].item, worker[w].number>>

TypeOK ==
  /\ endpoint \in [Endpoints -> Endpoint]
  /\ delivery \in [Deliveries -> Delivery]
  /\ jobs \in [JobIds -> Job]
  /\ dispatcher \in [Events -> Dispatcher]
  /\ worker \in [Workers -> Worker]
  /\ \A w \in Workers : Busy(w) => JobOf(w) \in JobIds
  /\ retrier \in Retrier
  /\ retrier.at # "idle" => retrier.item \in Deliveries
  /\ sent \in [Deliveries -> Nat]
  /\ streak \in [Endpoints -> Nat]
  /\ budget \in [retries : 0..MaxRetries, crashes : Nat, errors : Nat, edits : Nat]

Init ==
  /\ endpoint = [e \in Endpoints |-> [enabled |-> TRUE, deleted |-> FALSE, failures |-> 0]]
  /\ delivery = [d \in Deliveries |-> [status |-> "none", attempts |-> 0]]
  /\ jobs = [j \in JobIds |-> [state |-> "none", stalls |-> 0]]
  /\ dispatcher = [v \in Events |-> [at |-> "new", left |-> {}]]
  /\ worker = [w \in Workers |-> IdleWorker]
  /\ retrier = IdleRetrier
  /\ sent = [d \in Deliveries |-> 0]
  /\ streak = [e \in Endpoints |-> 0]
  /\ budget = [retries |-> 0, crashes |-> 0, errors |-> 0, edits |-> 0]

-----------------------------------------------------------------------------
(* Dispatch *)

(* queue.add with a jobId: a no-op if a job with that id is still kept.     *)
AddJob(id) ==
  jobs' = IF jobs[id].state = "none" THEN [jobs EXCEPT ![id].state = "queued"] ELSE jobs

(* enqueueForEvent: the enabled endpoints are read once.  All of them are   *)
(* subscribed to the events modelled.                                       *)
DispatchEvent(v) ==
  LET targets == {e \in Endpoints : endpoint[e].enabled /\ ~endpoint[e].deleted}
  IN
  /\ dispatcher[v].at = "new"
  /\ dispatcher' = [dispatcher EXCEPT ![v] =
                      [at |-> IF targets = {} THEN "done" ELSE "create", left |-> targets]]
  /\ UNCHANGED <<endpoint, delivery, jobs, worker, retrier, sent, streak, budget>>

(* sendTestEvent: one endpoint, enabled or not.                             *)
SendTestEvent(v, e) ==
  /\ dispatcher[v].at = "new"
  /\ ~endpoint[e].deleted
  /\ dispatcher' = [dispatcher EXCEPT ![v] = [at |-> "create", left |-> {e}]]
  /\ UNCHANGED <<endpoint, delivery, jobs, worker, retrier, sent, streak, budget>>

(* enqueueForEndpoint, for one of the endpoints left: the row.              *)
CreateDelivery(v, e) ==
  /\ dispatcher[v].at = "create"
  /\ e \in dispatcher[v].left
  /\ delivery' = [delivery EXCEPT ![<<v, e>>].status = "PENDING"]
  /\ dispatcher' = [dispatcher EXCEPT ![v].at = "add"]
  /\ UNCHANGED <<endpoint, jobs, worker, retrier, sent, streak, budget>>

(* .. and its first job; then the next endpoint.                            *)
EnqueueFirst(v, e) ==
  /\ dispatcher[v].at = "add"
  /\ e \in dispatcher[v].left
  /\ delivery[<<v, e>>].status # "none"
  /\ AddJob(<<<<v, e>>, 1>>)
  /\ dispatcher' = [dispatcher EXCEPT ![v] =
                      [at |-> IF dispatcher[v].left = {e} THEN "done" ELSE "create",
                       left |-> dispatcher[v].left \ {e}]]
  /\ UNCHANGED <<endpoint, delivery, worker, retrier, sent, streak, budget>>

(* A step throws (the listener logs it) or the process dies: the endpoints  *)
(* left get nothing.                                                        *)
DispatchFails(v) ==
  /\ dispatcher[v].at \in {"create", "add"}
  /\ budget.errors < MaxErrors /\ Disturbances < MaxDisturbances
  /\ dispatcher' = [dispatcher EXCEPT ![v] = [at |-> "done", left |-> {}]]
  /\ budget' = [budget EXCEPT !.errors = @ + 1]
  /\ UNCHANGED <<endpoint, delivery, jobs, worker, retrier, sent, streak>>

-----------------------------------------------------------------------------
(* WebhookDeliveryWorker: one attempt per job *)

Leave(w, at) == worker' = [worker EXCEPT ![w].at = at]

(* A worker takes a job and reads the delivery and its endpoint.  A         *)
(* delivery already made ends the job, one whose endpoint is off is given   *)
(* up without an attempt.                                                   *)
StartAttempt(w, id) ==
  LET d == id[1]
      open == endpoint[EndpointOf(d)].enabled /\ ~endpoint[EndpointOf(d)].deleted
  IN
  /\ ~Busy(w)
  /\ jobs[id].state = "queued"
  /\ \/ /\ delivery[d].status = "DELIVERED"
        /\ jobs' = [jobs EXCEPT ![id].state = "completed"]
        /\ UNCHANGED worker
     \/ /\ delivery[d].status # "DELIVERED"
        /\ jobs' = [jobs EXCEPT ![id].state = "active"]
        /\ worker' = [worker EXCEPT ![w] =
             [at |-> IF open THEN "send" ELSE "abandon",
              item |-> d, number |-> id[2],
              attempt |-> IF open THEN delivery[d].attempts + 1 ELSE delivery[d].attempts,
              counts |-> open, gone |-> FALSE]]
  /\ UNCHANGED <<endpoint, delivery, dispatcher, retrier, sent, streak, budget>>

(* delayBeforeNextAttempt returns null.                                     *)
LastAttempt(k) == k >= MaxDeliveryAttempts

(* What the dispatcher brings back: a 2xx, a 410, or any other answer, a    *)
(* redirection, a timeout and a network error included.                     *)
SendResults == {"ok", "gone", "failed"}

(* The request and its answer                                               *)
Send(w) ==
  /\ worker[w].at = "send"
  /\ sent' = [sent EXCEPT ![worker[w].item] = @ + 1]
  /\ \E result \in SendResults :
       \/ result = "ok" /\ Leave(w, "success")
       \/ result = "gone" /\ worker' = [worker EXCEPT ![w].at = "abandon", ![w].gone = TRUE]
       \/ /\ result = "failed"
          /\ Leave(w, IF LastAttempt(worker[w].attempt) THEN "abandon" ELSE "failure")
  /\ UNCHANGED <<endpoint, delivery, jobs, dispatcher, retrier, streak, budget>>

(* assertPublicHostname refuses the URL: given up without a request, at     *)
(* whatever attempt.                                                        *)
RefuseHostname(w) ==
  /\ worker[w].at = "send"
  /\ Leave(w, "abandon")
  /\ UNCHANGED <<endpoint, delivery, jobs, dispatcher, retrier, sent, streak, budget>>

(* finalizeSuccess: the delivery and the endpoint's failures, in one        *)
(* transaction.                                                             *)
FinalizeSuccess(w) ==
  LET d == worker[w].item
  IN
  /\ worker[w].at = "success"
  /\ delivery' = [delivery EXCEPT ![d] = [status |-> "DELIVERED", attempts |-> worker[w].attempt]]
  /\ endpoint' = [endpoint EXCEPT ![EndpointOf(d)].failures = 0]
  /\ streak' = [streak EXCEPT ![EndpointOf(d)] = 0]
  /\ Leave(w, "end")
  /\ UNCHANGED <<jobs, dispatcher, retrier, sent, budget>>

(* Mutant of NextJob: the job's own id, which the queue still knows.        *)
SameJob(w) == JobOf(w)

(* The id of the job of the next attempt.                                   *)
NextJob(w) == <<worker[w].item, worker[w].attempt + 1>>

(* Mutant of FailedOnce: the attempt is not counted.                        *)
NotCounted(k) == [status |-> "PENDING", attempts |-> k - 1]

(* The delivery's row after a failure that is not the last.                 *)
FailedOnce(k) == [status |-> "PENDING", attempts |-> k]

(* A failure that is not the last: the row is PENDING again ..              *)
RecordFailure(w) ==
  /\ worker[w].at = "failure"
  /\ delivery' = [delivery EXCEPT ![worker[w].item] = FailedOnce(worker[w].attempt)]
  /\ Leave(w, "schedule")
  /\ UNCHANGED <<endpoint, jobs, dispatcher, retrier, sent, streak, budget>>

(* .. and its next attempt is queued.                                       *)
ScheduleAttempt(w) ==
  /\ worker[w].at = "schedule"
  /\ AddJob(NextJob(w))
  /\ Leave(w, "end")
  /\ UNCHANGED <<endpoint, delivery, dispatcher, retrier, sent, streak, budget>>

(* The delivery's row once it is given up.                                  *)
GivenUp(k) == [status |-> "ABANDONED", attempts |-> k]

(* abandon: a transaction of its own.                                       *)
Abandon(w) ==
  LET d == worker[w].item
  IN
  /\ worker[w].at = "abandon"
  /\ delivery' = [delivery EXCEPT ![d] = GivenUp(worker[w].attempt)]
  /\ streak' = IF worker[w].counts THEN [streak EXCEPT ![EndpointOf(d)] = @ + 1] ELSE streak
  /\ Leave(w, IF worker[w].counts THEN "count" ELSE "end")
  /\ UNCHANGED <<endpoint, jobs, dispatcher, retrier, sent, budget>>

(* Mutant of ShouldDisable: compares the count read before the increment.   *)
DisableOneLate(failures, gone) == gone \/ failures > DisableAfter

(* The endpoint answered 410, or has failed too many times in a row.        *)
ShouldDisable(failures, gone) == gone \/ failures >= DisableAfter

(* finalizeFailure's second transaction: the increment of the row returns   *)
(* the value the decision is taken on.                                      *)
CountFailure(w) ==
  LET e == EndpointOf(worker[w].item)
      failures == endpoint[e].failures + 1
  IN
  /\ worker[w].at = "count"
  /\ endpoint' = [endpoint EXCEPT ![e].failures = failures,
                     ![e].enabled = @ /\ ~ShouldDisable(failures, worker[w].gone)]
  /\ Leave(w, "end")
  /\ UNCHANGED <<delivery, jobs, dispatcher, retrier, sent, streak, budget>>

EndJob(w) ==
  /\ worker[w].at = "end"
  /\ jobs' = [jobs EXCEPT ![JobOf(w)].state = "completed"]
  /\ worker' = [worker EXCEPT ![w] = IdleWorker]
  /\ UNCHANGED <<endpoint, delivery, dispatcher, retrier, sent, streak, budget>>

(* Mutant of StateAfterError: BullMQ's own retries are left on.             *)
RetriedByQueue == "queued"

(* The queue is registered with attempts: 1.                                *)
StateAfterError == "failed"

(* A step throws, the mailer's among them.                                  *)
FailAttempt(w) ==
  /\ Busy(w)
  /\ budget.errors < MaxErrors /\ Disturbances < MaxDisturbances
  /\ jobs' = [jobs EXCEPT ![JobOf(w)].state = StateAfterError]
  /\ worker' = [worker EXCEPT ![w] = IdleWorker]
  /\ budget' = [budget EXCEPT !.errors = @ + 1]
  /\ UNCHANGED <<endpoint, delivery, dispatcher, retrier, sent, streak>>

(* The worker's process dies: its job stalls and is queued again, or fails  *)
(* after too many stalls.                                                   *)
CrashWorker(w) ==
  /\ Busy(w)
  /\ budget.crashes < MaxCrashes /\ Disturbances < MaxDisturbances
  /\ jobs' = [jobs EXCEPT ![JobOf(w)] =
                [state |-> IF @.stalls < MaxJobStalls THEN "queued" ELSE "failed",
                 stalls |-> @.stalls + 1]]
  /\ worker' = [worker EXCEPT ![w] = IdleWorker]
  /\ budget' = [budget EXCEPT !.crashes = @ + 1]
  /\ UNCHANGED <<endpoint, delivery, dispatcher, retrier, sent, streak>>

-----------------------------------------------------------------------------
(* The panel: editing and deleting endpoints, retrying deliveries.  The     *)
(* check that the endpoint exists is an earlier transaction, so an edit may *)
(* still come after the deletion.                                           *)

SetEnabled(e, enabled) ==
  /\ budget.edits < MaxEdits /\ Disturbances < MaxDisturbances
  /\ endpoint' = [endpoint EXCEPT ![e].enabled = enabled]
  /\ streak' = IF enabled THEN [streak EXCEPT ![e] = 0] ELSE streak
  /\ budget' = [budget EXCEPT !.edits = @ + 1]
  /\ UNCHANGED <<delivery, jobs, dispatcher, worker, retrier, sent>>

Remove(e) ==
  /\ budget.edits < MaxEdits /\ Disturbances < MaxDisturbances
  /\ endpoint' = [endpoint EXCEPT ![e].deleted = TRUE, ![e].enabled = FALSE]
  /\ budget' = [budget EXCEPT !.edits = @ + 1]
  /\ UNCHANGED <<delivery, jobs, dispatcher, worker, retrier, sent, streak>>

(* retryDelivery reads the delivery and refuses one that was delivered.     *)
CheckRetry(d) ==
  /\ retrier.at = "idle"
  /\ budget.retries < MaxRetries /\ Disturbances < MaxDisturbances
  /\ ~endpoint[EndpointOf(d)].deleted
  /\ delivery[d].status \in {"PENDING", "ABANDONED"}
  /\ retrier' = [at |-> "write", item |-> d]
  /\ budget' = [budget EXCEPT !.retries = @ + 1]
  /\ UNCHANGED <<endpoint, delivery, jobs, dispatcher, worker, sent, streak>>

(* retry: the row is PENDING, whatever it is by now ..                      *)
WriteRetry ==
  /\ retrier.at = "write"
  /\ delivery' = [delivery EXCEPT ![retrier.item].status = "PENDING"]
  /\ retrier' = [retrier EXCEPT !.at = "add"]
  /\ UNCHANGED <<endpoint, jobs, dispatcher, worker, sent, streak, budget>>

(* .. and a job under a new id makes the attempt.                           *)
AddRetry ==
  /\ retrier.at = "add"
  /\ AddJob(<<retrier.item, MaxDeliveryAttempts + budget.retries>>)
  /\ retrier' = IdleRetrier
  /\ UNCHANGED <<endpoint, delivery, dispatcher, worker, sent, streak, budget>>

(* A step throws or the API dies: with the retry it ends, one disturbance.  *)
RetryFails ==
  /\ retrier.at # "idle"
  /\ budget.errors < MaxErrors
  /\ retrier' = IdleRetrier
  /\ budget' = [budget EXCEPT !.errors = @ + 1]
  /\ UNCHANGED <<endpoint, delivery, jobs, dispatcher, worker, sent, streak>>

-----------------------------------------------------------------------------
Dispatch(v) ==
  \/ DispatchEvent(v)
  \/ \E e \in Endpoints : SendTestEvent(v, e)
  \/ DispatchFails(v)

EnqueueStep(v) == \E e \in Endpoints : CreateDelivery(v, e) \/ EnqueueFirst(v, e)

(* The steps of an attempt once it has begun.                               *)
AttemptStep(w) ==
  \/ Send(w)
  \/ RefuseHostname(w)
  \/ FinalizeSuccess(w)
  \/ RecordFailure(w)
  \/ ScheduleAttempt(w)
  \/ Abandon(w)
  \/ CountFailure(w)
  \/ EndJob(w)

Deliver(w) ==
  \/ \E id \in JobIds : StartAttempt(w, id)
  \/ AttemptStep(w)
  \/ FailAttempt(w)
  \/ CrashWorker(w)

Edit(e) == Remove(e) \/ \E enabled \in BOOLEAN : SetEnabled(e, enabled)

Retry ==
  \/ \E d \in Deliveries : CheckRetry(d)
  \/ WriteRetry
  \/ AddRetry
  \/ RetryFails

Next ==
  \/ \E v \in Events : Dispatch(v) \/ EnqueueStep(v)
  \/ \E w \in Workers : Deliver(w)
  \/ \E e \in Endpoints : Edit(e)
  \/ Retry

Spec == Init /\ [][Next]_vars

(* A dispatcher, a worker and a retry that have begun go on, and BullMQ     *)
(* hands queued jobs to idle workers once their delay is over.              *)
Fairness ==
  /\ \A v \in Events : WF_vars(EnqueueStep(v))
  /\ \A w \in Workers : WF_vars(AttemptStep(w))
  /\ \A w \in Workers : WF_vars(\E id \in JobIds : StartAttempt(w, id))
  /\ WF_vars(WriteRetry \/ AddRetry)

FairSpec == Spec /\ Fairness

-----------------------------------------------------------------------------
(* Safety *)

(* No step has failed, no worker has died.                                  *)
NoFaults == budget.crashes = 0 /\ budget.errors = 0
Undisturbed == NoFaults /\ budget.retries = 0

(* What will make, or is making, an attempt at d.                           *)
Chains(d) ==
  {j \in JobIds : j[1] = d /\ jobs[j].state = "queued"}
    \cup {JobOf(w) : w \in {v \in Workers : worker[v].item = d /\ worker[v].at # "end"}}

(* A delivery is attempted by one job at a time; only a manual retry or a   *)
(* crash adds one (attempts: 1 on the queue, one job id per attempt).       *)
ChainsBounded ==
  \A d \in Deliveries : Cardinality(Chains(d)) <= 1 + budget.retries + budget.crashes

(* The endpoint gets no more requests than the attempts on record and the   *)
(* one whose outcome is being stored, and never more than the maximum       *)
(* (attemptNumber and delayBeforeNextAttempt).                              *)
Unrecorded(d) ==
  {w \in Workers : worker[w].item = d /\ worker[w].at \in {"success", "failure", "abandon"}}
SendsOnRecord ==
  Undisturbed =>
    \A d \in Deliveries :
      /\ sent[d] <= delivery[d].attempts + Cardinality(Unrecorded(d))
      /\ sent[d] <= MaxDeliveryAttempts

(* An endpoint that has let DisableAfter deliveries in a row be given up,   *)
(* without an answer 2xx or the user turning it on in between, is off as    *)
(* soon as all of them are counted, even when several workers count at once *)
(* (finalizeFailure's increment and decision in one transaction).           *)
Uncounted(e) ==
  {w \in Workers : worker[w].at = "count" /\ EndpointOf(worker[w].item) = e}
SustainedFailuresDisable ==
  NoFaults =>
    \A e \in Endpoints :
      streak[e] >= DisableAfter + Cardinality(Uncounted(e)) => ~endpoint[e].enabled

(* A delivery is PENDING only while somebody will attempt it.               *)
PendingIsScheduled ==
  \A d \in Deliveries :
    delivery[d].status = "PENDING" =>
      \/ Chains(d) # {}
      \/ dispatcher[d[1]].at = "add" /\ EndpointOf(d) \in dispatcher[d[1]].left
      \/ retrier.at # "idle" /\ retrier.item = d

-----------------------------------------------------------------------------
(* Refinement: rows, jobs and workers keep the promise of DeliveryPromise.  *)
Statuses == [d \in Deliveries |-> delivery[d].status]
Attempts == [d \in Deliveries |-> delivery[d].attempts]
Accepted == {d \in Deliveries : \E w \in Workers : worker[w].item = d /\ worker[w].at = "success"}

(* A delivery is recorded as made only if the endpoint answered 2xx; without*)
(* faults and manual retries no request follows that answer, nor leaves     *)
(* before the outcome of the last one is on record, and what is settled     *)
(* stays so.                                                                *)
Promise == INSTANCE DeliveryPromise
             WITH MaxAttempts <- MaxDeliveryAttempts, status <- Statuses, attempts <- Attempts,
                  requests <- sent, accepted <- Accepted, disturbed <- ~Undisturbed
KeepsDeliveryPromise == Promise!Spec

-----------------------------------------------------------------------------
(* Liveness *)

(* Every delivery ends DELIVERED or ABANDONED, unless a step failed or a    *)
(* manual retry crossed the automatic ones.                                 *)
EveryDeliverySettles ==
  \A d \in Deliveries :
    delivery[d].status = "PENDING" ~>
      delivery[d].status \in {"DELIVERED", "ABANDONED"} \/ budget.errors > 0 \/ budget.retries > 0
=============================================================================
