------------------------ MODULE WebhookDeliveryProofs ------------------------
(* Theorems about WebhookDelivery, for any events, endpoints, workers, limits  *)
(* and bounds on faults, retries and edits.                                    *)
EXTENDS WebhookDelivery, Integers, FiniteSetTheorems, TLAPS

-----------------------------------------------------------------------------
(* Types *)

Ats == {"idle", "send", "success", "failure", "abandon", "schedule", "count", "end"}
Numbers == 0..(MaxDeliveryAttempts + MaxRetries)

(* Besides the types: an idle worker works on nothing, and an attempt that   *)
(* failed and will be made again was not the last.                           *)
WorkerInv(w) ==
  /\ Busy(w) => worker[w].item \in Deliveries /\ JobOf(w) \in JobIds
  /\ ~Busy(w) => worker[w].item = NoDelivery
  /\ worker[w].at \in {"failure", "schedule"} => worker[w].attempt < MaxDeliveryAttempts

TypeInv == TypeOK /\ \A w \in Workers : WorkerInv(w)

LEMMA Constants ==
  /\ MaxDeliveryAttempts \in Nat \ {0} /\ DisableAfter \in Nat \ {0} /\ MaxJobStalls \in Nat
  /\ MaxRetries \in Nat /\ MaxCrashes \in Nat /\ MaxErrors \in Nat /\ MaxEdits \in Nat
  /\ IsFiniteSet(Workers) /\ NoDelivery \notin Deliveries
BY BoundAssumption, WorkersAssumption, NoDeliveryAssumption

(* A worker goes from one step of its attempt to another.                    *)
Goes(w, at) ==
  /\ worker[w].at # "idle" /\ worker' \in [Workers -> Worker]
  /\ worker'[w].at = at
  /\ worker'[w].item = worker[w].item /\ worker'[w].number = worker[w].number
  /\ worker'[w].attempt = worker[w].attempt /\ worker'[w].counts = worker[w].counts
  /\ \A v \in Workers \ {w} : worker'[v] = worker[v]

LEMMA LeaveGoes ==
  ASSUME worker \in [Workers -> Worker], NEW w \in Workers, NEW at \in Ats, Leave(w, at),
         worker[w].at # "idle"
  PROVE  Goes(w, at)
<1> DEFINE next == [worker[w] EXCEPT !.at = at]
<1>1. worker[w] \in Worker /\ worker' = [worker EXCEPT ![w] = next]
  BY DEF Leave
<1>2. /\ next \in Worker /\ next.at = at /\ next.item = worker[w].item
      /\ next.number = worker[w].number /\ next.attempt = worker[w].attempt
      /\ next.counts = worker[w].counts
  BY <1>1 DEF Worker, Ats
<1> HIDE DEF next
<1> QED BY <1>1, <1>2 DEF Goes

(* Where each step of an attempt leads to.                                   *)
LEMMA AttemptGoes ==
  ASSUME worker \in [Workers -> Worker], NEW w \in Workers
  PROVE  /\ Send(w) => \/ Goes(w, "success") \/ Goes(w, "abandon")
                       \/ Goes(w, "failure") /\ ~LastAttempt(worker[w].attempt)
         /\ RefuseHostname(w) => Goes(w, "abandon")
         /\ FinalizeSuccess(w) => Goes(w, "end")
         /\ RecordFailure(w) => Goes(w, "schedule")
         /\ ScheduleAttempt(w) => Goes(w, "end")
         /\ Abandon(w) => Goes(w, IF worker[w].counts THEN "count" ELSE "end")
         /\ CountFailure(w) => Goes(w, "end")
<1>1. ASSUME Send(w)
      PROVE  \/ Goes(w, "success") \/ Goes(w, "abandon")
             \/ Goes(w, "failure") /\ ~LastAttempt(worker[w].attempt)
  <2>1. CASE Leave(w, "success")
    BY <1>1, <2>1, LeaveGoes DEF Send, SendResults, Ats
  <2>2. CASE worker' = [worker EXCEPT ![w].at = "abandon", ![w].gone = TRUE]
    <3> DEFINE next == [worker[w] EXCEPT !.at = "abandon", !.gone = TRUE]
    <3>1. worker[w] \in Worker /\ worker' = [worker EXCEPT ![w] = next]
      BY <2>2
    <3>2. /\ next \in Worker /\ next.at = "abandon" /\ next.item = worker[w].item
          /\ next.number = worker[w].number /\ next.attempt = worker[w].attempt
          /\ next.counts = worker[w].counts
      BY <3>1 DEF Worker
    <3>3. worker[w].at = "send"
      BY <1>1 DEF Send, SendResults
    <3> HIDE DEF next
    <3> QED BY <3>1, <3>2, <3>3 DEF Goes
  <2>3. CASE Leave(w, IF LastAttempt(worker[w].attempt) THEN "abandon" ELSE "failure")
    <3>1. CASE LastAttempt(worker[w].attempt)
      BY <1>1, <2>3, <3>1, LeaveGoes DEF Send, SendResults, Ats
    <3>2. CASE ~LastAttempt(worker[w].attempt)
      BY <1>1, <2>3, <3>2, LeaveGoes DEF Send, SendResults, Ats
    <3> QED BY <3>1, <3>2
  <2> QED BY <1>1, <2>1, <2>2, <2>3 DEF Send, SendResults
<1>2. ASSUME RefuseHostname(w) PROVE Goes(w, "abandon")
  BY <1>2, LeaveGoes DEF RefuseHostname, Ats
<1>3. ASSUME FinalizeSuccess(w) PROVE Goes(w, "end")
  BY <1>3, LeaveGoes DEF FinalizeSuccess, Ats
<1>4. ASSUME RecordFailure(w) PROVE Goes(w, "schedule")
  BY <1>4, LeaveGoes DEF RecordFailure, Ats
<1>5. ASSUME ScheduleAttempt(w) PROVE Goes(w, "end")
  BY <1>5, LeaveGoes DEF ScheduleAttempt, Ats
<1>6. ASSUME Abandon(w) PROVE Goes(w, IF worker[w].counts THEN "count" ELSE "end")
  BY <1>6, LeaveGoes DEF Abandon, Ats
<1>7. ASSUME CountFailure(w) PROVE Goes(w, "end")
  BY <1>7, LeaveGoes DEF CountFailure, Ats
<1> QED BY <1>1, <1>2, <1>3, <1>4, <1>5, <1>6, <1>7

(* A job that is added: what it changes.                                     *)
LEMMA Added ==
  ASSUME jobs \in [JobIds -> Job], NEW id \in JobIds, AddJob(id)
  PROVE  /\ jobs' \in [JobIds -> Job]
         /\ \A j \in JobIds : jobs'[j] # jobs[j] =>
               j = id /\ jobs[j].state = "none" /\ jobs'[j].state = "queued"
         /\ jobs'[id].state # "none"
BY DEF AddJob, Job

(* A worker that takes a job.                                                *)
Takes(w, id) ==
  /\ jobs[id].state = "queued" /\ worker[w].at = "idle"
  /\ delivery[id[1]].status # "DELIVERED"
  /\ jobs' \in [JobIds -> Job] /\ jobs'[id].state = "active"
  /\ \A j \in JobIds \ {id} : jobs'[j] = jobs[j]
  /\ worker' \in [Workers -> Worker] /\ \A v \in Workers \ {w} : worker'[v] = worker[v]
  /\ worker'[w].item = id[1] /\ worker'[w].number = id[2] /\ JobOf(w)' = id
  /\ \/ worker'[w].at = "send" /\ worker'[w].attempt = delivery[id[1]].attempts + 1
     \/ worker'[w].at = "abandon" /\ worker'[w].attempt = delivery[id[1]].attempts

Skips(id) ==
  /\ jobs[id].state = "queued"
  /\ jobs' \in [JobIds -> Job] /\ jobs'[id].state = "completed"
  /\ \A j \in JobIds \ {id} : jobs'[j] = jobs[j]
  /\ worker' = worker

LEMMA StartTakes ==
  ASSUME TypeInv, NEW w \in Workers, NEW id \in JobIds, StartAttempt(w, id)
  PROVE  Takes(w, id) \/ Skips(id)
<1>1. /\ jobs \in [JobIds -> Job] /\ worker \in [Workers -> Worker]
      /\ delivery \in [Deliveries -> Delivery] /\ endpoint \in [Endpoints -> Endpoint]
  BY DEF TypeInv, TypeOK
<1>2. id[1] \in Deliveries /\ id[2] \in Numbers /\ id = <<id[1], id[2]>>
  BY Constants DEF JobIds, Numbers
<1>3. CASE delivery[id[1]].status = "DELIVERED"
  BY <1>1, <1>3 DEF StartAttempt, Skips, Job
<1>4. CASE delivery[id[1]].status # "DELIVERED"
  <2>1. PICK open \in BOOLEAN :
           open = (endpoint[EndpointOf(id[1])].enabled /\ ~endpoint[EndpointOf(id[1])].deleted)
    BY Zenon
  <2> DEFINE next == [at |-> IF open THEN "send" ELSE "abandon",
                      item |-> id[1], number |-> id[2],
                      attempt |-> IF open THEN delivery[id[1]].attempts + 1
                                          ELSE delivery[id[1]].attempts,
                      counts |-> open, gone |-> FALSE]
  <2>2. worker' = [worker EXCEPT ![w] = next]
    BY <1>4, <2>1, Zenon DEF StartAttempt
  <2>3. jobs' = [jobs EXCEPT ![id].state = "active"] /\ jobs[id].state = "queued"
        /\ worker[w].at = "idle"
    BY <1>4 DEF StartAttempt, Busy
  <2>4. delivery[id[1]].attempts \in Nat
    BY <1>1, <1>2 DEF Delivery
  <2>5. next \in Worker
    BY <1>2, <2>4 DEF Worker, Numbers
  <2>6. /\ next.item = id[1] /\ next.number = id[2]
        /\ \/ next.at = "send" /\ next.attempt = delivery[id[1]].attempts + 1
           \/ next.at = "abandon" /\ next.attempt = delivery[id[1]].attempts
    OBVIOUS
  <2> HIDE DEF next
  <2>7. worker'[w] = next /\ \A v \in Workers \ {w} : worker'[v] = worker[v]
    BY <1>1, <2>2
  <2>8. jobs' \in [JobIds -> Job] /\ jobs'[id].state = "active"
        /\ \A j \in JobIds \ {id} : jobs'[j] = jobs[j]
    BY <1>1, <2>3 DEF Job
  <2>9. JobOf(w)' = id
    BY <1>2, <2>6, <2>7 DEF JobOf
  <2>10. worker' \in [Workers -> Worker]
    BY <1>1, <2>2, <2>5
  <2> QED BY <1>4, <2>3, <2>6, <2>7, <2>8, <2>9, <2>10 DEF Takes
<1> QED BY <1>3, <1>4

(* A worker that stops, and what becomes of its job.                         *)
Stops(w, state) ==
  /\ worker[w].at # "idle" /\ worker' = [worker EXCEPT ![w] = IdleWorker]
  /\ worker' \in [Workers -> Worker] /\ worker'[w].at = "idle" /\ worker'[w].item = NoDelivery
  /\ \A v \in Workers \ {w} : worker'[v] = worker[v]
  /\ jobs' \in [JobIds -> Job] /\ jobs'[JobOf(w)].state = state
  /\ \A j \in JobIds \ {JobOf(w)} : jobs'[j] = jobs[j]

LEMMA StopStops ==
  ASSUME TypeInv, NEW w \in Workers
  PROVE  /\ EndJob(w) => Stops(w, "completed")
         /\ FailAttempt(w) => Stops(w, "failed")
         /\ CrashWorker(w) => Stops(w, "queued") \/ Stops(w, "failed")
<1>1. /\ jobs \in [JobIds -> Job] /\ worker \in [Workers -> Worker] /\ MaxJobStalls \in Nat
  BY Constants DEF TypeInv, TypeOK
<1>2. IdleWorker \in Worker /\ IdleWorker.at = "idle" /\ IdleWorker.item = NoDelivery
  BY Constants DEF IdleWorker, Worker
<1>3. worker[w].at # "idle" => JobOf(w) \in JobIds
  BY DEF TypeInv, WorkerInv, Busy
<1>4. ASSUME worker[w].at # "idle", worker' = [worker EXCEPT ![w] = IdleWorker],
             NEW job \in Job, jobs' = [jobs EXCEPT ![JobOf(w)] = job]
      PROVE  Stops(w, job.state)
  BY <1>1, <1>2, <1>3, <1>4 DEF Stops
<1>5. ASSUME worker[w].at # "idle", NEW state \in {"completed", "failed"},
             worker' = [worker EXCEPT ![w] = IdleWorker],
             jobs' = [jobs EXCEPT ![JobOf(w)].state = state]
      PROVE  Stops(w, state)
  <2> DEFINE job == [jobs[JobOf(w)] EXCEPT !.state = state]
  <2>1. job \in Job /\ job.state = state /\ jobs' = [jobs EXCEPT ![JobOf(w)] = job]
    BY <1>1, <1>3, <1>5 DEF Job
  <2> HIDE DEF job
  <2> QED BY <1>4, <1>5, <2>1
<1>6. ASSUME EndJob(w) PROVE Stops(w, "completed")
  BY <1>5, <1>6 DEF EndJob
<1>7. ASSUME FailAttempt(w) PROVE Stops(w, "failed")
  BY <1>5, <1>7 DEF FailAttempt, Busy, StateAfterError
<1>8. ASSUME CrashWorker(w) PROVE Stops(w, "queued") \/ Stops(w, "failed")
  <2> DEFINE job == [state |-> IF jobs[JobOf(w)].stalls < MaxJobStalls THEN "queued" ELSE "failed",
                     stalls |-> jobs[JobOf(w)].stalls + 1]
  <2>1. jobs' = [jobs EXCEPT ![JobOf(w)] = job] /\ worker[w].at # "idle"
        /\ worker' = [worker EXCEPT ![w] = IdleWorker]
    BY <1>8 DEF CrashWorker, Busy
  <2>2. job \in Job /\ job.state \in {"queued", "failed"}
    BY <1>1, <1>3, <2>1 DEF Job
  <2> HIDE DEF job
  <2> QED BY <1>4, <2>1, <2>2
<1> QED BY <1>6, <1>7, <1>8

(* The types and the workers after a step that leaves the workers alone.     *)
LEMMA WorkersAlone ==
  ASSUME TypeInv, UNCHANGED worker
  PROVE  /\ worker' \in [Workers -> Worker]
         /\ \A w \in Workers : WorkerInv(w)' /\ (Busy(w)' => JobOf(w)' \in JobIds)
BY DEF TypeInv, TypeOK, WorkerInv, Busy, JobOf

(* .. and after one that moves a worker along its attempt.                   *)
LEMMA GoesOn ==
  ASSUME TypeInv, NEW w \in Workers, NEW at \in Ats \ {"idle"}, Goes(w, at),
         at \in {"failure", "schedule"} => worker[w].attempt < MaxDeliveryAttempts
  PROVE  /\ worker' \in [Workers -> Worker]
         /\ \A v \in Workers : WorkerInv(v)' /\ (Busy(v)' => JobOf(v)' \in JobIds)
<1>1. \A v \in Workers : WorkerInv(v)
  BY DEF TypeInv
<1>2. WorkerInv(w)'
  BY <1>1 DEF Goes, WorkerInv, Busy, JobOf
<1>3. ASSUME NEW v \in Workers \ {w} PROVE WorkerInv(v)'
  BY <1>1, <1>3 DEF Goes, WorkerInv, Busy, JobOf
<1> QED BY <1>2, <1>3 DEF Goes, WorkerInv

LEMMA ItemTypes ==
  ASSUME TypeInv, NEW w \in Workers, worker[w].at # "idle"
  PROVE  /\ worker[w].item \in Deliveries /\ worker[w].attempt \in Nat
         /\ EndpointOf(worker[w].item) \in Endpoints
         /\ JobOf(w) \in JobIds /\ JobOf(w) = <<worker[w].item, worker[w].number>>
<1>1. worker[w].item \in Deliveries /\ JobOf(w) \in JobIds
  BY DEF TypeInv, WorkerInv, Busy
<1>2. worker[w] \in Worker
  BY DEF TypeInv, TypeOK
<1> QED BY <1>1, <1>2 DEF Worker, Deliveries, EndpointOf, JobOf

LEMMA NextJobIsAnId ==
  ASSUME TypeInv, NEW w \in Workers, worker[w].at = "schedule"
  PROVE  NextJob(w) \in JobIds
<1>1. worker[w].item \in Deliveries /\ worker[w].attempt \in Nat
  BY ItemTypes
<1>2. worker[w].attempt < MaxDeliveryAttempts
  BY DEF TypeInv, WorkerInv
<1>3. worker[w].attempt + 1 \in 1..(MaxDeliveryAttempts + MaxRetries)
  BY <1>1, <1>2, Constants
<1> QED BY <1>1, <1>3 DEF NextJob, JobIds

-----------------------------------------------------------------------------
(* What holds of the rest of the state, by the variable.                     *)

RowTypes ==
  /\ endpoint \in [Endpoints -> Endpoint]
  /\ delivery \in [Deliveries -> Delivery]
  /\ jobs \in [JobIds -> Job]
  /\ sent \in [Deliveries -> Nat]
  /\ streak \in [Endpoints -> Nat]
LocalTypes ==
  /\ dispatcher \in [Events -> Dispatcher]
  /\ retrier \in Retrier
  /\ retrier.at # "idle" => retrier.item \in Deliveries
  /\ budget \in [retries : 0..MaxRetries, crashes : Nat, errors : Nat, edits : Nat]

LEMMA TypeParts ==
  TypeInv <=> /\ RowTypes /\ LocalTypes /\ worker \in [Workers -> Worker]
              /\ \A w \in Workers : WorkerInv(w) /\ (Busy(w) => JobOf(w) \in JobIds)
BY DEF TypeInv, TypeOK, RowTypes, LocalTypes, WorkerInv

LEMMA TypeInit == Init => TypeInv
<1> SUFFICES ASSUME Init PROVE TypeInv
  OBVIOUS
<1> USE Constants
<1>1. RowTypes
  BY DEF Init, RowTypes, Endpoint, Delivery, Job
<1>2. LocalTypes
  BY DEF Init, LocalTypes, Dispatcher, Retrier, IdleRetrier
<1>3. IdleWorker \in Worker /\ IdleWorker.at = "idle" /\ IdleWorker.item = NoDelivery
  BY DEF IdleWorker, Worker
<1>4. worker \in [Workers -> Worker] /\ \A w \in Workers : worker[w] = IdleWorker
  BY <1>3 DEF Init
<1>5. \A w \in Workers : WorkerInv(w) /\ ~Busy(w)
  BY <1>3, <1>4 DEF WorkerInv, Busy
<1> QED BY <1>1, <1>2, <1>4, <1>5, TypeParts

(* Every step keeps the rows' types ..                                       *)
LEMMA RowsTyped ==
  ASSUME TypeInv, [Next]_vars
  PROVE  RowTypes'
<1> USE Constants
<1>1. /\ endpoint \in [Endpoints -> Endpoint] /\ delivery \in [Deliveries -> Delivery]
      /\ jobs \in [JobIds -> Job] /\ sent \in [Deliveries -> Nat]
      /\ streak \in [Endpoints -> Nat] /\ dispatcher \in [Events -> Dispatcher]
      /\ retrier \in Retrier
      /\ budget \in [retries : 0..MaxRetries, crashes : Nat, errors : Nat, edits : Nat]
  BY DEF TypeInv, TypeOK
<1>2. ASSUME UNCHANGED <<endpoint, delivery, jobs, sent, streak>> PROVE RowTypes'
  BY <1>1, <1>2 DEF RowTypes
<1>3. ASSUME NEW v \in Events, Dispatch(v) PROVE RowTypes'
  BY <1>2, <1>3 DEF Dispatch, DispatchEvent, SendTestEvent, DispatchFails
<1>4. ASSUME NEW v \in Events, NEW e \in Endpoints, CreateDelivery(v, e) PROVE RowTypes'
  BY <1>1, <1>4 DEF CreateDelivery, RowTypes, Delivery
<1>5. ASSUME NEW v \in Events, NEW e \in Endpoints, EnqueueFirst(v, e) PROVE RowTypes'
  <2>1. <<<<v, e>>, 1>> \in JobIds
    BY DEF JobIds, Deliveries
  <2>2. jobs' \in [JobIds -> Job]
    BY <1>1, <1>5, <2>1, Added DEF EnqueueFirst
  <2> QED BY <1>1, <1>5, <2>2 DEF EnqueueFirst, RowTypes
<1>6. ASSUME NEW w \in Workers, NEW id \in JobIds, StartAttempt(w, id) PROVE RowTypes'
  <2>1. jobs' \in [JobIds -> Job]
    BY <1>6, StartTakes DEF Takes, Skips
  <2> QED BY <1>1, <1>6, <2>1 DEF StartAttempt, RowTypes
<1>7. ASSUME NEW w \in Workers, AttemptStep(w) PROVE RowTypes'
  <2>1. CASE worker[w].at = "idle"
    BY <1>7, <2>1 DEF AttemptStep, Send, SendResults, RefuseHostname, FinalizeSuccess, RecordFailure,
                      ScheduleAttempt, Abandon, CountFailure, EndJob
  <2>2. CASE worker[w].at # "idle"
    <3>1. /\ worker[w].item \in Deliveries /\ worker[w].attempt \in Nat
          /\ EndpointOf(worker[w].item) \in Endpoints
      BY <2>2, ItemTypes
    <3>2. CASE Send(w)
      BY <1>1, <3>1, <3>2 DEF Send, SendResults, RowTypes
    <3>3. CASE RefuseHostname(w)
      BY <1>2, <3>3 DEF RefuseHostname
    <3>4. CASE FinalizeSuccess(w)
      BY <1>1, <3>1, <3>4 DEF FinalizeSuccess, RowTypes, Delivery, Endpoint
    <3>5. CASE RecordFailure(w)
      BY <1>1, <3>1, <3>5 DEF RecordFailure, FailedOnce, RowTypes, Delivery
    <3>6. CASE ScheduleAttempt(w)
      <4>1. jobs' \in [JobIds -> Job]
        BY <1>1, <3>6, NextJobIsAnId, Added DEF ScheduleAttempt
      <4> QED BY <1>1, <3>6, <4>1 DEF ScheduleAttempt, RowTypes
    <3>7. CASE Abandon(w)
      BY <1>1, <3>1, <3>7 DEF Abandon, GivenUp, RowTypes, Delivery
    <3>8. CASE CountFailure(w)
      <4>1. PICK on \in BOOLEAN :
               on = (endpoint[EndpointOf(worker[w].item)].enabled
                       /\ ~ShouldDisable(endpoint[EndpointOf(worker[w].item)].failures + 1,
                                         worker[w].gone))
        BY Zenon
      <4>2. endpoint' = [endpoint EXCEPT
               ![EndpointOf(worker[w].item)].failures = endpoint[EndpointOf(worker[w].item)].failures + 1,
               ![EndpointOf(worker[w].item)].enabled = on]
        BY <3>8, <4>1, Zenon DEF CountFailure
      <4>3. endpoint' \in [Endpoints -> Endpoint]
        BY <1>1, <3>1, <4>2 DEF Endpoint
      <4> QED BY <1>1, <3>8, <4>3 DEF CountFailure, RowTypes
    <3>9. CASE EndJob(w)
      <4>1. jobs' \in [JobIds -> Job]
        BY <3>9, StopStops DEF Stops
      <4> QED BY <1>1, <3>9, <4>1 DEF EndJob, RowTypes
    <3> QED BY <1>7, <3>2, <3>3, <3>4, <3>5, <3>6, <3>7, <3>8, <3>9 DEF AttemptStep
  <2> QED BY <2>1, <2>2
<1>8. ASSUME NEW w \in Workers, FailAttempt(w) \/ CrashWorker(w) PROVE RowTypes'
  <2>1. jobs' \in [JobIds -> Job]
    BY <1>8, StopStops DEF Stops
  <2> QED BY <1>1, <1>8, <2>1 DEF FailAttempt, CrashWorker, RowTypes
<1>9. ASSUME NEW e \in Endpoints, Edit(e) PROVE RowTypes'
  <2>1. CASE Remove(e)
    BY <1>1, <2>1 DEF Remove, RowTypes, Endpoint
  <2>2. ASSUME NEW enabled \in BOOLEAN, SetEnabled(e, enabled) PROVE RowTypes'
    <3>1. endpoint' = [endpoint EXCEPT ![e].enabled = enabled]
      BY <2>2 DEF SetEnabled
    <3>2. endpoint' \in [Endpoints -> Endpoint]
      BY <1>1, <3>1 DEF Endpoint
    <3>3. streak' \in [Endpoints -> Nat]
      <4>1. CASE enabled
        BY <1>1, <2>2, <4>1 DEF SetEnabled
      <4>2. CASE ~enabled
        BY <1>1, <2>2, <4>2 DEF SetEnabled
      <4> QED BY <4>1, <4>2
    <3> QED BY <1>1, <2>2, <3>2, <3>3 DEF SetEnabled, RowTypes
  <2> QED BY <1>9, <2>1, <2>2 DEF Edit
<1>10. ASSUME Retry PROVE RowTypes'
  <2>1. CASE \/ \E d \in Deliveries : CheckRetry(d)
             \/ RetryFails
    BY <1>2, <2>1 DEF CheckRetry, RetryFails
  <2>2. retrier.at # "idle" => retrier.item \in Deliveries
    BY DEF TypeInv, TypeOK
  <2>3. CASE WriteRetry
    BY <1>1, <2>2, <2>3 DEF WriteRetry, RowTypes, Delivery
  <2>4. CASE AddRetry
    <3>1. budget.retries \in 0..MaxRetries
      BY <1>1
    <3>2. retrier.at = "idle" \/ retrier.item \in Deliveries
      BY <2>2
    <3>3. <<retrier.item, MaxDeliveryAttempts + budget.retries>> \in JobIds
      BY <2>2, <2>4, <3>1 DEF AddRetry, JobIds
    <3>4. jobs' \in [JobIds -> Job]
      BY <1>1, <2>4, <3>3, Added DEF AddRetry
    <3> QED BY <1>1, <2>4, <3>4 DEF AddRetry, RowTypes
  <2> QED BY <1>10, <2>1, <2>3, <2>4 DEF Retry
<1>11. CASE UNCHANGED vars
  BY <1>2, <1>11 DEF vars
<1> QED
  BY <1>3, <1>4, <1>5, <1>6, <1>7, <1>8, <1>9, <1>10, <1>11
  DEF Next, EnqueueStep, Deliver

(* .. the local state of the dispatchers and of the retry ..                 *)
LEMMA LocalsTyped ==
  ASSUME TypeInv, [Next]_vars
  PROVE  LocalTypes'
<1> USE Constants
<1>1. /\ dispatcher \in [Events -> Dispatcher] /\ retrier \in Retrier
      /\ budget \in [retries : 0..MaxRetries, crashes : Nat, errors : Nat, edits : Nat]
      /\ retrier.at # "idle" => retrier.item \in Deliveries
  BY DEF TypeInv, TypeOK
<1>2. ASSUME UNCHANGED <<dispatcher, retrier, budget>> PROVE LocalTypes'
  BY <1>1, <1>2 DEF LocalTypes
<1>3. ASSUME NEW v \in Events, Dispatch(v) PROVE LocalTypes'
  <2>1. CASE DispatchEvent(v)
    BY <1>1, <2>1 DEF DispatchEvent, LocalTypes, Dispatcher
  <2>2. CASE \E e \in Endpoints : SendTestEvent(v, e)
    BY <1>1, <2>2 DEF SendTestEvent, LocalTypes, Dispatcher
  <2>3. CASE DispatchFails(v)
    BY <1>1, <2>3 DEF DispatchFails, LocalTypes, Dispatcher
  <2> QED BY <1>3, <2>1, <2>2, <2>3 DEF Dispatch
<1>4. ASSUME NEW v \in Events, NEW e \in Endpoints, CreateDelivery(v, e) \/ EnqueueFirst(v, e)
      PROVE  LocalTypes'
  BY <1>1, <1>4 DEF CreateDelivery, EnqueueFirst, LocalTypes, Dispatcher
<1>5. ASSUME NEW w \in Workers, (\E id \in JobIds : StartAttempt(w, id)) \/ AttemptStep(w)
      PROVE  LocalTypes'
  BY <1>2, <1>5 DEF StartAttempt, AttemptStep, Send, SendResults, RefuseHostname, FinalizeSuccess,
                    RecordFailure, ScheduleAttempt, Abandon, CountFailure, EndJob
<1>6. ASSUME NEW w \in Workers, FailAttempt(w) \/ CrashWorker(w) PROVE LocalTypes'
  BY <1>1, <1>6 DEF FailAttempt, CrashWorker, LocalTypes
<1>7. ASSUME NEW e \in Endpoints, Edit(e) PROVE LocalTypes'
  BY <1>1, <1>7 DEF Edit, SetEnabled, Remove, LocalTypes
<1>8. ASSUME NEW d \in Deliveries, CheckRetry(d) PROVE LocalTypes'
  BY <1>1, <1>8 DEF CheckRetry, LocalTypes, Retrier
<1>9. ASSUME WriteRetry \/ AddRetry \/ RetryFails PROVE LocalTypes'
  BY <1>1, <1>9 DEF WriteRetry, AddRetry, RetryFails, LocalTypes, Retrier, IdleRetrier
<1>10. CASE UNCHANGED vars
  BY <1>2, <1>10 DEF vars
<1> QED
  BY <1>3, <1>4, <1>5, <1>6, <1>7, <1>8, <1>9, <1>10
  DEF Next, EnqueueStep, Deliver, Retry

(* .. and the workers'.                                                      *)
LEMMA WorkersTyped ==
  ASSUME TypeInv, [Next]_vars
  PROVE  /\ worker' \in [Workers -> Worker]
         /\ \A w \in Workers : WorkerInv(w)' /\ (Busy(w)' => JobOf(w)' \in JobIds)
<1> DEFINE Goal == /\ worker' \in [Workers -> Worker]
                   /\ \A w \in Workers : WorkerInv(w)' /\ (Busy(w)' => JobOf(w)' \in JobIds)
<1> SUFFICES Goal
  OBVIOUS
<1> HIDE DEF Goal
<1>1. worker \in [Workers -> Worker] /\ \A w \in Workers : WorkerInv(w)
  BY DEF TypeInv, TypeOK
<1>2. ASSUME UNCHANGED worker PROVE Goal
  BY <1>2, WorkersAlone DEF Goal
<1>3. ASSUME NEW v \in Events, Dispatch(v) \/ EnqueueStep(v) PROVE Goal
  BY <1>2, <1>3 DEF Dispatch, DispatchEvent, SendTestEvent, DispatchFails, EnqueueStep,
                    CreateDelivery, EnqueueFirst
<1>4. ASSUME NEW w \in Workers, NEW id \in JobIds, StartAttempt(w, id) PROVE Goal
  <2>1. CASE Skips(id)
    BY <1>2, <2>1 DEF Skips
  <2>2. CASE Takes(w, id)
    <3>1. id[1] \in Deliveries
      BY DEF JobIds
    <3>2. WorkerInv(w)' /\ JobOf(w)' \in JobIds
      BY <2>2, <3>1 DEF Takes, WorkerInv, Busy
    <3>3. ASSUME NEW v \in Workers \ {w} PROVE WorkerInv(v)'
      BY <1>1, <2>2, <3>3 DEF Takes, WorkerInv, Busy, JobOf
    <3>4. \A v \in Workers : WorkerInv(v)' /\ worker' \in [Workers -> Worker]
      BY <2>2, <3>2, <3>3 DEF Takes
    <3> QED BY <2>2, <3>4 DEF Goal, WorkerInv, Takes
  <2> QED BY <1>4, <2>1, <2>2, StartTakes
<1>5. ASSUME NEW w \in Workers, AttemptStep(w) PROVE Goal
  <2>1. ASSUME NEW at \in Ats \ {"idle"}, Goes(w, at),
               at \in {"failure", "schedule"} => worker[w].attempt < MaxDeliveryAttempts
        PROVE  Goal
    BY <2>1, GoesOn DEF Goal
  <2>2. worker[w].attempt \in Nat /\ MaxDeliveryAttempts \in Nat
    BY <1>1, Constants DEF Worker
  <2>3. CASE Send(w)
    BY <1>1, <2>1, <2>2, <2>3, AttemptGoes DEF Ats, LastAttempt
  <2>4. CASE RefuseHostname(w) \/ FinalizeSuccess(w) \/ ScheduleAttempt(w) \/ CountFailure(w)
    BY <1>1, <2>1, <2>4, AttemptGoes DEF Ats
  <2>5. CASE RecordFailure(w)
    <3>1. worker[w].attempt < MaxDeliveryAttempts
      BY <1>1, <2>5 DEF RecordFailure, WorkerInv
    <3> QED BY <1>1, <2>1, <2>5, <3>1, AttemptGoes DEF Ats
  <2>6. CASE Abandon(w)
    <3>1. Goes(w, "count") \/ Goes(w, "end")
      BY <1>1, <2>6, AttemptGoes
    <3> QED BY <2>1, <3>1 DEF Ats
  <2>7. CASE EndJob(w)
    <3>1. Stops(w, "completed")
      BY <2>7, StopStops
    <3>2. WorkerInv(w)' /\ ~Busy(w)'
      BY <3>1 DEF Stops, WorkerInv, Busy
    <3>3. ASSUME NEW v \in Workers \ {w} PROVE WorkerInv(v)'
      BY <1>1, <3>1, <3>3 DEF Stops, WorkerInv, Busy, JobOf
    <3> QED BY <3>1, <3>2, <3>3 DEF Goal, WorkerInv, Stops
  <2> QED BY <1>5, <2>3, <2>4, <2>5, <2>6, <2>7 DEF AttemptStep
<1>6. ASSUME NEW w \in Workers, FailAttempt(w) \/ CrashWorker(w) PROVE Goal
  <2>1. Stops(w, "failed") \/ Stops(w, "queued")
    BY <1>6, StopStops
  <2>2. WorkerInv(w)' /\ ~Busy(w)' /\ worker' \in [Workers -> Worker]
    BY <2>1 DEF Stops, WorkerInv, Busy
  <2>3. ASSUME NEW v \in Workers \ {w} PROVE WorkerInv(v)'
    BY <1>1, <2>1, <2>3 DEF Stops, WorkerInv, Busy, JobOf
  <2> QED BY <2>2, <2>3 DEF Goal, WorkerInv
<1>7. ASSUME NEW e \in Endpoints, Edit(e) PROVE Goal
  BY <1>2, <1>7 DEF Edit, SetEnabled, Remove
<1>8. ASSUME Retry PROVE Goal
  BY <1>2, <1>8 DEF Retry, CheckRetry, WriteRetry, AddRetry, RetryFails
<1>9. CASE UNCHANGED vars
  BY <1>2, <1>9 DEF vars
<1> QED BY <1>3, <1>4, <1>5, <1>6, <1>7, <1>8, <1>9 DEF Next, Deliver

LEMMA TypeStep == TypeInv /\ [Next]_vars => TypeInv'
<1> SUFFICES ASSUME TypeInv, [Next]_vars PROVE TypeInv'
  OBVIOUS
<1>1. /\ RowTypes' /\ LocalTypes' /\ worker' \in [Workers -> Worker]
      /\ \A w \in Workers : WorkerInv(w)' /\ (Busy(w)' => JobOf(w)' \in JobIds)
  BY RowsTyped, LocalsTyped, WorkersTyped
<1> QED BY <1>1 DEF TypeInv, TypeOK, RowTypes, LocalTypes, WorkerInv

(* The state of the webhooks has its types: endpoint and delivery rows, jobs *)
(* under the ids that doProcess and retryDelivery make, the attempts under   *)
(* way.                                                                      *)
THEOREM TypeCorrect == Spec => []TypeOK
<1>1. TypeInv => TypeOK
  BY DEF TypeInv
<1> QED BY <1>1, TypeInit, TypeStep, PTL DEF Spec

-----------------------------------------------------------------------------
(* One worker per job *)

(* The job of a busy worker is active, and no other worker has it.           *)
JobsInv ==
  /\ \A w \in Workers : Busy(w) => jobs[JobOf(w)].state = "active"
  /\ \A w, v \in Workers : Busy(w) /\ Busy(v) /\ w # v => JobOf(w) # JobOf(v)

LEMMA JobsInit == Init => JobsInv
<1> SUFFICES ASSUME Init PROVE JobsInv
  OBVIOUS
<1>1. \A w \in Workers : ~Busy(w)
  BY DEF Init, Busy, IdleWorker
<1> QED BY <1>1 DEF JobsInv

(* Jobs may be queued, and workers may go on.                                *)
OnlyQueues == \A j \in JobIds : jobs'[j] # jobs[j] => jobs[j].state # "active"
SameJobs == \A w \in Workers : Busy(w)' => Busy(w) /\ JobOf(w)' = JobOf(w)

LEMMA JobsKept ==
  ASSUME TypeInv, JobsInv, OnlyQueues, SameJobs
  PROVE  JobsInv'
<1>1. ASSUME NEW w \in Workers, Busy(w)' PROVE jobs'[JobOf(w)'].state = "active"
  <2>1. Busy(w) /\ JobOf(w)' = JobOf(w) /\ JobOf(w) \in JobIds
    BY <1>1 DEF SameJobs, TypeInv, WorkerInv
  <2>2. jobs[JobOf(w)].state = "active"
    BY <2>1 DEF JobsInv
  <2> QED BY <2>1, <2>2 DEF OnlyQueues
<1>2. ASSUME NEW w \in Workers, NEW v \in Workers, Busy(w)', Busy(v)', w # v
      PROVE  JobOf(w)' # JobOf(v)'
  BY <1>2 DEF SameJobs, JobsInv
<1> QED BY <1>1, <1>2 DEF JobsInv

LEMMA StopKeepsJobs ==
  ASSUME TypeInv, JobsInv, NEW w \in Workers,
         NEW state \in {"completed", "failed", "queued"}, Stops(w, state)
  PROVE  JobsInv'
<1>1. Busy(w) /\ ~Busy(w)'
  BY DEF Stops, Busy
<1>2. ASSUME NEW v \in Workers, Busy(v)'
      PROVE  v # w /\ Busy(v) /\ JobOf(v)' = JobOf(v) /\ JobOf(v) \in JobIds \ {JobOf(w)}
  <2>1. v # w /\ worker'[v] = worker[v]
    BY <1>1, <1>2 DEF Stops
  <2>2. Busy(v) /\ JobOf(v)' = JobOf(v)
    BY <1>2, <2>1 DEF Busy, JobOf
  <2>3. JobOf(v) \in JobIds
    BY <2>2 DEF TypeInv, WorkerInv
  <2> QED BY <1>1, <2>1, <2>2, <2>3 DEF JobsInv
<1>3. ASSUME NEW v \in Workers, Busy(v)' PROVE jobs'[JobOf(v)'].state = "active"
  BY <1>2, <1>3 DEF Stops, JobsInv
<1>4. ASSUME NEW u \in Workers, NEW v \in Workers, Busy(u)', Busy(v)', u # v
      PROVE  JobOf(u)' # JobOf(v)'
  BY <1>2, <1>4 DEF JobsInv
<1> QED BY <1>3, <1>4 DEF JobsInv

LEMMA JobsStep == TypeInv /\ JobsInv /\ [Next]_vars => JobsInv'
<1> SUFFICES ASSUME TypeInv, JobsInv, [Next]_vars PROVE JobsInv'
  OBVIOUS
<1>1. /\ jobs \in [JobIds -> Job] /\ worker \in [Workers -> Worker]
      /\ retrier.at # "idle" => retrier.item \in Deliveries
      /\ budget.retries \in 0..MaxRetries
  BY DEF TypeInv, TypeOK
<1>2. ASSUME UNCHANGED worker PROVE SameJobs
  BY <1>2 DEF SameJobs, Busy, JobOf
<1>3. ASSUME UNCHANGED jobs PROVE OnlyQueues
  BY <1>3 DEF OnlyQueues
<1>4. ASSUME NEW id \in JobIds, AddJob(id) PROVE OnlyQueues
  BY <1>1, <1>4, Added DEF OnlyQueues
<1>5. ASSUME NEW w \in Workers, NEW at \in Ats, Goes(w, at) PROVE SameJobs
  <2>1. Busy(w) /\ JobOf(w)' = JobOf(w)
    BY <1>5 DEF Goes, Busy, JobOf
  <2>2. ASSUME NEW v \in Workers \ {w} PROVE Busy(v)' = Busy(v) /\ JobOf(v)' = JobOf(v)
    BY <1>5, <2>2 DEF Goes, Busy, JobOf
  <2> QED BY <2>1, <2>2 DEF SameJobs
<1>6. ASSUME NEW v \in Events, Dispatch(v) PROVE JobsInv'
  BY <1>2, <1>3, <1>6, JobsKept DEF Dispatch, DispatchEvent, SendTestEvent, DispatchFails
<1>7. ASSUME NEW v \in Events, NEW e \in Endpoints, CreateDelivery(v, e) \/ EnqueueFirst(v, e)
      PROVE  JobsInv'
  <2>1. <<<<v, e>>, 1>> \in JobIds
    BY Constants DEF JobIds, Deliveries
  <2> QED BY <1>2, <1>3, <1>4, <1>7, <2>1, JobsKept DEF CreateDelivery, EnqueueFirst
<1>8. ASSUME NEW w \in Workers, NEW id \in JobIds, StartAttempt(w, id) PROVE JobsInv'
  <2>1. CASE Skips(id)
    <3>1. OnlyQueues
      BY <2>1 DEF Skips, OnlyQueues
    <3> QED BY <1>2, <2>1, <3>1, JobsKept DEF Skips
  <2>2. CASE Takes(w, id)
    <3>1. ASSUME NEW v \in Workers \ {w}, Busy(v)'
          PROVE  Busy(v) /\ JobOf(v)' = JobOf(v) /\ JobOf(v) \in JobIds /\ JobOf(v) # id
      <4>1. Busy(v) /\ JobOf(v)' = JobOf(v)
        BY <2>2, <3>1 DEF Takes, Busy, JobOf
      <4>2. JobOf(v) \in JobIds /\ jobs[JobOf(v)].state = "active" /\ jobs[id].state = "queued"
        BY <2>2, <4>1 DEF TypeInv, WorkerInv, JobsInv, Takes
      <4> QED BY <4>1, <4>2
    <3>2. JobOf(w)' = id /\ jobs'[id].state = "active"
          /\ \A j \in JobIds \ {id} : jobs'[j] = jobs[j]
      BY <2>2 DEF Takes
    <3>3. ASSUME NEW v \in Workers, Busy(v)' PROVE jobs'[JobOf(v)'].state = "active"
      <4>1. CASE v = w
        BY <3>2, <4>1
      <4>2. CASE v # w
        BY <3>1, <3>2, <3>3, <4>2 DEF JobsInv
      <4> QED BY <4>1, <4>2
    <3>4. ASSUME NEW u \in Workers, NEW v \in Workers, Busy(u)', Busy(v)', u # v
          PROVE  JobOf(u)' # JobOf(v)'
      <4>1. CASE u = w
        BY <3>1, <3>2, <3>4, <4>1
      <4>2. CASE v = w
        BY <3>1, <3>2, <3>4, <4>2
      <4>3. CASE u # w /\ v # w
        BY <3>1, <3>4, <4>3 DEF JobsInv
      <4> QED BY <4>1, <4>2, <4>3
    <3> QED BY <3>3, <3>4 DEF JobsInv
  <2> QED BY <1>8, <2>1, <2>2, StartTakes
<1>9. ASSUME NEW w \in Workers, AttemptStep(w) PROVE JobsInv'
  <2>1. CASE ScheduleAttempt(w)
    <3>1. OnlyQueues
      BY <1>4, <2>1, NextJobIsAnId DEF ScheduleAttempt
    <3>2. SameJobs
      BY <1>1, <1>5, <2>1, AttemptGoes DEF Ats
    <3> QED BY <3>1, <3>2, JobsKept
  <2>2. CASE EndJob(w)
    <3>1. Stops(w, "completed")
      BY <2>2, StopStops
    <3> QED BY <3>1, StopKeepsJobs
  <2>3. CASE Send(w) \/ RefuseHostname(w) \/ FinalizeSuccess(w) \/ RecordFailure(w)
             \/ Abandon(w) \/ CountFailure(w)
    <3>1. SameJobs
      <4>1. \E at \in Ats : Goes(w, at)
        BY <1>1, <2>3, AttemptGoes DEF Ats
      <4> QED BY <1>5, <4>1
    <3>2. UNCHANGED jobs
      BY <2>3 DEF Send, SendResults, RefuseHostname, FinalizeSuccess, RecordFailure, Abandon, CountFailure
    <3> QED BY <1>3, <3>1, <3>2, JobsKept
  <2> QED BY <1>9, <2>1, <2>2, <2>3 DEF AttemptStep
<1>10. ASSUME NEW w \in Workers, FailAttempt(w) \/ CrashWorker(w) PROVE JobsInv'
  BY <1>10, StopStops, StopKeepsJobs
<1>11. ASSUME NEW e \in Endpoints, Edit(e) PROVE JobsInv'
  BY <1>2, <1>3, <1>11, JobsKept DEF Edit, SetEnabled, Remove
<1>12. ASSUME Retry PROVE JobsInv'
  <2>1. CASE AddRetry
    <3>1. <<retrier.item, MaxDeliveryAttempts + budget.retries>> \in JobIds
      BY <1>1, <2>1, Constants DEF AddRetry, JobIds
    <3> QED BY <1>2, <1>4, <2>1, <3>1, JobsKept DEF AddRetry
  <2>2. CASE (\E d \in Deliveries : CheckRetry(d)) \/ WriteRetry \/ RetryFails
    BY <1>2, <1>3, <2>2, JobsKept DEF CheckRetry, WriteRetry, RetryFails
  <2> QED BY <1>12, <2>1, <2>2 DEF Retry
<1>13. CASE UNCHANGED vars
  BY <1>2, <1>3, <1>13, JobsKept DEF vars
<1> QED
  BY <1>6, <1>7, <1>8, <1>9, <1>10, <1>11, <1>12, <1>13 DEF Next, EnqueueStep, Deliver

-----------------------------------------------------------------------------
(* One chain of attempts per delivery *)

(* A delivery whose first job was never queued, one that is being retried by *)
(* hand: each may still start a chain.                                       *)
First(d) == IF jobs[<<d, 1>>].state = "none" THEN 1 ELSE 0
Retried(d) == IF retrier.at # "idle" /\ retrier.item = d THEN 1 ELSE 0

Within(d) ==
  Cardinality(Chains(d)) + First(d) + Retried(d) <= 1 + budget.retries + budget.crashes

ChainsInv ==
  /\ budget.retries = 0 => retrier.at = "idle"
  /\ \A d \in Deliveries : Within(d)

LEMMA InChains ==
  ASSUME NEW d, NEW j
  PROVE  /\ j \in Chains(d) <=>
              \/ j \in JobIds /\ j[1] = d /\ jobs[j].state = "queued"
              \/ \E w \in Workers : worker[w].item = d /\ worker[w].at # "end" /\ j = JobOf(w)
         /\ j \in Chains(d)' <=>
              \/ j \in JobIds /\ j[1] = d /\ jobs'[j].state = "queued"
              \/ \E w \in Workers : worker'[w].item = d /\ worker'[w].at # "end" /\ j = JobOf(w)'
BY DEF Chains

LEMMA ChainsFinite ==
  ASSUME TypeInv, NEW d \in Deliveries
  PROVE  IsFiniteSet(Chains(d)) /\ Cardinality(Chains(d)) \in Nat
<1> DEFINE ids == {d} \X (1..(MaxDeliveryAttempts + MaxRetries))
<1>1. IsFiniteSet(ids)
  <2>1. IsFiniteSet({d})
    BY FS_Singleton
  <2>2. 1 \in Int /\ MaxDeliveryAttempts + MaxRetries \in Int
    BY Constants
  <2>3. IsFiniteSet(1..(MaxDeliveryAttempts + MaxRetries))
    BY <2>2, FS_Interval
  <2> QED BY <2>1, <2>3, FS_Product
<1>2. ASSUME NEW j \in Chains(d) PROVE j \in ids
  <2>1. CASE j \in JobIds /\ j[1] = d
    BY <2>1 DEF JobIds
  <2>2. CASE \E w \in Workers : worker[w].item = d /\ j = JobOf(w)
    <3>1. PICK w \in Workers : worker[w].item = d /\ j = JobOf(w)
      BY <2>2
    <3>2. worker[w].at # "idle"
      BY <3>1, Constants DEF TypeInv, WorkerInv, Busy
    <3>3. j \in JobIds /\ j[1] = d
      BY <3>1, <3>2, ItemTypes
    <3> QED BY <3>3 DEF JobIds
  <2> QED BY <1>2, <2>1, <2>2, InChains
<1> HIDE DEF ids
<1>3. IsFiniteSet(Chains(d))
  BY <1>1, <1>2, FS_Subset
<1> QED BY <1>3, FS_CardinalityType

LEMMA FiniteNext ==
  TypeInv' => \A d \in Deliveries : IsFiniteSet(Chains(d)') /\ Cardinality(Chains(d)') \in Nat
<1>1. TypeInv => \A d \in Deliveries : IsFiniteSet(Chains(d)) /\ Cardinality(Chains(d)) \in Nat
  BY ChainsFinite
<1>2. TypeInv' => (\A d \in Deliveries : IsFiniteSet(Chains(d)) /\ Cardinality(Chains(d)) \in Nat)'
  BY <1>1, PTL
<1> QED BY <1>2

LEMMA FewChains ==
  ASSUME TypeInv, TypeInv', NEW d \in Deliveries
  PROVE  /\ Chains(d)' \subseteq Chains(d) =>
              Cardinality(Chains(d)') <= Cardinality(Chains(d))
         /\ \A j : Chains(d)' \subseteq Chains(d) \cup {j} =>
              Cardinality(Chains(d)') <= Cardinality(Chains(d)) + 1
         /\ \A j, k : k \in Chains(d) /\ Chains(d)' \subseteq (Chains(d) \ {k}) \cup {j} =>
              Cardinality(Chains(d)') <= Cardinality(Chains(d))
<1> DEFINE C == Chains(d)
           D == Chains(d)'
<1>1. IsFiniteSet(C) /\ Cardinality(C) \in Nat /\ IsFiniteSet(D) /\ Cardinality(D) \in Nat
  BY ChainsFinite, FiniteNext
<1> HIDE DEF C, D
<1>2. ASSUME D \subseteq C PROVE Cardinality(D) <= Cardinality(C)
  BY <1>1, <1>2, FS_Subset
<1>3. ASSUME NEW S, IsFiniteSet(S), NEW j, D \subseteq S \cup {j}
      PROVE  Cardinality(D) <= Cardinality(S) + 1
  <2>1. /\ IsFiniteSet(S \cup {j}) /\ Cardinality(S) \in Nat
        /\ Cardinality(S \cup {j}) = Cardinality(S) \/ Cardinality(S \cup {j}) = Cardinality(S) + 1
    BY <1>3, FS_AddElement, FS_CardinalityType
  <2>2. Cardinality(D) <= Cardinality(S \cup {j})
    BY <1>3, <2>1, FS_Subset
  <2> QED BY <1>1, <2>1, <2>2
<1>4. ASSUME NEW j, NEW k \in C, D \subseteq (C \ {k}) \cup {j}
      PROVE  Cardinality(D) <= Cardinality(C)
  <2>1. IsFiniteSet(C \ {k}) /\ Cardinality(C \ {k}) = Cardinality(C) - 1
    BY <1>1, <1>4, FS_RemoveElement
  <2>2. Cardinality(D) <= Cardinality(C \ {k}) + 1
    BY <1>3, <1>4, <2>1
  <2> QED BY <1>1, <2>1, <2>2
<1> QED BY <1>1, <1>2, <1>3, <1>4 DEF C, D

(* A worker at an attempt of d was there before the step.                    *)
SameAttempts ==
  \A w \in Workers :
    worker'[w].item \in Deliveries /\ worker'[w].at # "end" =>
      worker[w].item = worker'[w].item /\ worker[w].at # "end" /\ JobOf(w)' = JobOf(w)

LEMMA NoNewChain ==
  ASSUME SameAttempts, NEW d \in Deliveries,
         \A j \in JobIds : j[1] = d /\ jobs'[j].state = "queued" => jobs[j].state = "queued"
  PROVE  Chains(d)' \subseteq Chains(d)
<1> SUFFICES ASSUME NEW j \in Chains(d)' PROVE j \in Chains(d)
  OBVIOUS
<1>1. \/ j \in JobIds /\ j[1] = d /\ jobs'[j].state = "queued"
      \/ \E w \in Workers : worker'[w].item = d /\ worker'[w].at # "end" /\ j = JobOf(w)'
  BY InChains
<1> QED BY <1>1, InChains DEF SameAttempts

LEMMA OneNewChain ==
  ASSUME SameAttempts, NEW d \in Deliveries, NEW id \in JobIds,
         \A j \in JobIds \ {id} : jobs'[j].state = "queued" => jobs[j].state = "queued"
  PROVE  Chains(d)' \subseteq Chains(d) \cup {id}
<1> SUFFICES ASSUME NEW j \in Chains(d)', j # id PROVE j \in Chains(d)
  OBVIOUS
<1>1. \/ j \in JobIds /\ j[1] = d /\ jobs'[j].state = "queued"
      \/ \E w \in Workers : worker'[w].item = d /\ worker'[w].at # "end" /\ j = JobOf(w)'
  BY InChains
<1> QED BY <1>1, InChains DEF SameAttempts

LEMMA StopAttempts ==
  ASSUME TypeInv, NEW w \in Workers, NEW state, Stops(w, state)
  PROVE  SameAttempts
<1>1. worker'[w].item \notin Deliveries
  BY Constants DEF Stops
<1>2. ASSUME NEW v \in Workers \ {w}
      PROVE  worker'[v] = worker[v] /\ JobOf(v)' = JobOf(v)
  BY DEF Stops, JobOf
<1> QED BY <1>1, <1>2 DEF SameAttempts

LEMMA GoAttempts ==
  ASSUME NEW w \in Workers, NEW at, Goes(w, at), worker[w].at # "end" \/ at = "end"
  PROVE  SameAttempts
<1>1. JobOf(w)' = JobOf(w) /\ worker'[w].at = at /\ worker'[w].item = worker[w].item
  BY DEF Goes, JobOf
<1>2. ASSUME NEW v \in Workers \ {w}
      PROVE  worker'[v] = worker[v] /\ JobOf(v)' = JobOf(v)
  BY DEF Goes, JobOf
<1> QED BY <1>1, <1>2 DEF SameAttempts

LEMMA WithinTypes ==
  ASSUME TypeInv, NEW d \in Deliveries
  PROVE  /\ Cardinality(Chains(d)) \in Nat /\ First(d) \in {0, 1} /\ Retried(d) \in {0, 1}
         /\ budget.retries \in Nat /\ budget.crashes \in Nat
BY ChainsFinite, Constants DEF First, Retried, TypeInv, TypeOK

LEMMA TypesNext ==
  ASSUME TypeInv', NEW d \in Deliveries
  PROVE  /\ Cardinality(Chains(d)') \in Nat /\ First(d)' \in {0, 1} /\ Retried(d)' \in {0, 1}
         /\ budget'.retries \in Nat /\ budget'.crashes \in Nat
BY FiniteNext, Constants DEF First, Retried, TypeInv, TypeOK

(* Nothing that counts for d grows.                                          *)
LEMMA WithinKept ==
  ASSUME TypeInv, TypeInv', NEW d \in Deliveries, Within(d),
         Chains(d)' \subseteq Chains(d), First(d)' <= First(d), Retried(d)' <= Retried(d),
         budget'.retries >= budget.retries, budget'.crashes >= budget.crashes
  PROVE  Within(d)'
<1>1. Cardinality(Chains(d)') <= Cardinality(Chains(d))
  BY FewChains
<1> QED BY <1>1, WithinTypes, TypesNext DEF Within

LEMMA ChainsInit == Init => ChainsInv
<1> SUFFICES ASSUME Init PROVE ChainsInv
  OBVIOUS
<1>1. /\ \A w \in Workers : worker[w].item = NoDelivery
      /\ \A j \in JobIds : jobs[j].state = "none"
      /\ retrier.at = "idle" /\ budget.retries = 0 /\ budget.crashes = 0
  BY DEF Init, IdleWorker, IdleRetrier
<1>2. ASSUME NEW d \in Deliveries PROVE Within(d)
  <2>1. Chains(d) = {}
    BY <1>1, InChains, Constants
  <2>2. Cardinality(Chains(d)) = 0
    BY <2>1, FS_EmptySet
  <2> QED BY <1>1, <2>2 DEF Within, First, Retried
<1> QED BY <1>1, <1>2 DEF ChainsInv

(* A job that is added: the first one of a delivery starts its chain ..      *)
LEMMA FirstJobWithin ==
  ASSUME TypeInv, TypeInv', NEW c \in Deliveries, NEW d \in Deliveries, Within(d),
         AddJob(<<c, 1>>), SameAttempts, UNCHANGED <<retrier, budget>>
  PROVE  Within(d)'
<1> DEFINE id == <<c, 1>>
<1>1. id \in JobIds /\ id[1] = c /\ <<d, 1>> \in JobIds
  BY Constants DEF JobIds
<1>2. /\ \A j \in JobIds : jobs'[j] # jobs[j] =>
            j = id /\ jobs[j].state = "none" /\ jobs'[j].state = "queued"
      /\ jobs'[id].state # "none"
  BY <1>1, Added DEF TypeInv, TypeOK
<1>3. Retried(d)' = Retried(d)
  BY DEF Retried
<1>4. CASE d # c \/ jobs[id].state # "none"
  <2>1. Chains(d)' \subseteq Chains(d)
    <3>1. ASSUME NEW j \in JobIds, j[1] = d, jobs'[j].state = "queued"
          PROVE  jobs[j].state = "queued"
      BY <1>1, <1>2, <1>4, <3>1
    <3> HIDE DEF id
    <3> QED BY <3>1, NoNewChain
  <2>2. First(d)' = First(d)
    BY <1>1, <1>2, <1>4 DEF First
  <2> QED BY <1>3, <2>1, <2>2, WithinKept, WithinTypes
<1>5. CASE d = c /\ jobs[id].state = "none"
  <2>1. First(d) = 1 /\ First(d)' = 0
    BY <1>2, <1>5 DEF First
  <2>2. Chains(d)' \subseteq Chains(d) \cup {id}
    <3> HIDE DEF id
    <3> QED BY <1>1, <1>2, OneNewChain
  <2>3. Cardinality(Chains(d)') <= Cardinality(Chains(d)) + 1
    BY <2>2, FewChains
  <2> QED BY <1>3, <2>1, <2>3, WithinTypes, TypesNext DEF Within
<1> QED BY <1>4, <1>5

(* .. the next one takes the place of the job that adds it ..                *)
LEMMA NextJobWithin ==
  ASSUME TypeInv, TypeInv', JobsInv, NEW w \in Workers, NEW d \in Deliveries, Within(d),
         ScheduleAttempt(w)
  PROVE  Within(d)'
<1>1. /\ NextJob(w) \in JobIds /\ AddJob(NextJob(w)) /\ Goes(w, "end")
      /\ worker[w].at = "schedule" /\ UNCHANGED <<retrier, budget>>
  BY NextJobIsAnId, AttemptGoes DEF ScheduleAttempt, TypeInv, TypeOK
<1>2. /\ \A j \in JobIds : jobs'[j] # jobs[j] =>
            j = NextJob(w) /\ jobs[j].state = "none" /\ jobs'[j].state = "queued"
      /\ jobs'[NextJob(w)].state # "none"
  BY <1>1, Added DEF TypeInv, TypeOK
<1>3. /\ worker[w].item \in Deliveries /\ JobOf(w) \in JobIds
      /\ NextJob(w) = <<worker[w].item, worker[w].attempt + 1>>
  BY <1>1, ItemTypes DEF NextJob
<1>4. SameAttempts
  BY <1>1, GoAttempts
<1>5. Retried(d)' = Retried(d) /\ First(d)' <= First(d)
  <2>1. <<d, 1>> \in JobIds
    BY Constants DEF JobIds
  <2> QED BY <1>1, <1>2, <2>1 DEF Retried, First
<1>6. CASE d # worker[w].item
  <2>1. Chains(d)' \subseteq Chains(d)
    <3>1. ASSUME NEW j \in JobIds, j[1] = d, jobs'[j].state = "queued"
          PROVE  jobs[j].state = "queued"
      BY <1>2, <1>3, <1>6, <3>1
    <3> QED BY <1>4, <3>1, NoNewChain
  <2> QED BY <1>1, <1>5, <2>1, WithinKept, WithinTypes
<1>7. CASE d = worker[w].item
  <2>1. JobOf(w) \in Chains(d)
    BY <1>1, <1>7, InChains
  <2>2. Chains(d)' \subseteq Chains(d) \cup {NextJob(w)}
    BY <1>1, <1>2, <1>4, OneNewChain
  <2>3. JobOf(w) \notin Chains(d)'
    <3>1. jobs[JobOf(w)].state = "active" /\ jobs'[JobOf(w)].state = "active"
      BY <1>1, <1>2, <1>3 DEF JobsInv, Busy
    <3>2. ASSUME NEW v \in Workers, worker'[v].item = d, worker'[v].at # "end"
          PROVE  JobOf(v)' # JobOf(w)
      <4>1. v # w /\ worker'[v] = worker[v]
        BY <1>1, <3>2 DEF Goes
      <4>2. Busy(v) /\ Busy(w) /\ JobOf(v)' = JobOf(v)
        BY <1>1, <3>2, <4>1, Constants DEF TypeInv, WorkerInv, Busy, JobOf
      <4> QED BY <4>1, <4>2 DEF JobsInv
    <3> QED BY <3>1, <3>2, InChains
  <2>4. Chains(d)' \subseteq (Chains(d) \ {JobOf(w)}) \cup {NextJob(w)}
    BY <2>2, <2>3
  <2>5. Cardinality(Chains(d)') <= Cardinality(Chains(d))
    BY <2>1, <2>4, FewChains
  <2> QED BY <1>1, <1>5, <2>5, WithinTypes, TypesNext DEF Within
<1> QED BY <1>6, <1>7

(* .. and that of a retry ends the retry.                                    *)
LEMMA RetryJobWithin ==
  ASSUME TypeInv, TypeInv', NEW d \in Deliveries, Within(d), AddRetry
  PROVE  Within(d)'
<1> DEFINE id == <<retrier.item, MaxDeliveryAttempts + budget.retries>>
<1>1. /\ retrier.item \in Deliveries /\ retrier.at = "add" /\ AddJob(id)
      /\ budget' = budget /\ worker' = worker /\ retrier'.at = "idle"
  BY DEF AddRetry, TypeInv, TypeOK, IdleRetrier
<1>2. id \in JobIds /\ id[1] = retrier.item /\ <<d, 1>> \in JobIds
  <2>1. budget.retries \in 0..MaxRetries
    BY DEF TypeInv, TypeOK
  <2> QED BY <1>1, <2>1, Constants DEF JobIds
<1>3. \A j \in JobIds : jobs'[j] # jobs[j] =>
        j = id /\ jobs[j].state = "none" /\ jobs'[j].state = "queued"
  BY <1>1, <1>2, Added DEF TypeInv, TypeOK
<1>4. SameAttempts
  BY <1>1 DEF SameAttempts, JobOf
<1>5. First(d)' <= First(d) /\ Retried(d)' = 0
  BY <1>1, <1>2, <1>3 DEF First, Retried
<1>6. CASE d # retrier.item
  <2>1. Chains(d)' \subseteq Chains(d)
    <3>1. ASSUME NEW j \in JobIds, j[1] = d, jobs'[j].state = "queued"
          PROVE  jobs[j].state = "queued"
      BY <1>2, <1>3, <1>6, <3>1
    <3> HIDE DEF id
    <3> QED BY <1>4, <3>1, NoNewChain
  <2> QED BY <1>1, <1>5, <2>1, WithinKept, WithinTypes
<1>7. CASE d = retrier.item
  <2>1. Retried(d) = 1
    BY <1>1, <1>7 DEF Retried
  <2>2. Chains(d)' \subseteq Chains(d) \cup {id}
    <3> HIDE DEF id
    <3> QED BY <1>2, <1>3, <1>4, OneNewChain
  <2>3. Cardinality(Chains(d)') <= Cardinality(Chains(d)) + 1
    BY <2>2, FewChains
  <2> QED BY <1>1, <1>5, <2>1, <2>3, WithinTypes, TypesNext DEF Within
<1> QED BY <1>6, <1>7

LEMMA StopWithin ==
  ASSUME TypeInv, TypeInv', NEW w \in Workers, NEW d \in Deliveries, Within(d),
         NEW state \in {"completed", "failed"}, Stops(w, state),
         UNCHANGED retrier, budget'.retries = budget.retries, budget'.crashes = budget.crashes
  PROVE  Within(d)'
<1>1. JobOf(w) \in JobIds /\ <<d, 1>> \in JobIds
  BY Constants DEF Stops, TypeInv, WorkerInv, Busy, JobIds
<1>2. Chains(d)' \subseteq Chains(d)
  BY <1>1, StopAttempts, NoNewChain DEF Stops
<1>3. First(d)' <= First(d) /\ Retried(d)' = Retried(d)
  BY <1>1 DEF Stops, First, Retried
<1> QED BY <1>2, <1>3, WithinKept, WithinTypes

LEMMA CrashWithin ==
  ASSUME TypeInv, TypeInv', NEW w \in Workers, NEW d \in Deliveries, Within(d), CrashWorker(w)
  PROVE  Within(d)'
<1>1. Stops(w, "queued") \/ Stops(w, "failed")
  BY StopStops
<1>2. /\ budget'.crashes = budget.crashes + 1 /\ budget'.retries = budget.retries
      /\ retrier' = retrier
  BY DEF CrashWorker, TypeInv, TypeOK
<1>3. JobOf(w) \in JobIds /\ <<d, 1>> \in JobIds
  BY <1>1, Constants DEF Stops, TypeInv, WorkerInv, Busy, JobIds
<1>4. Chains(d)' \subseteq Chains(d) \cup {JobOf(w)}
  BY <1>1, <1>3, StopAttempts, OneNewChain DEF Stops
<1>5. Cardinality(Chains(d)') <= Cardinality(Chains(d)) + 1
  BY <1>4, FewChains
<1>6. First(d)' <= First(d) /\ Retried(d)' = Retried(d)
  BY <1>1, <1>2, <1>3 DEF Stops, First, Retried
<1> QED BY <1>2, <1>5, <1>6, WithinTypes, TypesNext DEF Within

LEMMA WithinStep ==
  ASSUME TypeInv, TypeInv', JobsInv, [Next]_vars, NEW d \in Deliveries, Within(d)
  PROVE  Within(d)'
<1>1. <<d, 1>> \in JobIds /\ worker \in [Workers -> Worker]
      /\ budget.retries \in Nat /\ budget.crashes \in Nat
      /\ budget \in [retries : 0..MaxRetries, crashes : Nat, errors : Nat, edits : Nat]
  BY Constants DEF JobIds, TypeInv, TypeOK
<1>2. ASSUME SameAttempts, UNCHANGED <<jobs, retrier>>,
             budget'.retries = budget.retries, budget'.crashes = budget.crashes
      PROVE  Within(d)'
  <2>1. Chains(d)' \subseteq Chains(d)
    BY <1>2, NoNewChain
  <2>2. First(d)' = First(d) /\ Retried(d)' = Retried(d)
    BY <1>2 DEF First, Retried
  <2> QED BY <1>1, <1>2, <2>1, <2>2, WithinKept, WithinTypes
<1>3. ASSUME UNCHANGED worker PROVE SameAttempts
  BY <1>3, Constants DEF SameAttempts, JobOf
<1>4. ASSUME NEW v \in Events, Dispatch(v) PROVE Within(d)'
  BY <1>1, <1>2, <1>3, <1>4 DEF Dispatch, DispatchEvent, SendTestEvent, DispatchFails
<1>5. ASSUME NEW v \in Events, NEW e \in Endpoints, CreateDelivery(v, e) \/ EnqueueFirst(v, e)
      PROVE  Within(d)'
  <2>1. <<v, e>> \in Deliveries
    BY DEF Deliveries
  <2> QED BY <1>2, <1>3, <1>5, <2>1, FirstJobWithin DEF CreateDelivery, EnqueueFirst
<1>6. ASSUME NEW w \in Workers, NEW id \in JobIds, StartAttempt(w, id) PROVE Within(d)'
  <2>1. UNCHANGED <<retrier, budget>>
    BY <1>6 DEF StartAttempt
  <2>2. CASE Skips(id)
    <3>1. Chains(d)' \subseteq Chains(d)
      BY <1>3, <2>2, NoNewChain DEF Skips
    <3>2. First(d)' = First(d) /\ Retried(d)' = Retried(d)
      BY <1>1, <2>1, <2>2 DEF Skips, First, Retried
    <3> QED BY <1>1, <2>1, <3>1, <3>2, WithinKept, WithinTypes
  <2>3. CASE Takes(w, id)
    <3>1. ASSUME NEW j \in Chains(d)' PROVE j \in Chains(d)
      <4>1. CASE j \in JobIds /\ j[1] = d /\ jobs'[j].state = "queued"
        BY <2>3, <4>1, InChains DEF Takes
      <4>2. CASE \E v \in Workers : worker'[v].item = d /\ worker'[v].at # "end" /\ j = JobOf(v)'
        <5>1. PICK v \in Workers : worker'[v].item = d /\ worker'[v].at # "end" /\ j = JobOf(v)'
          BY <4>2
        <5>2. CASE v = w
          BY <2>3, <5>1, <5>2, InChains DEF Takes
        <5>3. CASE v # w
          <6>1. worker'[v] = worker[v] /\ JobOf(v)' = JobOf(v)
            BY <2>3, <5>3 DEF Takes, JobOf
          <6> QED BY <5>1, <6>1, InChains
        <5> QED BY <5>2, <5>3
      <4> QED BY <3>1, <4>1, <4>2, InChains
    <3>2. First(d)' = First(d) /\ Retried(d)' = Retried(d)
      BY <1>1, <2>1, <2>3 DEF Takes, First, Retried
    <3> QED BY <1>1, <2>1, <3>1, <3>2, WithinKept, WithinTypes
  <2> QED BY <1>6, <2>2, <2>3, StartTakes
<1>7. ASSUME NEW w \in Workers, AttemptStep(w) PROVE Within(d)'
  <2>1. CASE ScheduleAttempt(w)
    BY <2>1, NextJobWithin
  <2>2. CASE EndJob(w)
    BY <2>2, StopStops, StopWithin DEF EndJob
  <2>3. CASE Send(w) \/ RefuseHostname(w) \/ FinalizeSuccess(w) \/ RecordFailure(w)
             \/ Abandon(w) \/ CountFailure(w)
    <3>1. \E at \in Ats : Goes(w, at)
      BY <1>1, <2>3, AttemptGoes DEF Ats
    <3>2. /\ UNCHANGED <<jobs, retrier, budget>> /\ worker[w].at # "end"
      BY <2>3 DEF Send, SendResults, RefuseHostname, FinalizeSuccess, RecordFailure, Abandon, CountFailure
    <3> QED BY <1>2, <3>1, <3>2, GoAttempts
  <2> QED BY <1>7, <2>1, <2>2, <2>3 DEF AttemptStep
<1>8. ASSUME NEW w \in Workers, FailAttempt(w) PROVE Within(d)'
  BY <1>1, <1>8, StopStops, StopWithin DEF FailAttempt
<1>9. ASSUME NEW w \in Workers, CrashWorker(w) PROVE Within(d)'
  BY <1>9, CrashWithin
<1>10. ASSUME NEW e \in Endpoints, Edit(e) PROVE Within(d)'
  BY <1>1, <1>2, <1>3, <1>10 DEF Edit, SetEnabled, Remove
<1>11. ASSUME Retry PROVE Within(d)'
  <2>1. CASE AddRetry
    BY <2>1, RetryJobWithin
  <2>2. ASSUME NEW c \in Deliveries, CheckRetry(c) PROVE Within(d)'
    <3>1. budget'.retries = budget.retries + 1 /\ budget'.crashes = budget.crashes
      BY <1>1, <2>2 DEF CheckRetry
    <3>2. Chains(d)' \subseteq Chains(d) /\ First(d)' = First(d)
      BY <1>3, <2>2, NoNewChain DEF CheckRetry, First
    <3>3. Cardinality(Chains(d)') <= Cardinality(Chains(d))
      BY <3>2, FewChains
    <3> QED BY <3>1, <3>2, <3>3, WithinTypes, TypesNext DEF Within
  <2>3. CASE WriteRetry \/ RetryFails
    <3>1. Retried(d)' <= Retried(d)
      BY <2>3 DEF WriteRetry, RetryFails, IdleRetrier, Retried, TypeInv, TypeOK, Retrier
    <3>2. UNCHANGED <<jobs, worker>> /\ budget'.retries = budget.retries
          /\ budget'.crashes = budget.crashes
      BY <1>1, <2>3 DEF WriteRetry, RetryFails
    <3>3. Chains(d)' \subseteq Chains(d) /\ First(d)' = First(d)
      BY <1>3, <3>2, NoNewChain DEF First
    <3> QED BY <1>1, <3>1, <3>2, <3>3, WithinKept, WithinTypes
  <2> QED BY <1>11, <2>1, <2>2, <2>3 DEF Retry
<1>12. CASE UNCHANGED vars
  BY <1>2, <1>3, <1>12 DEF vars
<1> QED
  BY <1>4, <1>5, <1>6, <1>7, <1>8, <1>9, <1>10, <1>11, <1>12 DEF Next, EnqueueStep, Deliver

(* Nothing spent is given back.                                              *)
LEMMA BudgetGrows ==
  ASSUME TypeInv, [Next]_vars
  PROVE  /\ budget'.retries >= budget.retries /\ budget'.crashes >= budget.crashes
         /\ budget'.errors >= budget.errors
<1> DEFINE Grows == /\ budget'.retries >= budget.retries /\ budget'.crashes >= budget.crashes
                    /\ budget'.errors >= budget.errors
<1>1. /\ budget \in [retries : 0..MaxRetries, crashes : Nat, errors : Nat, edits : Nat]
      /\ budget.retries \in Nat
  BY Constants DEF TypeInv, TypeOK
<1>2. CASE UNCHANGED budget
  BY <1>1, <1>2
<1>3. ASSUME NEW v \in Events, DispatchFails(v) PROVE Grows
  BY <1>1, <1>3 DEF DispatchFails
<1>4. ASSUME NEW w \in Workers, FailAttempt(w) \/ CrashWorker(w) PROVE Grows
  BY <1>1, <1>4 DEF FailAttempt, CrashWorker
<1>5. ASSUME NEW e \in Endpoints, Edit(e) PROVE Grows
  BY <1>1, <1>5 DEF Edit, SetEnabled, Remove
<1>6. ASSUME Retry PROVE Grows
  BY <1>1, <1>6 DEF Retry, CheckRetry, WriteRetry, AddRetry, RetryFails
<1>7. ASSUME NEW v \in Events, Dispatch(v) \/ EnqueueStep(v), ~DispatchFails(v)
      PROVE  UNCHANGED budget
  BY <1>7 DEF Dispatch, DispatchEvent, SendTestEvent, EnqueueStep, CreateDelivery, EnqueueFirst
<1>8. ASSUME NEW w \in Workers, (\E id \in JobIds : StartAttempt(w, id)) \/ AttemptStep(w)
      PROVE  UNCHANGED budget
  BY <1>8 DEF StartAttempt, AttemptStep, Send, SendResults, RefuseHostname, FinalizeSuccess, RecordFailure,
              ScheduleAttempt, Abandon, CountFailure, EndJob
<1> QED BY <1>2, <1>3, <1>4, <1>5, <1>6, <1>7, <1>8 DEF Next, Deliver, vars

LEMMA NoRetryYet ==
  ASSUME TypeInv, budget.retries = 0 => retrier.at = "idle", [Next]_vars
  PROVE  (budget.retries = 0 => retrier.at = "idle")'
<1>1. /\ budget \in [retries : 0..MaxRetries, crashes : Nat, errors : Nat, edits : Nat]
      /\ budget.retries \in Nat /\ budget'.retries >= budget.retries
  BY Constants, BudgetGrows DEF TypeInv, TypeOK
<1>2. CASE UNCHANGED retrier
  <2>1. budget'.retries \in Nat
    BY TypeStep, Constants DEF TypeInv, TypeOK
  <2> QED BY <1>1, <1>2, <2>1
<1>3. CASE \E d \in Deliveries : CheckRetry(d)
  BY <1>1, <1>3 DEF CheckRetry
<1>4. CASE WriteRetry \/ AddRetry \/ RetryFails
  BY <1>1, <1>4 DEF WriteRetry, AddRetry, RetryFails, IdleRetrier
<1>5. ASSUME NEW v \in Events, Dispatch(v) \/ EnqueueStep(v) PROVE UNCHANGED retrier
  BY <1>5 DEF Dispatch, DispatchEvent, SendTestEvent, DispatchFails, EnqueueStep,
              CreateDelivery, EnqueueFirst
<1>6. ASSUME NEW w \in Workers, Deliver(w) PROVE UNCHANGED retrier
  BY <1>6 DEF Deliver, StartAttempt, AttemptStep, Send, SendResults, RefuseHostname, FinalizeSuccess,
              RecordFailure, ScheduleAttempt, Abandon, CountFailure, EndJob,
              FailAttempt, CrashWorker
<1>7. ASSUME NEW e \in Endpoints, Edit(e) PROVE UNCHANGED retrier
  BY <1>7 DEF Edit, SetEnabled, Remove
<1> QED BY <1>2, <1>3, <1>4, <1>5, <1>6, <1>7 DEF Next, Retry, vars

LEMMA ChainsStep == TypeInv /\ JobsInv /\ ChainsInv /\ [Next]_vars => ChainsInv'
<1> SUFFICES ASSUME TypeInv, JobsInv, ChainsInv, [Next]_vars PROVE ChainsInv'
  OBVIOUS
<1>1. TypeInv'
  BY TypeStep
<1> QED BY <1>1, WithinStep, NoRetryYet DEF ChainsInv

-----------------------------------------------------------------------------
(* What is sent is on record *)

Outcomes == {"success", "failure", "abandon"}
On(w, d, ats) == worker[w].item = d /\ worker[w].at \in ats

(* Of a delivery without faults and manual retries: an attempt is numbered   *)
(* one above those on record until its outcome is stored.                    *)
Recorded(d) ==
  /\ First(d) = 1 => delivery[d].attempts = 0
  /\ \A j \in JobIds : j[1] = d /\ jobs[j].state = "queued" =>
       delivery[d].attempts < MaxDeliveryAttempts
  /\ delivery[d].attempts <= MaxDeliveryAttempts /\ sent[d] <= MaxDeliveryAttempts
  /\ (\A w \in Workers : ~On(w, d, Outcomes)) => sent[d] <= delivery[d].attempts
  /\ \A w \in Workers :
       /\ On(w, d, {"send"}) =>
            /\ worker[w].attempt = delivery[d].attempts + 1
            /\ delivery[d].attempts < MaxDeliveryAttempts
       /\ On(w, d, Outcomes) =>
            /\ sent[d] <= worker[w].attempt /\ worker[w].attempt <= MaxDeliveryAttempts
            /\ sent[d] <= delivery[d].attempts + 1
       /\ On(w, d, {"schedule"}) => worker[w].attempt = delivery[d].attempts

RecordInv == Undisturbed => \A d \in Deliveries : Recorded(d)

LEMMA RecordInit == Init => RecordInv
<1> SUFFICES ASSUME Init PROVE RecordInv
  OBVIOUS
<1>1. /\ \A w \in Workers : worker[w].at = "idle"
      /\ \A j \in JobIds : jobs[j].state = "none"
      /\ \A d \in Deliveries : delivery[d].attempts = 0 /\ sent[d] = 0
  BY DEF Init, IdleWorker
<1>2. \A w \in Workers, d \in Deliveries :
        ~On(w, d, Outcomes) /\ ~On(w, d, {"send"}) /\ ~On(w, d, {"schedule"})
  BY <1>1 DEF On, Outcomes
<1> QED BY <1>1, <1>2, Constants DEF RecordInv, Recorded

(* Without faults and retries there is nothing else: one job or one worker.  *)
LEMMA OneChain ==
  ASSUME TypeInv, ChainsInv, Undisturbed, NEW d \in Deliveries
  PROVE  /\ \A i, j \in Chains(d) : i = j
         /\ First(d) = 1 => Chains(d) = {}
<1>1. Cardinality(Chains(d)) + First(d) <= 1 /\ IsFiniteSet(Chains(d))
  BY WithinTypes, ChainsFinite DEF ChainsInv, Within, Undisturbed, NoFaults
<1>2. ASSUME NEW i \in Chains(d), NEW j \in Chains(d), i # j PROVE FALSE
  <2>1. Cardinality(Chains(d)) <= 1
    BY <1>1, WithinTypes
  <2>2. IsFiniteSet(Chains(d) \ {i}) /\ Cardinality(Chains(d) \ {i}) = Cardinality(Chains(d)) - 1
    BY <1>1, FS_RemoveElement
  <2>3. Cardinality(Chains(d) \ {i}) = 0
    BY <2>1, <2>2, WithinTypes, FS_CardinalityType
  <2> QED BY <1>2, <2>2, <2>3, FS_EmptySet
<1>3. ASSUME First(d) = 1 PROVE Chains(d) = {}
  BY <1>1, <1>3, WithinTypes, FS_EmptySet
<1> QED BY <1>2, <1>3

(* A worker at an attempt of d is the only one, and no job of d is queued.   *)
LEMMA OneAttempt ==
  ASSUME TypeInv, JobsInv, ChainsInv, Undisturbed, NEW w \in Workers,
         Busy(w), worker[w].at # "end"
  PROVE  /\ \A v \in Workers \ {w} : worker[v].item = worker[w].item => worker[v].at = "end"
         /\ \A j \in JobIds : j[1] = worker[w].item => jobs[j].state # "queued"
         /\ First(worker[w].item) = 0
<1> DEFINE d == worker[w].item
<1>1. d \in Deliveries /\ JobOf(w) \in Chains(d)
  BY ItemTypes, InChains DEF Busy
<1>2. \A i, j \in Chains(d) : i = j
  BY <1>1, OneChain
<1>3. First(d) = 0
  BY <1>1, OneChain, WithinTypes
<1>4. ASSUME NEW v \in Workers \ {w}, worker[v].item = d, worker[v].at # "end" PROVE FALSE
  <2>1. Busy(v) /\ JobOf(v) \in Chains(d)
    BY <1>1, <1>4, InChains, Constants DEF TypeInv, WorkerInv, Busy
  <2> QED BY <1>1, <1>2, <2>1 DEF JobsInv
<1>5. ASSUME NEW j \in JobIds, j[1] = d, jobs[j].state = "queued" PROVE FALSE
  <2>1. j = JobOf(w)
    BY <1>1, <1>2, <1>5, InChains
  <2> QED BY <1>5, <2>1 DEF JobsInv
<1> QED BY <1>3, <1>4, <1>5

(* .. and a queued job of d is alone.                                        *)
LEMMA OneQueued ==
  ASSUME TypeInv, JobsInv, ChainsInv, Undisturbed, NEW j \in JobIds, jobs[j].state = "queued"
  PROVE  /\ \A v \in Workers : worker[v].item = j[1] => worker[v].at = "end"
         /\ \A i \in JobIds : i[1] = j[1] /\ jobs[i].state = "queued" => i = j
<1>1. j[1] \in Deliveries /\ j \in Chains(j[1])
  BY InChains DEF JobIds
<1>2. \A i, k \in Chains(j[1]) : i = k
  BY <1>1, OneChain
<1>3. ASSUME NEW v \in Workers, worker[v].item = j[1], worker[v].at # "end" PROVE FALSE
  <2>1. Busy(v) /\ JobOf(v) \in Chains(j[1])
    BY <1>1, <1>3, InChains, Constants DEF TypeInv, WorkerInv, Busy
  <2> QED BY <1>1, <1>2, <2>1 DEF JobsInv
<1>4. ASSUME NEW i \in JobIds, i[1] = j[1], jobs[i].state = "queued" PROVE i = j
  BY <1>1, <1>2, <1>4, InChains
<1> QED BY <1>3, <1>4

(* The record of d after a step that does not touch d's row, sends nothing   *)
(* to its endpoint, queues no job of it and moves no worker at it.           *)
Elsewhere(w, d) == worker[w].item # d \/ worker[w].at = "end"
Untouched(w, d) == 
  \/ worker'[w] = worker[w]
  \/ Elsewhere(w, d) /\ Elsewhere(w, d)'

LEMMA RecordKept ==
  ASSUME NEW d \in Deliveries, Recorded(d),
         delivery'[d].attempts = delivery[d].attempts, sent'[d] = sent[d],
         First(d)' <= First(d), First(d) \in {0, 1}, First(d)' \in {0, 1},
         \A j \in JobIds : j[1] = d /\ jobs'[j].state = "queued" => jobs[j].state = "queued",
         \A w \in Workers : Untouched(w, d)
  PROVE  Recorded(d)'
<1>1. (First(d) = 1)' => First(d) = 1
  OBVIOUS
<1>2. ASSUME NEW w \in Workers, NEW ats \in {Outcomes, {"send"}, {"schedule"}}, On(w, d, ats)'
      PROVE  worker'[w] = worker[w] /\ On(w, d, ats)
  BY <1>2 DEF On, Outcomes, Untouched, Elsewhere
<1>3. ASSUME NEW w \in Workers, On(w, d, Outcomes) PROVE On(w, d, Outcomes)'
  BY <1>3 DEF On, Outcomes, Untouched, Elsewhere
<1>4. (\A w \in Workers : ~On(w, d, Outcomes))' => \A w \in Workers : ~On(w, d, Outcomes)
  BY <1>3
<1> QED BY <1>1, <1>2, <1>4 DEF Recorded

LEMMA FirstTypes ==
  ASSUME NEW d
  PROVE  First(d) \in {0, 1} /\ First(d)' \in {0, 1}
BY DEF First

-----------------------------------------------------------------------------
(* The first job of a delivery finds nothing on record.                      *)
LEMMA FirstJobRecorded ==
  ASSUME TypeInv, ChainsInv, Undisturbed, NEW c \in Deliveries, NEW d \in Deliveries, Recorded(d),
         AddJob(<<c, 1>>), UNCHANGED <<delivery, sent, worker>>
  PROVE  Recorded(d)'
<1> DEFINE id == <<c, 1>>
<1>1. id \in JobIds /\ id[1] = c /\ <<d, 1>> \in JobIds
  BY Constants DEF JobIds
<1>2. /\ \A j \in JobIds : jobs'[j] # jobs[j] =>
            j = id /\ jobs[j].state = "none" /\ jobs'[j].state = "queued"
      /\ jobs'[id].state # "none"
  BY <1>1, Added DEF TypeInv, TypeOK
<1>3. First(d)' <= First(d)
  BY <1>1, <1>2 DEF First
<1>4. CASE d # c \/ jobs[id].state # "none"
  <2>1. ASSUME NEW j \in JobIds, j[1] = d, jobs'[j].state = "queued"
        PROVE  jobs[j].state = "queued"
    BY <1>1, <1>2, <1>4, <2>1
  <2>2. \A w \in Workers : Untouched(w, d)
    BY DEF Untouched
  <2>3. delivery'[d].attempts = delivery[d].attempts /\ sent'[d] = sent[d]
    OBVIOUS
  <2> HIDE DEF id
  <2> QED BY <1>3, <2>1, <2>2, <2>3, RecordKept, FirstTypes
<1>5. CASE d = c /\ jobs[id].state = "none"
  <2>1. First(d) = 1 /\ First(d)' = 0
    BY <1>2, <1>5 DEF First
  <2>2. delivery[d].attempts = 0
    BY <2>1 DEF Recorded
  <2>3. \A w \in Workers : On(w, d, Outcomes)' = On(w, d, Outcomes)
            /\ On(w, d, {"send"})' = On(w, d, {"send"})
            /\ On(w, d, {"schedule"})' = On(w, d, {"schedule"})
    BY DEF On
  <2> HIDE DEF id
  <2> QED BY <2>1, <2>2, <2>3, Constants DEF Recorded
<1> QED BY <1>4, <1>5

(* A worker takes the only job, with the next number.                        *)
LEMMA TakesRecorded ==
  ASSUME TypeInv, JobsInv, ChainsInv, Undisturbed, NEW w \in Workers, NEW id \in JobIds,
         NEW d \in Deliveries, Recorded(d), Takes(w, id), UNCHANGED <<delivery, sent>>
  PROVE  Recorded(d)'
<1>1. <<d, 1>> \in JobIds /\ worker[w].item = NoDelivery /\ id[1] \in Deliveries
  BY Constants DEF JobIds, Takes, TypeInv, WorkerInv, Busy
<1>2. First(d)' = First(d)
  BY <1>1 DEF Takes, First
<1>3. \A j \in JobIds : jobs'[j].state = "queued" => jobs[j].state = "queued" /\ j # id
  BY DEF Takes
<1>4. \A v \in Workers \ {w} : worker'[v] = worker[v]
  BY DEF Takes
<1>5. CASE d # id[1]
  <2>1. worker'[w].item # d /\ worker[w].item # d
    BY <1>1, <1>5, Constants DEF Takes
  <2>2. \A v \in Workers : Untouched(v, d)
    BY <1>4, <2>1 DEF Untouched, Elsewhere
  <2>3. delivery'[d].attempts = delivery[d].attempts /\ sent'[d] = sent[d]
    OBVIOUS
  <2>4. First(d)' <= First(d)
    BY <1>2, FirstTypes
  <2> QED BY <1>3, <2>2, <2>3, <2>4, RecordKept, FirstTypes
<1>6. CASE d = id[1]
  <2>1. /\ \A v \in Workers : worker[v].item = d => worker[v].at = "end"
        /\ \A i \in JobIds : i[1] = d /\ jobs[i].state = "queued" => i = id
    BY <1>6, OneQueued DEF Takes
  <2>2. delivery[d].attempts < MaxDeliveryAttempts
    BY <1>6 DEF Recorded, Takes
  <2>3. \A v \in Workers : ~On(v, d, Outcomes)
    BY <2>1 DEF On, Outcomes
  <2>4. sent[d] <= delivery[d].attempts
    BY <2>3 DEF Recorded
  <2>5. \A v \in Workers \ {w} :
          ~On(v, d, Outcomes)' /\ ~On(v, d, {"send"})' /\ ~On(v, d, {"schedule"})'
    BY <1>4, <2>1 DEF On, Outcomes
  <2>6. /\ On(w, d, {"send"})' => worker'[w].attempt = delivery[d].attempts + 1
        /\ On(w, d, Outcomes)' => worker'[w].attempt = delivery[d].attempts
        /\ ~On(w, d, {"schedule"})'
    BY <1>6 DEF Takes, On, Outcomes
  <2>7. delivery[d].attempts \in Nat /\ sent[d] \in Nat /\ MaxDeliveryAttempts \in Nat
    BY Constants DEF TypeInv, TypeOK, Delivery
  <2>8. \A j \in JobIds : j[1] = d => jobs'[j].state # "queued"
    BY <1>3, <2>1
  <2>9. (First(d) = 1)' => delivery[d].attempts = 0
    BY <1>2 DEF Recorded
  <2>10. /\ delivery'[d].attempts = delivery[d].attempts /\ sent'[d] = sent[d]
    OBVIOUS
  <2> QED BY <2>2, <2>4, <2>5, <2>6, <2>7, <2>8, <2>9, <2>10 DEF Recorded
<1> QED BY <1>5, <1>6

(* A step of an attempt leaves the record of the others alone ..             *)
LEMMA OthersRecorded ==
  ASSUME TypeInv, NEW w \in Workers, NEW at, Goes(w, at),
         NEW d \in Deliveries, d # worker[w].item, Recorded(d),
         delivery'[d] = delivery[d], sent'[d] = sent[d],
         \A j \in JobIds : j[1] = d => jobs'[j] = jobs[j]
  PROVE  Recorded(d)'
<1>1. <<d, 1>> \in JobIds /\ <<d, 1>>[1] = d
  BY Constants DEF JobIds
<1>2. First(d)' = First(d)
  BY <1>1 DEF First
<1>3. \A v \in Workers : Untouched(v, d)
  BY DEF Goes, Untouched, Elsewhere
<1>4. /\ First(d)' <= First(d) /\ delivery'[d].attempts = delivery[d].attempts
      /\ \A j \in JobIds : j[1] = d /\ jobs'[j].state = "queued" => jobs[j].state = "queued"
  BY <1>2, FirstTypes
<1> QED BY <1>3, <1>4, RecordKept, FirstTypes

(* .. and its own is what the worker says it is.                             *)
LEMMA OwnRecorded ==
  ASSUME TypeInv, JobsInv, ChainsInv, Undisturbed, NEW w \in Workers, NEW at,
         Goes(w, at), worker[w].at # "end", UNCHANGED jobs,
         NEW d, d = worker[w].item,
         delivery'[d].attempts \in Nat, sent'[d] \in Nat,
         delivery'[d].attempts <= MaxDeliveryAttempts, sent'[d] <= MaxDeliveryAttempts,
         at \notin Outcomes => sent'[d] <= delivery'[d].attempts,
         at # "send",
         at \in Outcomes => /\ sent'[d] <= worker[w].attempt
                            /\ worker[w].attempt <= MaxDeliveryAttempts
                            /\ sent'[d] <= delivery'[d].attempts + 1,
         at = "schedule" => worker[w].attempt = delivery'[d].attempts
  PROVE  Recorded(d)'
<1>1. /\ \A v \in Workers \ {w} : worker[v].item = d => worker[v].at = "end"
      /\ \A j \in JobIds : j[1] = d => jobs[j].state # "queued"
      /\ First(d) = 0
  BY OneAttempt DEF Goes, Busy
<1>2. First(d)' = 0
  BY <1>1 DEF First
<1>3. \A v \in Workers \ {w} :
        ~On(v, d, Outcomes)' /\ ~On(v, d, {"send"})' /\ ~On(v, d, {"schedule"})'
  BY <1>1 DEF Goes, On, Outcomes
<1>4. worker'[w].at = at /\ worker'[w].item = d /\ worker'[w].attempt = worker[w].attempt
  BY DEF Goes
<1>5. (\A v \in Workers : ~On(v, d, Outcomes))' => sent'[d] <= delivery'[d].attempts
  BY <1>4 DEF On
<1>6. /\ ~On(w, d, {"send"})'
      /\ On(w, d, Outcomes)' => at \in Outcomes
      /\ On(w, d, {"schedule"})' => at = "schedule"
  BY <1>4 DEF On
<1> QED BY <1>1, <1>2, <1>3, <1>4, <1>5, <1>6 DEF Recorded

(* What is known of the delivery a worker is at.                             *)
LEMMA AtSend ==
  ASSUME TypeInv, JobsInv, ChainsInv, Undisturbed, NEW w \in Workers,
         worker[w].at = "send" \/ worker[w].at = "schedule" \/ worker[w].at = "count",
         NEW d, d = worker[w].item, Recorded(d)
  PROVE  /\ sent[d] <= delivery[d].attempts
         /\ worker[w].at = "send" => /\ worker[w].attempt = delivery[d].attempts + 1
                                     /\ worker[w].attempt <= MaxDeliveryAttempts
         /\ worker[w].at = "schedule" => worker[w].attempt = delivery[d].attempts
<1>1. \A v \in Workers \ {w} : worker[v].item = d => worker[v].at = "end"
  BY OneAttempt DEF Busy
<1>2. \A v \in Workers : ~On(v, d, Outcomes)
  BY <1>1 DEF On, Outcomes
<1>3. d \in Deliveries
  BY ItemTypes
<1>4. delivery[d].attempts \in Nat /\ MaxDeliveryAttempts \in Nat
  BY <1>3, Constants DEF TypeInv, TypeOK, Delivery
<1>5. /\ worker[w].at = "send" => On(w, d, {"send"})
      /\ worker[w].at = "schedule" => On(w, d, {"schedule"})
  BY DEF On
<1> QED BY <1>2, <1>4, <1>5 DEF Recorded

LEMMA AtOutcome ==
  ASSUME NEW w \in Workers, worker[w].at \in Outcomes, NEW d, d = worker[w].item, Recorded(d)
  PROVE  sent[d] <= worker[w].attempt /\ worker[w].attempt <= MaxDeliveryAttempts
BY DEF Recorded, On

LEMMA AttemptRecorded ==
  ASSUME TypeInv, JobsInv, ChainsInv, Undisturbed, NEW w \in Workers,
         \/ Send(w) \/ RefuseHostname(w) \/ FinalizeSuccess(w) \/ RecordFailure(w)
         \/ Abandon(w) \/ CountFailure(w),
         NEW d \in Deliveries, Recorded(d)
  PROVE  Recorded(d)'
<1>1. /\ worker \in [Workers -> Worker] /\ delivery \in [Deliveries -> Delivery]
      /\ sent \in [Deliveries -> Nat] /\ MaxDeliveryAttempts \in Nat
  BY Constants DEF TypeInv, TypeOK
<1>2. worker[w].at \notin {"idle", "end"} /\ jobs' = jobs
  BY DEF Send, SendResults, RefuseHostname, FinalizeSuccess, RecordFailure, Abandon, CountFailure
<1>3. worker[w].item \in Deliveries /\ worker[w].attempt \in Nat
  BY <1>2, ItemTypes
<1>4. CASE d # worker[w].item
  <2>1. \E at : Goes(w, at)
    BY <1>1, AttemptGoes
  <2>2. delivery'[d] = delivery[d] /\ sent'[d] = sent[d]
    BY <1>1, <1>4 DEF Send, SendResults, RefuseHostname, FinalizeSuccess, RecordFailure, Abandon, CountFailure
  <2> QED BY <1>2, <1>4, <2>1, <2>2, OthersRecorded
<1>5. CASE d = worker[w].item
  <2>1. delivery[d].attempts \in Nat /\ sent[d] \in Nat /\ delivery[d].attempts <= MaxDeliveryAttempts
        /\ sent[d] <= MaxDeliveryAttempts
    BY <1>1 DEF Delivery, Recorded
  <2>2. ASSUME Send(w) PROVE Recorded(d)'
    <3>1. /\ sent[d] <= delivery[d].attempts
          /\ worker[w].attempt = delivery[d].attempts + 1
          /\ worker[w].attempt <= MaxDeliveryAttempts
      BY <1>5, <2>2, AtSend DEF Send, SendResults
    <3>2. sent'[d] = sent[d] + 1 /\ delivery' = delivery
      BY <1>1, <1>5, <2>2 DEF Send, SendResults
    <3>3. Goes(w, "success") \/ Goes(w, "abandon") \/ Goes(w, "failure")
      BY <1>1, <2>2, AttemptGoes
    <3>4. PICK at \in Outcomes : Goes(w, at)
      BY <3>3 DEF Outcomes
    <3>5. at # "send" /\ at # "schedule"
      BY DEF Outcomes
    <3>6. /\ sent'[d] \in Nat /\ sent'[d] <= MaxDeliveryAttempts
          /\ sent'[d] <= worker[w].attempt /\ sent'[d] <= delivery'[d].attempts + 1
      BY <1>1, <2>1, <3>1, <3>2
    <3> QED BY <1>2, <1>5, <2>1, <3>1, <3>2, <3>4, <3>5, <3>6, OwnRecorded
  <2>3. ASSUME RefuseHostname(w) PROVE Recorded(d)'
    <3>1. /\ sent[d] <= delivery[d].attempts
          /\ worker[w].attempt = delivery[d].attempts + 1
          /\ worker[w].attempt <= MaxDeliveryAttempts
      BY <1>5, <2>3, AtSend DEF RefuseHostname
    <3>2. sent' = sent /\ delivery' = delivery /\ Goes(w, "abandon")
      BY <1>1, <2>3, AttemptGoes DEF RefuseHostname
    <3>3. sent[d] <= worker[w].attempt /\ sent[d] <= delivery[d].attempts + 1
      BY <2>1, <3>1
    <3> QED BY <1>2, <1>5, <2>1, <3>1, <3>2, <3>3, OwnRecorded DEF Outcomes
  <2>4. ASSUME FinalizeSuccess(w) \/ RecordFailure(w) \/ Abandon(w) PROVE Recorded(d)'
    <3>1. sent[d] <= worker[w].attempt /\ worker[w].attempt <= MaxDeliveryAttempts
      BY <1>5, <2>4, AtOutcome DEF FinalizeSuccess, RecordFailure, Abandon, Outcomes
    <3>2. delivery'[d].attempts = worker[w].attempt /\ sent' = sent
      BY <1>1, <1>5, <2>4 DEF FinalizeSuccess, RecordFailure, FailedOnce, Abandon, GivenUp
    <3>3. Goes(w, "schedule") \/ Goes(w, "count") \/ Goes(w, "end")
      BY <1>1, <2>4, AttemptGoes
    <3>4. PICK at \in {"schedule", "count", "end"} : Goes(w, at)
      BY <3>3
    <3>5. at \notin Outcomes /\ at # "send"
      BY DEF Outcomes
    <3> QED BY <1>2, <1>3, <1>5, <2>1, <3>1, <3>2, <3>4, <3>5, OwnRecorded
  <2>5. ASSUME CountFailure(w) PROVE Recorded(d)'
    <3>1. sent[d] <= delivery[d].attempts
      BY <1>5, <2>5, AtSend DEF CountFailure
    <3>2. sent' = sent /\ delivery' = delivery /\ Goes(w, "end")
      BY <1>1, <2>5, AttemptGoes DEF CountFailure
    <3> QED BY <1>2, <1>5, <2>1, <3>1, <3>2, OwnRecorded DEF Outcomes
  <2> QED BY <2>2, <2>3, <2>4, <2>5
<1> QED BY <1>4, <1>5

(* The job of the next attempt is queued below the maximum.                  *)
LEMMA NextJobRecorded ==
  ASSUME TypeInv, JobsInv, ChainsInv, Undisturbed, NEW w \in Workers, ScheduleAttempt(w),
         NEW d \in Deliveries, Recorded(d)
  PROVE  Recorded(d)'
<1>1. /\ NextJob(w) \in JobIds /\ AddJob(NextJob(w)) /\ Goes(w, "end")
      /\ worker[w].at = "schedule" /\ UNCHANGED <<delivery, sent>>
  BY NextJobIsAnId, AttemptGoes DEF ScheduleAttempt, TypeInv, TypeOK
<1>2. \A j \in JobIds : jobs'[j] # jobs[j] =>
            j = NextJob(w) /\ jobs[j].state = "none" /\ jobs'[j].state = "queued"
  BY <1>1, Added DEF TypeInv, TypeOK
<1>3. worker[w].item \in Deliveries /\ NextJob(w)[1] = worker[w].item
  BY <1>1, ItemTypes DEF NextJob
<1>4. CASE d # worker[w].item
  <2>1. \A j \in JobIds : j[1] = d => jobs'[j] = jobs[j]
    BY <1>2, <1>3, <1>4
  <2> QED BY <1>1, <1>4, <2>1, OthersRecorded
<1>5. CASE d = worker[w].item
  <2>1. sent[d] <= delivery[d].attempts /\ worker[w].attempt = delivery[d].attempts
    BY <1>1, <1>5, AtSend
  <2>2. worker[w].attempt < MaxDeliveryAttempts
    BY <1>1 DEF TypeInv, WorkerInv
  <2>3. \A v \in Workers \ {w} : worker[v].item = d => worker[v].at = "end"
    BY <1>1, <1>5, OneAttempt DEF Busy
  <2>4. \A v \in Workers :
          ~On(v, d, Outcomes)' /\ ~On(v, d, {"send"})' /\ ~On(v, d, {"schedule"})'
    BY <1>1, <2>3 DEF Goes, On, Outcomes
  <2>5. First(d)' = 0
    <3>1. First(d) = 0 /\ <<d, 1>> \in JobIds
      BY <1>1, <1>5, OneAttempt, Constants DEF Busy, JobIds
    <3> QED BY <1>2, <3>1 DEF First
  <2>6. delivery'[d].attempts = delivery[d].attempts /\ sent'[d] = sent[d]
    BY <1>1
  <2> QED BY <2>1, <2>2, <2>4, <2>5, <2>6 DEF Recorded
<1> QED BY <1>4, <1>5

LEMMA RecordedStep ==
  ASSUME TypeInv, JobsInv, ChainsInv, Undisturbed, Undisturbed', [Next]_vars,
         NEW d \in Deliveries, Recorded(d)
  PROVE  Recorded(d)'
<1>1. /\ worker \in [Workers -> Worker] /\ delivery \in [Deliveries -> Delivery]
      /\ budget \in [retries : 0..MaxRetries, crashes : Nat, errors : Nat, edits : Nat]
      /\ MaxRetries \in Nat
  BY Constants DEF TypeInv, TypeOK
<1>2. ASSUME UNCHANGED <<sent, jobs, worker>>, delivery'[d].attempts = delivery[d].attempts
      PROVE  Recorded(d)'
  <2>1. First(d)' = First(d)
    BY <1>2 DEF First
  <2>2. \A w \in Workers : Untouched(w, d)
    BY <1>2 DEF Untouched
  <2>3. First(d)' <= First(d) /\ sent'[d] = sent[d]
    BY <1>2, <2>1, FirstTypes
  <2>4. \A j \in JobIds : j[1] = d /\ jobs'[j].state = "queued" => jobs[j].state = "queued"
    BY <1>2
  <2> QED BY <1>2, <2>2, <2>3, <2>4, RecordKept, FirstTypes
<1>3. ASSUME NEW v \in Events, Dispatch(v) PROVE Recorded(d)'
  BY <1>2, <1>3 DEF Dispatch, DispatchEvent, SendTestEvent, DispatchFails
<1>4. ASSUME NEW v \in Events, NEW e \in Endpoints, CreateDelivery(v, e) PROVE Recorded(d)'
  <2>1. <<v, e>> \in Deliveries
    BY DEF Deliveries
  <2>2. delivery'[d].attempts = delivery[d].attempts
    BY <1>1, <1>4, <2>1 DEF CreateDelivery, Delivery
  <2> QED BY <1>2, <1>4, <2>2 DEF CreateDelivery
<1>5. ASSUME NEW v \in Events, NEW e \in Endpoints, EnqueueFirst(v, e) PROVE Recorded(d)'
  <2>1. <<v, e>> \in Deliveries
    BY DEF Deliveries
  <2> QED BY <1>5, <2>1, FirstJobRecorded DEF EnqueueFirst
<1>6. ASSUME NEW w \in Workers, NEW id \in JobIds, StartAttempt(w, id) PROVE Recorded(d)'
  <2>1. UNCHANGED <<delivery, sent>>
    BY <1>6 DEF StartAttempt
  <2>2. CASE Takes(w, id)
    BY <2>1, <2>2, TakesRecorded
  <2>3. CASE Skips(id)
    <3>1. <<d, 1>> \in JobIds
      BY Constants DEF JobIds
    <3>2. First(d)' <= First(d)
      BY <2>3, <3>1 DEF Skips, First
    <3>3. \A w2 \in Workers : Untouched(w2, d)
      BY <2>3 DEF Skips, Untouched
    <3>4. \A j \in JobIds : jobs'[j].state = "queued" => jobs[j].state = "queued"
      BY <2>3 DEF Skips
    <3>5. delivery'[d].attempts = delivery[d].attempts /\ sent'[d] = sent[d]
      BY <2>1
    <3> QED BY <3>2, <3>3, <3>4, <3>5, RecordKept, FirstTypes
  <2> QED BY <1>6, <2>2, <2>3, StartTakes
<1>7. ASSUME NEW w \in Workers, EndJob(w) PROVE Recorded(d)'
  <2>1. Stops(w, "completed") /\ UNCHANGED <<delivery, sent>> /\ worker[w].at = "end"
    BY <1>7, StopStops DEF EndJob
  <2>2. <<d, 1>> \in JobIds /\ JobOf(w) \in JobIds
    BY <2>1, Constants DEF JobIds, TypeInv, WorkerInv, Busy
  <2>3. First(d)' <= First(d)
    BY <2>1, <2>2 DEF Stops, First
  <2>4. \A v \in Workers : Untouched(v, d)
    BY <2>1, Constants DEF Stops, Untouched, Elsewhere
  <2>5. \A j \in JobIds : jobs'[j].state = "queued" => jobs[j].state = "queued"
    BY <2>1, <2>2 DEF Stops
  <2>6. delivery'[d].attempts = delivery[d].attempts /\ sent'[d] = sent[d]
    BY <2>1
  <2> QED BY <2>3, <2>4, <2>5, <2>6, RecordKept, FirstTypes
<1>8. ASSUME NEW w \in Workers, AttemptStep(w) PROVE Recorded(d)'
  BY <1>7, <1>8, AttemptRecorded, NextJobRecorded DEF AttemptStep
<1>9. ASSUME NEW w \in Workers, FailAttempt(w) \/ CrashWorker(w) PROVE FALSE
  BY <1>1, <1>9 DEF FailAttempt, CrashWorker, Undisturbed, NoFaults
<1>10. ASSUME NEW e \in Endpoints, Edit(e) PROVE Recorded(d)'
  BY <1>2, <1>10 DEF Edit, SetEnabled, Remove
<1>11. ASSUME Retry PROVE FALSE
  <2>1. retrier.at = "idle"
    BY DEF ChainsInv, Undisturbed
  <2> QED
    BY <1>1, <1>11, <2>1
    DEF Retry, CheckRetry, WriteRetry, AddRetry, RetryFails, Undisturbed
<1>12. CASE UNCHANGED vars
  BY <1>2, <1>12 DEF vars
<1> QED
  BY <1>3, <1>4, <1>5, <1>6, <1>8, <1>9, <1>10, <1>11, <1>12 DEF Next, EnqueueStep, Deliver

LEMMA RecordStep ==
  TypeInv /\ JobsInv /\ ChainsInv /\ RecordInv /\ [Next]_vars => RecordInv'
<1> SUFFICES ASSUME TypeInv, JobsInv, ChainsInv, RecordInv, [Next]_vars, Undisturbed',
                    NEW d \in Deliveries
             PROVE  Recorded(d)'
  BY DEF RecordInv
<1>1. Undisturbed
  <2>1. /\ budget'.retries >= budget.retries /\ budget'.crashes >= budget.crashes
        /\ budget'.errors >= budget.errors
    BY BudgetGrows
  <2>2. budget.retries \in Nat /\ budget.crashes \in Nat /\ budget.errors \in Nat
    BY Constants DEF TypeInv, TypeOK
  <2> QED BY <2>1, <2>2 DEF Undisturbed, NoFaults
<1>2. Recorded(d)
  BY <1>1 DEF RecordInv
<1> QED BY <1>1, <1>2, RecordedStep

-----------------------------------------------------------------------------
(* Endpoints that keep failing are turned off *)

(* Every delivery given up in a row is in the endpoint's count, or about to  *)
(* be; and an endpoint with too many of them counted is off.                 *)
Counted(e) == streak[e] <= endpoint[e].failures + Cardinality(Uncounted(e))
OffInTime(e) ==
  streak[e] >= DisableAfter + Cardinality(Uncounted(e)) => ~endpoint[e].enabled

DisableInv == NoFaults => \A e \in Endpoints : Counted(e) /\ OffInTime(e)

LEMMA InUncounted ==
  ASSUME NEW e, NEW w
  PROVE  /\ w \in Uncounted(e) <=>
              w \in Workers /\ worker[w].at = "count" /\ EndpointOf(worker[w].item) = e
         /\ w \in Uncounted(e)' <=>
              w \in Workers /\ worker'[w].at = "count" /\ EndpointOf(worker'[w].item) = e
         /\ Uncounted(e) \subseteq Workers /\ Uncounted(e)' \subseteq Workers
BY DEF Uncounted, EndpointOf

LEMMA UncountedFinite ==
  ASSUME NEW e
  PROVE  /\ IsFiniteSet(Uncounted(e)) /\ Cardinality(Uncounted(e)) \in Nat
         /\ IsFiniteSet(Uncounted(e)') /\ Cardinality(Uncounted(e)') \in Nat
BY InUncounted, Constants, FS_Subset, FS_CardinalityType

LEMMA DisableInit == Init => DisableInv
<1> SUFFICES ASSUME Init, NEW e \in Endpoints PROVE Counted(e) /\ OffInTime(e)
  BY DEF DisableInv
<1>1. streak[e] = 0 /\ endpoint[e].failures = 0
  BY DEF Init
<1>2. Cardinality(Uncounted(e)) \in Nat
  BY UncountedFinite
<1> QED BY <1>1, <1>2, Constants DEF Counted, OffInTime

(* A step that leaves e's count and streak alone, or starts the streak anew. *)
LEMMA CountKept ==
  ASSUME TypeInv, NEW e \in Endpoints, Counted(e), OffInTime(e),
         Uncounted(e)' = Uncounted(e), streak'[e] = streak[e],
         endpoint'[e].failures = endpoint[e].failures,
         ~endpoint[e].enabled => ~endpoint'[e].enabled
  PROVE  Counted(e)' /\ OffInTime(e)'
<1>1. Counted(e)'
  BY DEF Counted
<1>2. OffInTime(e)'
  <2>1. streak'[e] >= DisableAfter + Cardinality(Uncounted(e)') =>
          streak[e] >= DisableAfter + Cardinality(Uncounted(e))
    OBVIOUS
  <2> QED BY <2>1, Zenon DEF OffInTime
<1> QED BY <1>1, <1>2

LEMMA CountFresh ==
  ASSUME NEW e \in Endpoints, streak'[e] = 0, endpoint'[e].failures \in Nat
  PROVE  Counted(e)' /\ OffInTime(e)'
<1>1. Cardinality(Uncounted(e)') \in Nat
  BY UncountedFinite
<1> QED BY <1>1, Constants DEF Counted, OffInTime

(* Who is about to count changes only with a worker that goes to or from it. *)
LEMMA SameUncounted ==
  ASSUME NEW e, NEW w \in Workers,
         \A v \in Workers \ {w} : worker'[v] = worker[v],
         \/ worker[w].at # "count" /\ worker'[w].at # "count"
         \/ EndpointOf(worker[w].item) # e /\ worker'[w].item = worker[w].item
  PROVE  Uncounted(e)' = Uncounted(e)
<1>1. ASSUME NEW v \in Workers PROVE v \in Uncounted(e)' <=> v \in Uncounted(e)
  <2>1. CASE v = w
    BY <2>1, InUncounted
  <2>2. CASE v # w
    BY <2>2, InUncounted
  <2> QED BY <2>1, <2>2
<1> QED BY <1>1, InUncounted

(* A delivery is given up: the endpoint's row waits for the second           *)
(* transaction of finalizeFailure.                                           *)
LEMMA AbandonCounts ==
  ASSUME TypeInv, NEW w \in Workers, Abandon(w), NEW e \in Endpoints, Counted(e), OffInTime(e)
  PROVE  Counted(e)' /\ OffInTime(e)'
<1>1. /\ worker \in [Workers -> Worker] /\ streak \in [Endpoints -> Nat]
      /\ endpoint \in [Endpoints -> Endpoint] /\ endpoint' = endpoint
      /\ worker[w].at = "abandon"
  BY DEF TypeInv, TypeOK, Abandon
<1>2. EndpointOf(worker[w].item) \in Endpoints
  BY <1>1, ItemTypes
<1>3. CASE ~worker[w].counts
  <2>1. Goes(w, "end") /\ streak' = streak
    BY <1>1, <1>3, AttemptGoes DEF Abandon
  <2>2. Uncounted(e)' = Uncounted(e)
    BY <1>1, <2>1, SameUncounted DEF Goes
  <2> QED BY <1>1, <2>1, <2>2, CountKept
<1>4. CASE worker[w].counts
  <2>1. Goes(w, "count") /\ streak' = [streak EXCEPT ![EndpointOf(worker[w].item)] = @ + 1]
    BY <1>1, <1>4, AttemptGoes DEF Abandon
  <2>2. CASE EndpointOf(worker[w].item) # e
    <3>1. Uncounted(e)' = Uncounted(e)
      BY <2>1, <2>2, SameUncounted DEF Goes
    <3> QED BY <1>1, <1>2, <2>1, <2>2, <3>1, CountKept
  <2>3. CASE EndpointOf(worker[w].item) = e
    <3>1. w \notin Uncounted(e)
      BY <1>1, InUncounted
    <3>2. ASSUME NEW v \in Workers PROVE v \in Uncounted(e)' <=> v \in Uncounted(e) \cup {w}
      <4>1. CASE v = w
        BY <2>1, <2>3, <4>1, InUncounted DEF Goes
      <4>2. CASE v # w
        BY <2>1, <4>2, InUncounted DEF Goes
      <4> QED BY <4>1, <4>2
    <3>3. Uncounted(e)' = Uncounted(e) \cup {w}
      BY <3>2, InUncounted
    <3>4. Cardinality(Uncounted(e)') = Cardinality(Uncounted(e)) + 1
      BY <3>1, <3>3, UncountedFinite, FS_AddElement
    <3>5. streak'[e] = streak[e] + 1 /\ streak[e] \in Nat /\ endpoint[e].failures \in Nat
      BY <1>1, <2>1, <2>3 DEF Endpoint
    <3>6. Cardinality(Uncounted(e)) \in Nat /\ DisableAfter \in Nat
      BY UncountedFinite, Constants
    <3>7. Counted(e)'
      BY <1>1, <3>4, <3>5, <3>6 DEF Counted
    <3>8. streak'[e] >= DisableAfter + Cardinality(Uncounted(e)') =>
            streak[e] >= DisableAfter + Cardinality(Uncounted(e))
      BY <3>4, <3>5, <3>6
    <3>9. OffInTime(e)'
      BY <1>1, <3>8, Zenon DEF OffInTime
    <3> QED BY <3>7, <3>9
  <2> QED BY <2>2, <2>3
<1> QED BY <1>3, <1>4

(* .. which decides on the value it has just written.                        *)
LEMMA CountDecides ==
  ASSUME TypeInv, NEW w \in Workers, CountFailure(w),
         NEW e \in Endpoints, Counted(e), OffInTime(e)
  PROVE  Counted(e)' /\ OffInTime(e)'
<1>1. /\ worker \in [Workers -> Worker] /\ streak \in [Endpoints -> Nat]
      /\ endpoint \in [Endpoints -> Endpoint] /\ streak' = streak
      /\ worker[w].at = "count" /\ Goes(w, "end")
  BY AttemptGoes DEF TypeInv, TypeOK, CountFailure
<1>2. EndpointOf(worker[w].item) \in Endpoints
  BY <1>1, ItemTypes
<1> DEFINE f == EndpointOf(worker[w].item)
           failures == endpoint[f].failures + 1
<1>3. PICK off \in BOOLEAN : off = ShouldDisable(failures, worker[w].gone)
  <2>1. ShouldDisable(failures, worker[w].gone) \in BOOLEAN
    BY DEF ShouldDisable
  <2> QED BY <2>1
<1>4. endpoint' = [endpoint EXCEPT ![f].failures = failures, ![f].enabled = @ /\ ~off]
  BY <1>3, Zenon DEF CountFailure
<1>5. CASE f # e
  <2>1. Uncounted(e)' = Uncounted(e)
    <3>1. worker'[w].at = "end" /\ worker'[w].item = worker[w].item
      BY <1>1 DEF Goes
    <3> QED BY <1>1, <1>5, <3>1, SameUncounted DEF Goes
  <2>2. endpoint'[e] = endpoint[e]
    BY <1>1, <1>4, <1>5
  <2> QED BY <1>1, <2>1, <2>2, CountKept
<1>6. CASE f = e
  <2>1. w \in Uncounted(e)
    BY <1>1, <1>6, InUncounted
  <2>2. ASSUME NEW v \in Workers PROVE v \in Uncounted(e)' <=> v \in Uncounted(e) \ {w}
    <3>1. CASE v = w
      BY <1>1, <3>1, InUncounted DEF Goes
    <3>2. CASE v # w
      BY <1>1, <3>2, InUncounted DEF Goes
    <3> QED BY <3>1, <3>2
  <2>3. Uncounted(e)' = Uncounted(e) \ {w}
    BY <2>2, InUncounted
  <2>4. Cardinality(Uncounted(e)') = Cardinality(Uncounted(e)) - 1
    BY <2>1, <2>3, UncountedFinite, FS_RemoveElement
  <2>5. /\ endpoint'[e].failures = failures /\ endpoint[e].failures \in Nat /\ streak[e] \in Nat
        /\ Cardinality(Uncounted(e)) \in Nat /\ DisableAfter \in Nat
    BY <1>1, <1>4, <1>6, UncountedFinite, Constants DEF Endpoint
  <2>6. Counted(e)'
    BY <1>1, <1>6, <2>4, <2>5 DEF Counted
  <2>7. endpoint'[e].enabled = (endpoint[e].enabled /\ ~off)
    BY <1>1, <1>4, <1>6 DEF Endpoint
  <2>8. ASSUME streak'[e] >= DisableAfter + Cardinality(Uncounted(e)')
        PROVE  ~endpoint'[e].enabled
    <3>1. failures >= DisableAfter
      BY <1>1, <1>6, <2>4, <2>5, <2>8 DEF Counted
    <3>2. off
      BY <1>3, <3>1, Zenon DEF ShouldDisable
    <3> QED BY <2>7, <3>2, Zenon
  <2> QED BY <2>6, <2>8 DEF OffInTime
<1> QED BY <1>5, <1>6

LEMMA DisableStep == TypeInv /\ DisableInv /\ [Next]_vars => DisableInv'
<1> SUFFICES ASSUME TypeInv, DisableInv, [Next]_vars, NoFaults', NEW e \in Endpoints
             PROVE  Counted(e)' /\ OffInTime(e)'
  BY DEF DisableInv
<1>1. /\ worker \in [Workers -> Worker] /\ endpoint \in [Endpoints -> Endpoint]
      /\ streak \in [Endpoints -> Nat]
      /\ budget \in [retries : 0..MaxRetries, crashes : Nat, errors : Nat, edits : Nat]
  BY DEF TypeInv, TypeOK
<1>2. TypeInv'
  BY TypeStep
<1>3. endpoint'[e].failures \in Nat
  BY <1>2 DEF TypeInv, TypeOK, Endpoint
<1>4. Counted(e) /\ OffInTime(e)
  <2>1. NoFaults
    <3>1. budget'.crashes >= budget.crashes /\ budget'.errors >= budget.errors
      BY BudgetGrows
    <3> QED BY <1>1, <3>1 DEF NoFaults
  <2> QED BY <2>1 DEF DisableInv
<1>5. ASSUME UNCHANGED <<endpoint, worker, streak>> PROVE Counted(e)' /\ OffInTime(e)'
  <2>1. Uncounted(e)' = Uncounted(e)
    BY <1>5 DEF Uncounted, EndpointOf
  <2> QED BY <1>4, <1>5, <2>1, CountKept
<1>6. ASSUME NEW v \in Events, Dispatch(v) \/ EnqueueStep(v) PROVE Counted(e)' /\ OffInTime(e)'
  BY <1>5, <1>6 DEF Dispatch, DispatchEvent, SendTestEvent, DispatchFails, EnqueueStep,
                    CreateDelivery, EnqueueFirst
<1>7. ASSUME NEW w \in Workers, UNCHANGED <<endpoint, streak>>,
             \A v \in Workers \ {w} : worker'[v] = worker[v],
             worker[w].at # "count" /\ worker'[w].at # "count"
      PROVE  Counted(e)' /\ OffInTime(e)'
  BY <1>4, <1>7, SameUncounted, CountKept
<1>8. ASSUME NEW w \in Workers, NEW id \in JobIds, StartAttempt(w, id)
      PROVE  Counted(e)' /\ OffInTime(e)'
  <2>1. UNCHANGED <<endpoint, streak>>
    BY <1>8 DEF StartAttempt
  <2>2. CASE Skips(id)
    BY <1>5, <2>1, <2>2 DEF Skips
  <2>3. CASE Takes(w, id)
    BY <1>7, <2>1, <2>3 DEF Takes
  <2> QED BY <1>8, <2>2, <2>3, StartTakes
<1>9. ASSUME NEW w \in Workers, AttemptStep(w) PROVE Counted(e)' /\ OffInTime(e)'
  <2>1. CASE Send(w) \/ RefuseHostname(w) \/ RecordFailure(w) \/ ScheduleAttempt(w)
    <3>1. UNCHANGED <<endpoint, streak>> /\ worker[w].at # "count"
      BY <2>1 DEF Send, SendResults, RefuseHostname, RecordFailure, ScheduleAttempt
    <3>2. \/ Goes(w, "success") \/ Goes(w, "failure") \/ Goes(w, "abandon")
          \/ Goes(w, "schedule") \/ Goes(w, "end")
      BY <1>1, <2>1, AttemptGoes
    <3> QED BY <1>7, <3>1, <3>2 DEF Goes
  <2>2. CASE FinalizeSuccess(w)
    <3>1. Goes(w, "end") /\ worker[w].at = "success" /\ EndpointOf(worker[w].item) \in Endpoints
      BY <1>1, <2>2, AttemptGoes, ItemTypes DEF FinalizeSuccess
    <3>2. CASE EndpointOf(worker[w].item) = e
      <4>1. streak'[e] = 0
        BY <1>1, <2>2, <3>2 DEF FinalizeSuccess
      <4> QED BY <1>3, <4>1, CountFresh
    <3>3. CASE EndpointOf(worker[w].item) # e
      <4>1. streak'[e] = streak[e] /\ endpoint'[e] = endpoint[e]
        BY <1>1, <2>2, <3>3 DEF FinalizeSuccess
      <4>2. Uncounted(e)' = Uncounted(e)
        BY <3>1, SameUncounted DEF Goes
      <4> QED BY <1>4, <4>1, <4>2, CountKept
    <3> QED BY <3>2, <3>3
  <2>3. CASE Abandon(w)
    BY <1>4, <2>3, AbandonCounts
  <2>4. CASE CountFailure(w)
    BY <1>4, <2>4, CountDecides
  <2>5. CASE EndJob(w)
    <3>1. Stops(w, "completed") /\ UNCHANGED <<endpoint, streak>> /\ worker[w].at # "count"
      BY <2>5, StopStops DEF EndJob
    <3> QED BY <1>7, <3>1 DEF Stops
  <2> QED BY <1>9, <2>1, <2>2, <2>3, <2>4, <2>5 DEF AttemptStep
<1>10. ASSUME NEW w \in Workers, FailAttempt(w) \/ CrashWorker(w) PROVE FALSE
  BY <1>1, <1>10 DEF FailAttempt, CrashWorker, NoFaults
<1>11. ASSUME NEW f \in Endpoints, Remove(f) PROVE Counted(e)' /\ OffInTime(e)'
  <2>1. UNCHANGED <<worker, streak>> /\ endpoint'[e].failures = endpoint[e].failures
    BY <1>1, <1>11 DEF Remove, Endpoint
  <2>2. ~endpoint[e].enabled => ~endpoint'[e].enabled
    BY <1>1, <1>11 DEF Remove, Endpoint
  <2>3. Uncounted(e)' = Uncounted(e)
    BY <2>1 DEF Uncounted, EndpointOf
  <2> QED BY <1>4, <2>1, <2>2, <2>3, CountKept
<1>12. ASSUME NEW f \in Endpoints, NEW enabled \in BOOLEAN, SetEnabled(f, enabled)
       PROVE  Counted(e)' /\ OffInTime(e)'
  <2>1. worker' = worker /\ endpoint' = [endpoint EXCEPT ![f].enabled = enabled]
    BY <1>12 DEF SetEnabled
  <2>2. endpoint'[e].failures = endpoint[e].failures
    BY <1>1, <2>1 DEF Endpoint
  <2>3. Uncounted(e)' = Uncounted(e)
    BY <2>1 DEF Uncounted, EndpointOf
  <2>4. CASE enabled /\ f = e
    <3>1. streak'[e] = 0
      BY <1>1, <1>12, <2>4 DEF SetEnabled
    <3> QED BY <1>3, <3>1, CountFresh
  <2>5. CASE ~enabled
    <3>1. streak' = streak
      BY <1>12, <2>5 DEF SetEnabled
    <3>2. ~endpoint[e].enabled => ~endpoint'[e].enabled
      BY <1>1, <2>1, <2>5 DEF Endpoint
    <3> QED BY <1>4, <2>2, <2>3, <3>1, <3>2, CountKept
  <2>6. CASE f # e
    <3>1. streak'[e] = streak[e]
      <4>1. CASE enabled
        BY <1>1, <1>12, <2>6, <4>1 DEF SetEnabled
      <4>2. CASE ~enabled
        BY <1>12, <4>2 DEF SetEnabled
      <4> QED BY <4>1, <4>2
    <3>2. endpoint'[e] = endpoint[e]
      BY <1>1, <2>1, <2>6
    <3> QED BY <1>4, <2>2, <2>3, <3>1, <3>2, CountKept
  <2> QED BY <2>4, <2>5, <2>6
<1>13. ASSUME Retry PROVE Counted(e)' /\ OffInTime(e)'
  BY <1>5, <1>13 DEF Retry, CheckRetry, WriteRetry, AddRetry, RetryFails
<1>14. CASE UNCHANGED vars
  BY <1>5, <1>14 DEF vars
<1> QED
  BY <1>6, <1>8, <1>9, <1>10, <1>11, <1>12, <1>13, <1>14 DEF Next, Deliver, Edit

-----------------------------------------------------------------------------
(* What is announced, and in which order *)

Announced(d) == delivery[d].status # "none"

(* Jobs and retries are of deliveries that have a row; a dispatcher writes   *)
(* the row of one endpoint at a time, of those it has left.                  *)
RowsKnown ==
  /\ \A j \in JobIds : jobs[j].state # "none" => Announced(j[1])
  /\ retrier.at # "idle" => Announced(retrier.item)
RowsInOrder(v) ==
  /\ dispatcher[v].at = "new" => \A e \in Endpoints : ~Announced(<<v, e>>)
  /\ dispatcher[v].at = "create" => \A e \in dispatcher[v].left : ~Announced(<<v, e>>)
  /\ dispatcher[v].at = "add" =>
       \A e, f \in dispatcher[v].left : Announced(<<v, e>>) /\ Announced(<<v, f>>) => e = f
RowsInv == RowsKnown /\ \A v \in Events : RowsInOrder(v)

LEMMA RowsInit == Init => RowsInv
BY DEF Init, RowsInv, RowsKnown, RowsInOrder, Announced, IdleRetrier, Deliveries

LEMMA BusyAnnounced ==
  ASSUME TypeInv, JobsInv, RowsInv, NEW w \in Workers, worker[w].at # "idle"
  PROVE  worker[w].item \in Deliveries /\ Announced(worker[w].item)
<1>1. /\ JobOf(w) \in JobIds /\ JobOf(w) = <<worker[w].item, worker[w].number>>
      /\ worker[w].item \in Deliveries
  BY ItemTypes
<1>2. jobs[JobOf(w)].state = "active"
  BY DEF JobsInv, Busy
<1>3. Announced(JobOf(w)[1])
  BY <1>1, <1>2 DEF RowsInv, RowsKnown
<1> QED BY <1>1, <1>3

(* What a job can become of.                                                 *)
LEMMA NewJobs ==
  ASSUME TypeInv, JobsInv, RowsInv, [Next]_vars, NEW j \in JobIds, jobs'[j].state # "none"
  PROVE  Announced(j[1])
<1>1. ASSUME jobs[j].state # "none" PROVE Announced(j[1])
  BY <1>1 DEF RowsInv, RowsKnown
<1>2. ASSUME UNCHANGED jobs PROVE Announced(j[1])
  BY <1>1, <1>2
<1>3. jobs \in [JobIds -> Job]
  BY DEF TypeInv, TypeOK
<1>4. ASSUME NEW v \in Events, NEW e \in Endpoints, EnqueueFirst(v, e) PROVE Announced(j[1])
  <2>1. <<<<v, e>>, 1>> \in JobIds /\ Announced(<<v, e>>) /\ AddJob(<<<<v, e>>, 1>>)
    BY <1>4, Constants DEF JobIds, Deliveries, EnqueueFirst, Announced
  <2>2. j = <<<<v, e>>, 1>> \/ jobs[j].state # "none"
    BY <1>3, <2>1, Added
  <2> QED BY <1>1, <2>1, <2>2
<1>5. ASSUME NEW w \in Workers, NEW id \in JobIds, StartAttempt(w, id) PROVE Announced(j[1])
  <2>1. jobs[id].state = "queued" /\ \A i \in JobIds \ {id} : jobs'[i] = jobs[i]
    BY <1>5, StartTakes DEF Takes, Skips
  <2> QED BY <1>1, <2>1
<1>6. ASSUME NEW w \in Workers, ScheduleAttempt(w) PROVE Announced(j[1])
  <2>1. worker[w].at = "schedule" /\ AddJob(NextJob(w)) /\ NextJob(w) \in JobIds
    BY <1>6, NextJobIsAnId DEF ScheduleAttempt
  <2>2. NextJob(w)[1] = worker[w].item /\ Announced(worker[w].item)
    BY <2>1, BusyAnnounced DEF NextJob
  <2>3. j = NextJob(w) \/ jobs[j].state # "none"
    BY <1>3, <2>1, Added
  <2> QED BY <1>1, <2>2, <2>3
<1>7. ASSUME NEW w \in Workers, EndJob(w) \/ FailAttempt(w) \/ CrashWorker(w)
      PROVE  Announced(j[1])
  <2>1. worker[w].at # "idle" /\ \A i \in JobIds \ {JobOf(w)} : jobs'[i] = jobs[i]
    BY <1>7, StopStops DEF Stops
  <2>2. jobs[JobOf(w)].state # "none"
    BY <2>1 DEF JobsInv, Busy
  <2> QED BY <1>1, <2>1, <2>2
<1>8. CASE AddRetry
  <2> DEFINE id == <<retrier.item, MaxDeliveryAttempts + budget.retries>>
  <2>1. retrier.item \in Deliveries /\ Announced(retrier.item) /\ AddJob(id)
    BY <1>8 DEF AddRetry, RowsInv, RowsKnown, TypeInv, TypeOK
  <2>2. j = id \/ jobs[j].state # "none"
    <3>1. CASE id \in JobIds
      BY <1>3, <2>1, <3>1, Added
    <3>2. CASE id \notin JobIds
      BY <1>3, <2>1, <3>2 DEF AddJob
    <3> QED BY <3>1, <3>2
  <2> QED BY <1>1, <2>1, <2>2
<1>9. ASSUME NEW v \in Events, Dispatch(v) PROVE UNCHANGED jobs
  BY <1>9 DEF Dispatch, DispatchEvent, SendTestEvent, DispatchFails
<1>10. ASSUME NEW v \in Events, NEW e \in Endpoints, CreateDelivery(v, e) PROVE UNCHANGED jobs
  BY <1>10 DEF CreateDelivery
<1>11. ASSUME NEW w \in Workers,
              \/ Send(w) \/ RefuseHostname(w) \/ FinalizeSuccess(w) \/ RecordFailure(w)
              \/ Abandon(w) \/ CountFailure(w)
       PROVE  UNCHANGED jobs
  BY <1>11 DEF Send, SendResults, RefuseHostname, FinalizeSuccess, RecordFailure, Abandon, CountFailure
<1>12. ASSUME NEW e \in Endpoints, Edit(e) PROVE UNCHANGED jobs
  BY <1>12 DEF Edit, SetEnabled, Remove
<1>13. CASE Retry /\ ~AddRetry
  <2>1. UNCHANGED jobs
    BY <1>13 DEF Retry, CheckRetry, WriteRetry, RetryFails
  <2> QED BY <1>2, <2>1
<1>14. CASE UNCHANGED vars
  BY <1>2, <1>14 DEF vars
<1> QED
  BY <1>2, <1>4, <1>5, <1>6, <1>7, <1>8, <1>9, <1>10, <1>11, <1>12, <1>13, <1>14
     DEF Next, EnqueueStep, Deliver, AttemptStep

(* Rows are written by dispatchers, and only rewritten by the others.        *)
LEMMA RowsKept ==
  ASSUME TypeInv, JobsInv, RowsInv, [Next]_vars, NEW d \in Deliveries
  PROVE  \/ \E v \in Events, e \in Endpoints : CreateDelivery(v, e)
         \/ Announced(d)' <=> Announced(d)
<1>1. delivery \in [Deliveries -> Delivery]
  BY DEF TypeInv, TypeOK
<1>2. CASE UNCHANGED delivery
  BY <1>2 DEF Announced
<1>3. ASSUME NEW c \in Deliveries, Announced(c), delivery'[c].status # "none",
             \A o \in Deliveries \ {c} : delivery'[o] = delivery[o]
      PROVE  Announced(d)' <=> Announced(d)
  BY <1>3 DEF Announced
<1>4. ASSUME NEW w \in Workers, FinalizeSuccess(w) \/ RecordFailure(w) \/ Abandon(w)
      PROVE  Announced(d)' <=> Announced(d)
  <2> DEFINE c == worker[w].item
  <2>1. c \in Deliveries /\ Announced(c)
    BY <1>4, BusyAnnounced DEF FinalizeSuccess, RecordFailure, Abandon
  <2>2. /\ delivery'[c].status # "none"
        /\ \A o \in Deliveries \ {c} : delivery'[o] = delivery[o]
    BY <1>1, <1>4, <2>1
       DEF FinalizeSuccess, RecordFailure, Abandon, FailedOnce, GivenUp
  <2> HIDE DEF c
  <2> QED BY <1>3, <2>1, <2>2
<1>5. CASE WriteRetry
  <2> DEFINE c == retrier.item
  <2>1. c \in Deliveries /\ Announced(c)
    BY <1>5 DEF WriteRetry, RowsInv, RowsKnown, TypeInv, TypeOK
  <2>2. /\ delivery'[c].status # "none"
        /\ \A o \in Deliveries \ {c} : delivery'[o] = delivery[o]
    BY <1>1, <1>5, <2>1 DEF WriteRetry, Delivery
  <2> HIDE DEF c
  <2> QED BY <1>3, <2>1, <2>2
<1>6. ASSUME NEW v \in Events, Dispatch(v) PROVE UNCHANGED delivery
  BY <1>6 DEF Dispatch, DispatchEvent, SendTestEvent, DispatchFails
<1>7. ASSUME NEW v \in Events, NEW e \in Endpoints, EnqueueFirst(v, e) PROVE UNCHANGED delivery
  BY <1>7 DEF EnqueueFirst
<1>8. ASSUME NEW w \in Workers,
             \/ \E id \in JobIds : StartAttempt(w, id)
             \/ Send(w) \/ RefuseHostname(w) \/ ScheduleAttempt(w) \/ CountFailure(w)
             \/ EndJob(w) \/ FailAttempt(w) \/ CrashWorker(w)
      PROVE  UNCHANGED delivery
  BY <1>8 DEF StartAttempt, Send, SendResults, RefuseHostname, ScheduleAttempt, CountFailure, EndJob,
              FailAttempt, CrashWorker
<1>9. ASSUME NEW e \in Endpoints, Edit(e) PROVE UNCHANGED delivery
  BY <1>9 DEF Edit, SetEnabled, Remove
<1>10. CASE Retry /\ ~WriteRetry
  <2>1. UNCHANGED delivery
    BY <1>10 DEF Retry, CheckRetry, AddRetry, RetryFails
  <2> QED BY <1>2, <2>1
<1>11. CASE UNCHANGED vars
  BY <1>2, <1>11 DEF vars
<1> QED
  BY <1>2, <1>4, <1>5, <1>6, <1>7, <1>8, <1>9, <1>10, <1>11
     DEF Next, EnqueueStep, Deliver, AttemptStep

(* A row that a dispatcher writes is the only one that is new.               *)
LEMMA CreatesOne ==
  ASSUME TypeInv, RowsInv, NEW v \in Events, NEW e \in Endpoints, CreateDelivery(v, e)
  PROVE  /\ <<v, e>> \in Deliveries /\ ~Announced(<<v, e>>)
         /\ delivery' = [delivery EXCEPT ![<<v, e>>].status = "PENDING"]
         /\ \A d \in Deliveries \ {<<v, e>>} : delivery'[d] = delivery[d]
         /\ delivery'[<<v, e>>].status = "PENDING"
         /\ delivery'[<<v, e>>].attempts = delivery[<<v, e>>].attempts
<1>1. <<v, e>> \in Deliveries /\ delivery \in [Deliveries -> Delivery]
  BY DEF Deliveries, TypeInv, TypeOK
<1>2. ~Announced(<<v, e>>)
  BY DEF RowsInv, RowsInOrder, CreateDelivery
<1> QED BY <1>1, <1>2 DEF CreateDelivery, Delivery

LEMMA RowsStep == TypeInv /\ JobsInv /\ RowsInv /\ [Next]_vars => RowsInv'
<1> SUFFICES ASSUME TypeInv, JobsInv, RowsInv, [Next]_vars PROVE RowsInv'
  OBVIOUS
<1>1. /\ dispatcher \in [Events -> Dispatcher] /\ retrier \in Retrier
      /\ retrier.at # "idle" => retrier.item \in Deliveries
  BY DEF TypeInv, TypeOK
<1>2. ASSUME NEW d \in Deliveries, Announced(d) PROVE Announced(d)'
  <2>1. ASSUME NEW v \in Events, NEW e \in Endpoints, CreateDelivery(v, e) PROVE Announced(d)'
    BY <1>2, <2>1, CreatesOne DEF Announced
  <2> QED BY <1>2, <2>1, RowsKept
<1>3. \A j \in JobIds : jobs'[j].state # "none" => Announced(j[1])'
  BY <1>2, NewJobs DEF JobIds
<1>4. (retrier.at # "idle" => Announced(retrier.item))'
  <2>1. ASSUME retrier' = retrier PROVE (retrier.at # "idle" => Announced(retrier.item))'
    <3>1. retrier.at # "idle" => delivery'[retrier.item].status # "none"
      BY <1>1, <1>2 DEF RowsInv, RowsKnown, Announced
    <3> QED BY <2>1, <3>1 DEF Announced
  <2>2. ASSUME NEW d \in Deliveries, CheckRetry(d)
        PROVE  (retrier.at # "idle" => Announced(retrier.item))'
    <3>1. UNCHANGED delivery /\ retrier'.item = d /\ delivery[d].status # "none"
      BY <2>2 DEF CheckRetry
    <3> QED BY <3>1 DEF Announced
  <2>3. CASE WriteRetry
    <3>1. retrier.at # "idle" /\ retrier'.item = retrier.item
      BY <1>1, <2>3 DEF WriteRetry, Retrier
    <3>2. delivery'[retrier.item].status # "none"
      BY <1>1, <1>2, <3>1 DEF RowsInv, RowsKnown, Announced
    <3> QED BY <3>1, <3>2 DEF Announced
  <2>4. CASE AddRetry \/ RetryFails
    BY <2>4 DEF AddRetry, RetryFails, IdleRetrier, Announced
  <2>5. ASSUME NEW v \in Events, Dispatch(v) \/ EnqueueStep(v) PROVE UNCHANGED retrier
    BY <2>5 DEF Dispatch, DispatchEvent, SendTestEvent, DispatchFails, EnqueueStep,
                CreateDelivery, EnqueueFirst
  <2>6. ASSUME NEW w \in Workers, Deliver(w) PROVE UNCHANGED retrier
    BY <2>6 DEF Deliver, StartAttempt, AttemptStep, Send, SendResults, RefuseHostname, FinalizeSuccess,
                RecordFailure, ScheduleAttempt, Abandon, CountFailure, EndJob,
                FailAttempt, CrashWorker
  <2>7. ASSUME NEW e \in Endpoints, Edit(e) PROVE UNCHANGED retrier
    BY <2>7 DEF Edit, SetEnabled, Remove
  <2> QED BY <2>1, <2>2, <2>3, <2>4, <2>5, <2>6, <2>7 DEF Next, Retry, vars
<1>5. ASSUME NEW v \in Events PROVE RowsInOrder(v)'
  <2>1. RowsInOrder(v) /\ \A e \in Endpoints : <<v, e>> \in Deliveries
    BY DEF RowsInv, Deliveries
  <2>2. dispatcher[v].left \subseteq Endpoints
    BY <1>1 DEF Dispatcher
  <2>3. ASSUME \A e \in Endpoints : Announced(<<v, e>>)' <=> Announced(<<v, e>>),
               \/ dispatcher'[v] = dispatcher[v]
               \/ dispatcher'[v].at = "done"
               \/ /\ dispatcher'[v].at = "create"
                  /\ dispatcher'[v].left \subseteq Endpoints
                  /\ \A e \in dispatcher'[v].left : ~Announced(<<v, e>>)
        PROVE  RowsInOrder(v)'
    BY <2>1, <2>2, <2>3 DEF RowsInOrder
  <2>4. ASSUME NEW u \in Events, NEW e \in Endpoints, CreateDelivery(u, e)
        PROVE  RowsInOrder(v)'
    <3>1. \A d \in Deliveries \ {<<u, e>>} : Announced(d)' <=> Announced(d)
      BY <2>4, CreatesOne DEF Announced
    <3>2. CASE u = v
      <4>1. /\ dispatcher'[v].at = "add" /\ dispatcher'[v].left = dispatcher[v].left
            /\ dispatcher[v].at = "create"
        BY <1>1, <2>4, <3>2 DEF CreateDelivery, Dispatcher
      <4>2. \A f \in dispatcher[v].left : Announced(<<v, f>>)' => f = e
        BY <2>1, <2>2, <3>1, <3>2, <4>1 DEF RowsInOrder
      <4> QED BY <4>1, <4>2 DEF RowsInOrder
    <3>3. CASE u # v
      <4>1. \A f \in Endpoints : Announced(<<v, f>>)' <=> Announced(<<v, f>>)
        BY <2>1, <3>1, <3>3
      <4>2. dispatcher'[v] = dispatcher[v]
        BY <1>1, <2>4, <3>3 DEF CreateDelivery
      <4> QED BY <2>3, <4>1, <4>2
    <3> QED BY <3>2, <3>3
  <2>5. ASSUME NEW u \in Events, NEW e \in Endpoints, EnqueueFirst(u, e)
        PROVE  RowsInOrder(v)'
    <3>1. \A f \in Endpoints : Announced(<<v, f>>)' <=> Announced(<<v, f>>)
      BY <2>5 DEF EnqueueFirst, Announced
    <3>2. CASE u = v
      <4>1. /\ dispatcher[v].at = "add" /\ e \in dispatcher[v].left /\ Announced(<<v, e>>)
            /\ dispatcher'[v].at \in {"create", "done"}
            /\ dispatcher'[v].left = dispatcher[v].left \ {e}
        BY <1>1, <2>5, <3>2 DEF EnqueueFirst, Announced, Dispatcher
      <4>2. \A f \in dispatcher[v].left \ {e} : ~Announced(<<v, f>>)
        BY <2>1, <4>1 DEF RowsInOrder
      <4> QED BY <2>2, <2>3, <3>1, <4>1, <4>2
    <3>3. CASE u # v
      <4>1. dispatcher'[v] = dispatcher[v]
        BY <1>1, <2>5, <3>3 DEF EnqueueFirst
      <4> QED BY <2>3, <3>1, <4>1
    <3> QED BY <3>2, <3>3
  <2>6. ASSUME NEW u \in Events, Dispatch(u) PROVE RowsInOrder(v)'
    <3>1. \A f \in Endpoints : Announced(<<v, f>>)' <=> Announced(<<v, f>>)
      BY <2>6 DEF Dispatch, DispatchEvent, SendTestEvent, DispatchFails, Announced
    <3>2. CASE u = v
      <4>1. ASSUME DispatchFails(v) PROVE dispatcher'[v].at = "done"
        BY <1>1, <4>1 DEF DispatchFails
      <4>2. ASSUME DispatchEvent(v)
            PROVE  /\ dispatcher[v].at = "new" /\ dispatcher'[v].at \in {"create", "done"}
                   /\ dispatcher'[v].left \subseteq Endpoints
        <5> DEFINE targets == {e \in Endpoints : endpoint[e].enabled /\ ~endpoint[e].deleted}
        <5>1. /\ targets \subseteq Endpoints /\ dispatcher[v].at = "new"
              /\ dispatcher' = [dispatcher EXCEPT ![v] =
                      [at |-> IF targets = {} THEN "done" ELSE "create", left |-> targets]]
          BY <4>2 DEF DispatchEvent
        <5> HIDE DEF targets
        <5> QED BY <1>1, <5>1
      <4>3. ASSUME NEW e \in Endpoints, SendTestEvent(v, e)
            PROVE  /\ dispatcher[v].at = "new" /\ dispatcher'[v].at = "create"
                   /\ dispatcher'[v].left \subseteq Endpoints
        BY <1>1, <4>3 DEF SendTestEvent
      <4>4. dispatcher[v].at = "new" => \A e \in Endpoints : ~Announced(<<v, e>>)
        BY <2>1 DEF RowsInOrder
      <4>5. CASE DispatchFails(v)
        BY <2>3, <3>1, <4>1, <4>5
      <4>6. CASE DispatchEvent(v) \/ \E e \in Endpoints : SendTestEvent(v, e)
        <5>1. /\ dispatcher[v].at = "new" /\ dispatcher'[v].at \in {"create", "done"}
              /\ dispatcher'[v].left \subseteq Endpoints
          BY <4>2, <4>3, <4>6
        <5> QED BY <2>3, <3>1, <4>4, <5>1
      <4> QED BY <2>6, <3>2, <4>5, <4>6 DEF Dispatch
    <3>3. CASE u # v
      <4>1. dispatcher'[v] = dispatcher[v]
        BY <1>1, <2>6, <3>3 DEF Dispatch, DispatchEvent, SendTestEvent, DispatchFails
      <4> QED BY <2>3, <3>1, <4>1
    <3> QED BY <3>2, <3>3
  <2>7. ASSUME UNCHANGED dispatcher, ~\E u \in Events, e \in Endpoints : CreateDelivery(u, e)
        PROVE  RowsInOrder(v)'
    <3>1. \A e \in Endpoints : Announced(<<v, e>>)' <=> Announced(<<v, e>>)
      BY <2>1, <2>7, RowsKept
    <3> QED BY <2>3, <2>7, <3>1
  <2>8. ASSUME NEW w \in Workers, Deliver(w) PROVE UNCHANGED dispatcher
    BY <2>8 DEF Deliver, StartAttempt, AttemptStep, Send, SendResults, RefuseHostname, FinalizeSuccess,
                RecordFailure, ScheduleAttempt, Abandon, CountFailure, EndJob,
                FailAttempt, CrashWorker
  <2>9. ASSUME NEW e \in Endpoints, Edit(e) PROVE UNCHANGED dispatcher
    BY <2>9 DEF Edit, SetEnabled, Remove
  <2>10. ASSUME Retry PROVE UNCHANGED dispatcher
    BY <2>10 DEF Retry, CheckRetry, WriteRetry, AddRetry, RetryFails
  <2> QED BY <2>4, <2>5, <2>6, <2>7, <2>8, <2>9, <2>10 DEF Next, EnqueueStep, vars
<1>6. RowsKnown'
  BY <1>3, <1>4 DEF RowsKnown
<1> QED BY <1>5, <1>6 DEF RowsInv

-----------------------------------------------------------------------------
(* What is settled stays settled *)

(* Of a delivery without faults and manual retries: whoever will attempt it, *)
(* or has an outcome to store, finds it PENDING.                             *)
AtWork == {"send", "success", "failure", "abandon", "schedule"}
Open(d) ==
  /\ First(d) = 1 => delivery[d].status \in {"none", "PENDING"}
  /\ \A j \in JobIds : j[1] = d /\ jobs[j].state = "queued" => delivery[d].status = "PENDING"
  /\ \A w \in Workers : On(w, d, AtWork) => delivery[d].status = "PENDING"
OpenInv == Undisturbed => \A d \in Deliveries : Open(d)

LEMMA OpenInit == Init => OpenInv
<1> SUFFICES ASSUME Init PROVE OpenInv
  OBVIOUS
<1>1. /\ \A w \in Workers : worker[w].at = "idle"
      /\ \A j \in JobIds : jobs[j].state = "none"
      /\ \A d \in Deliveries : delivery[d].status = "none"
  BY DEF Init, IdleWorker
<1> QED BY <1>1 DEF OpenInv, Open, On, AtWork

(* Nothing that waits for d is new.                                          *)
LEMMA OpenKept ==
  ASSUME NEW d \in Deliveries, Open(d), delivery'[d].status = delivery[d].status,
         First(d)' = 1 => First(d) = 1,
         \A j \in JobIds : j[1] = d /\ jobs'[j].state = "queued" =>
           jobs[j].state = "queued" \/ delivery[d].status = "PENDING",
         \A w \in Workers : On(w, d, AtWork)' =>
           On(w, d, AtWork) \/ delivery[d].status = "PENDING"
  PROVE  Open(d)'
BY DEF Open

LEMMA PendingIsOpen == ASSUME NEW d, delivery'[d].status = "PENDING" PROVE Open(d)'
BY DEF Open

(* A step that adds no job keeps the first one.                              *)
LEMMA FirstKept ==
  ASSUME NEW d \in Deliveries, \A j \in JobIds : jobs[j].state # "none" => jobs'[j].state # "none"
  PROVE  First(d)' = 1 => First(d) = 1
<1>1. <<d, 1>> \in JobIds
  BY Constants DEF JobIds
<1> QED BY <1>1 DEF First

LEMMA AddedOpen ==
  ASSUME TypeInv, NEW id \in JobIds, AddJob(id), UNCHANGED delivery, NEW d \in Deliveries, Open(d),
         id[1] = d /\ jobs[id].state = "none" => delivery[d].status = "PENDING",
         \A w \in Workers : On(w, d, AtWork)' => On(w, d, AtWork)
  PROVE  Open(d)'
<1>1. /\ jobs \in [JobIds -> Job]
      /\ \A j \in JobIds : jobs'[j] # jobs[j] =>
           j = id /\ jobs[j].state = "none" /\ jobs'[j].state = "queued"
  BY Added DEF TypeInv, TypeOK
<1>2. First(d)' = 1 => First(d) = 1
  BY <1>1, FirstKept
<1> QED BY <1>1, <1>2, OpenKept

(* A worker that leaves d for good, alone at it.                             *)
LEMMA SettledOpen ==
  ASSUME TypeInv, JobsInv, ChainsInv, Undisturbed, NEW w \in Workers, NEW at,
         Goes(w, at), worker[w].at # "end", at \notin AtWork, UNCHANGED jobs,
         NEW d, d = worker[w].item
  PROVE  Open(d)'
<1>1. /\ \A v \in Workers \ {w} : worker[v].item = d => worker[v].at = "end"
      /\ \A j \in JobIds : j[1] = d => jobs[j].state # "queued"
      /\ First(d) = 0
  BY OneAttempt DEF Goes, Busy
<1>2. First(d)' = 0
  BY <1>1 DEF First
<1>3. \A v \in Workers : ~On(v, d, AtWork)'
  BY <1>1 DEF Goes, On, AtWork
<1> QED BY <1>1, <1>2, <1>3 DEF Open

LEMMA AttemptOpen ==
  ASSUME TypeInv, JobsInv, ChainsInv, Undisturbed, NEW w \in Workers, AttemptStep(w),
         NEW d \in Deliveries, Open(d)
  PROVE  Open(d)'
<1>1. /\ worker \in [Workers -> Worker] /\ delivery \in [Deliveries -> Delivery]
      /\ worker[w].at # "idle" /\ worker[w].item \in Deliveries
  BY ItemTypes
     DEF TypeInv, TypeOK, AttemptStep, Send, SendResults, RefuseHostname, FinalizeSuccess, RecordFailure,
         ScheduleAttempt, Abandon, CountFailure, EndJob
<1>2. ASSUME NEW at, Goes(w, at), UNCHANGED jobs, delivery'[d] = delivery[d],
             \/ d # worker[w].item
             \/ worker[w].at \in AtWork \/ at \notin AtWork
      PROVE  Open(d)'
  <2>1. First(d)' = 1 => First(d) = 1
    BY <1>2 DEF First
  <2>2. \A v \in Workers : On(v, d, AtWork)' => On(v, d, AtWork)
    BY <1>2 DEF Goes, On
  <2> QED BY <1>2, <2>1, <2>2, OpenKept
<1>3. CASE Send(w) \/ RefuseHostname(w)
  <2>1. UNCHANGED <<jobs, delivery>> /\ worker[w].at \in AtWork
    BY <1>3 DEF Send, SendResults, RefuseHostname, AtWork
  <2>2. \E at \in Ats : Goes(w, at)
    BY <1>1, <1>3, AttemptGoes DEF Ats
  <2> QED BY <1>2, <2>1, <2>2
<1>4. CASE FinalizeSuccess(w) \/ Abandon(w)
  <2>1. /\ UNCHANGED jobs /\ worker[w].at \in AtWork
        /\ \A c \in Deliveries \ {worker[w].item} : delivery'[c] = delivery[c]
    BY <1>1, <1>4 DEF FinalizeSuccess, Abandon, AtWork
  <2>2. PICK at \in {"count", "end"} : Goes(w, at)
    BY <1>1, <1>4, AttemptGoes
  <2>3. CASE d = worker[w].item
    BY <2>1, <2>2, <2>3, SettledOpen DEF AtWork
  <2>4. CASE d # worker[w].item
    BY <1>2, <2>1, <2>2, <2>4
  <2> QED BY <2>3, <2>4
<1>5. CASE RecordFailure(w)
  <2>1. /\ UNCHANGED jobs /\ worker[w].at \in AtWork /\ Goes(w, "schedule")
        /\ \A c \in Deliveries \ {worker[w].item} : delivery'[c] = delivery[c]
        /\ delivery'[worker[w].item].status = "PENDING"
    BY <1>1, <1>5, AttemptGoes DEF RecordFailure, AtWork, FailedOnce
  <2>2. CASE d = worker[w].item
    BY <2>1, <2>2, PendingIsOpen
  <2>3. CASE d # worker[w].item
    BY <1>2, <2>1, <2>3
  <2> QED BY <2>2, <2>3
<1>6. CASE ScheduleAttempt(w)
  <2>1. /\ AddJob(NextJob(w)) /\ NextJob(w) \in JobIds /\ NextJob(w)[1] = worker[w].item
        /\ UNCHANGED delivery /\ Goes(w, "end") /\ worker[w].at = "schedule"
    BY <1>1, <1>6, NextJobIsAnId, AttemptGoes DEF ScheduleAttempt, NextJob
  <2>2. d = worker[w].item => delivery[d].status = "PENDING"
    BY <2>1 DEF Open, On, AtWork
  <2>3. \A v \in Workers : On(v, d, AtWork)' => On(v, d, AtWork)
    BY <2>1 DEF Goes, On, AtWork
  <2> QED BY <2>1, <2>2, <2>3, AddedOpen
<1>7. CASE CountFailure(w)
  <2>1. UNCHANGED <<jobs, delivery>> /\ Goes(w, "end")
    BY <1>1, <1>7, AttemptGoes DEF CountFailure
  <2> QED BY <1>2, <2>1 DEF AtWork
<1>8. CASE EndJob(w)
  <2>1. Stops(w, "completed") /\ UNCHANGED delivery /\ JobOf(w) \in JobIds
    BY <1>1, <1>8, StopStops, ItemTypes DEF EndJob
  <2>2. \A v \in Workers : On(v, d, AtWork)' => On(v, d, AtWork)
    BY <2>1 DEF Stops, On, AtWork
  <2>3. \A j \in JobIds : /\ jobs'[j].state = "queued" => jobs[j].state = "queued"
                          /\ jobs[j].state # "none" => jobs'[j].state # "none"
    BY <2>1 DEF Stops
  <2>4. First(d)' = 1 => First(d) = 1
    BY <2>3, FirstKept
  <2> QED BY <2>1, <2>2, <2>3, <2>4, OpenKept
<1> QED BY <1>3, <1>4, <1>5, <1>6, <1>7, <1>8 DEF AttemptStep

LEMMA OpenedStep ==
  ASSUME TypeInv, JobsInv, ChainsInv, RowsInv, Undisturbed, Undisturbed', [Next]_vars,
         NEW d \in Deliveries, Open(d)
  PROVE  Open(d)'
<1>1. /\ delivery \in [Deliveries -> Delivery]
      /\ budget \in [retries : 0..MaxRetries, crashes : Nat, errors : Nat, edits : Nat]
      /\ MaxRetries \in Nat
  BY Constants DEF TypeInv, TypeOK
<1>2. ASSUME UNCHANGED <<jobs, worker>>, delivery'[d] = delivery[d] PROVE Open(d)'
  <2>1. First(d)' = 1 => First(d) = 1
    BY <1>2 DEF First
  <2>2. \A w \in Workers : On(w, d, AtWork)' => On(w, d, AtWork)
    BY <1>2 DEF On
  <2> QED BY <1>2, <2>1, <2>2, OpenKept
<1>3. ASSUME NEW v \in Events, Dispatch(v) PROVE Open(d)'
  BY <1>2, <1>3 DEF Dispatch, DispatchEvent, SendTestEvent, DispatchFails
<1>4. ASSUME NEW v \in Events, NEW e \in Endpoints, CreateDelivery(v, e) PROVE Open(d)'
  <2>1. CASE d = <<v, e>>
    BY <1>4, <2>1, CreatesOne, PendingIsOpen
  <2>2. CASE d # <<v, e>>
    <3>1. delivery'[d] = delivery[d]
      BY <1>4, <2>2, CreatesOne
    <3> QED BY <1>2, <1>4, <3>1 DEF CreateDelivery
  <2> QED BY <2>1, <2>2
<1>5. ASSUME NEW v \in Events, NEW e \in Endpoints, EnqueueFirst(v, e) PROVE Open(d)'
  <2> DEFINE id == <<<<v, e>>, 1>>
  <2>1. /\ id \in JobIds /\ id[1] = <<v, e>> /\ AddJob(id) /\ UNCHANGED <<delivery, worker>>
        /\ delivery[<<v, e>>].status # "none"
    BY <1>5, Constants DEF JobIds, Deliveries, EnqueueFirst
  <2>2. id[1] = d /\ jobs[id].state = "none" => delivery[d].status = "PENDING"
    BY <2>1 DEF Open, First
  <2>3. \A w \in Workers : On(w, d, AtWork)' => On(w, d, AtWork)
    BY <2>1 DEF On
  <2> HIDE DEF id
  <2> QED BY <2>1, <2>2, <2>3, AddedOpen
<1>6. ASSUME NEW w \in Workers, NEW id \in JobIds, StartAttempt(w, id) PROVE Open(d)'
  <2>1. UNCHANGED delivery /\ jobs[id].state = "queued"
    BY <1>6 DEF StartAttempt
  <2>2. \A j \in JobIds : /\ jobs'[j].state = "queued" => jobs[j].state = "queued"
                          /\ jobs[j].state # "none" => jobs'[j].state # "none"
    BY <1>6, StartTakes DEF Takes, Skips
  <2>3. First(d)' = 1 => First(d) = 1
    BY <2>2, FirstKept
  <2>4. \A v \in Workers : On(v, d, AtWork)' => On(v, d, AtWork) \/ delivery[d].status = "PENDING"
    <3>1. CASE Skips(id)
      BY <3>1 DEF Skips, On
    <3>2. CASE Takes(w, id)
      <4>1. id[1] = d => delivery[d].status = "PENDING"
        BY <2>1 DEF Open
      <4> QED BY <3>2, <4>1 DEF Takes, On
    <3> QED BY <1>6, <3>1, <3>2, StartTakes
  <2> QED BY <2>1, <2>2, <2>3, <2>4, OpenKept
<1>7. ASSUME NEW w \in Workers, FailAttempt(w) \/ CrashWorker(w) PROVE FALSE
  BY <1>1, <1>7 DEF FailAttempt, CrashWorker, Undisturbed, NoFaults
<1>8. ASSUME NEW e \in Endpoints, Edit(e) PROVE Open(d)'
  BY <1>2, <1>8 DEF Edit, SetEnabled, Remove
<1>9. ASSUME Retry PROVE FALSE
  <2>1. retrier.at = "idle"
    BY DEF ChainsInv, Undisturbed
  <2> QED
    BY <1>1, <1>9, <2>1 DEF Retry, CheckRetry, WriteRetry, AddRetry, RetryFails, Undisturbed
<1>10. CASE UNCHANGED vars
  BY <1>2, <1>10 DEF vars
<1> QED
  BY <1>3, <1>4, <1>5, <1>6, <1>7, <1>8, <1>9, <1>10, AttemptOpen
     DEF Next, EnqueueStep, Deliver

LEMMA StaysUndisturbed ==
  ASSUME TypeInv, [Next]_vars, Undisturbed'
  PROVE  Undisturbed
<1>1. /\ budget'.retries >= budget.retries /\ budget'.crashes >= budget.crashes
      /\ budget'.errors >= budget.errors
  BY BudgetGrows
<1>2. budget.retries \in Nat /\ budget.crashes \in Nat /\ budget.errors \in Nat
  BY Constants DEF TypeInv, TypeOK
<1> QED BY <1>1, <1>2 DEF Undisturbed, NoFaults

LEMMA OpenStep ==
  TypeInv /\ JobsInv /\ ChainsInv /\ RowsInv /\ OpenInv /\ [Next]_vars => OpenInv'
BY OpenedStep, StaysUndisturbed DEF OpenInv

-----------------------------------------------------------------------------
(* The promise of DeliveryPromise                                            *)

PromiseStep == [Promise!Next]_<<Statuses, Attempts, sent, Accepted, ~Undisturbed>>

(* The rows as the promise sees them, after one of them is written.          *)
LEMMA RowWritten ==
  ASSUME delivery \in [Deliveries -> Delivery], NEW d \in Deliveries, NEW row \in Delivery,
         delivery' = [delivery EXCEPT ![d] = row]
  PROVE  /\ Statuses' = [Statuses EXCEPT ![d] = row.status]
         /\ Attempts' = [Attempts EXCEPT ![d] = row.attempts]
         /\ Statuses[d] = delivery[d].status /\ Attempts[d] = delivery[d].attempts
         /\ Attempts'[d] = row.attempts
BY DEF Statuses, Attempts

LEMMA RowsAlone ==
  ASSUME UNCHANGED delivery
  PROVE  UNCHANGED <<Statuses, Attempts>>
BY DEF Statuses, Attempts

(* A step that does not touch the rows, sends nothing and moves no worker    *)
(* that has an answer 2xx.                                                   *)
LEMMA Unseen ==
  ASSUME UNCHANGED <<delivery, sent>>, Undisturbed' = Undisturbed, Accepted' = Accepted
  PROVE  PromiseStep
BY RowsAlone DEF PromiseStep

(* A step along an attempt changes the answers of its own delivery only.     *)
LEMMA AnswersOf ==
  ASSUME NEW w \in Workers, NEW at, Goes(w, at)
  PROVE  /\ worker[w].at # "success" /\ at # "success" => Accepted' = Accepted
         /\ worker[w].at # "success" /\ at = "success" /\ worker[w].item \in Deliveries =>
              Accepted' = Accepted \cup {worker[w].item}
         /\ at # "success" => Accepted' \in {Accepted, Accepted \ {worker[w].item}}
<1>1. /\ worker'[w].at = at /\ worker'[w].item = worker[w].item
      /\ \A v \in Workers \ {w} : worker'[v] = worker[v]
  BY DEF Goes
<1>2. ASSUME worker[w].at # "success", at # "success" PROVE Accepted' = Accepted
  BY <1>1, <1>2 DEF Accepted
<1>3. ASSUME worker[w].at # "success", at = "success", worker[w].item \in Deliveries
      PROVE  Accepted' = Accepted \cup {worker[w].item}
  BY <1>1, <1>3 DEF Accepted
<1>4. ASSUME at # "success" PROVE Accepted' \in {Accepted, Accepted \ {worker[w].item}}
  <2>1. Accepted' \subseteq Accepted
    BY <1>1, <1>4 DEF Accepted
  <2>2. Accepted \ {worker[w].item} \subseteq Accepted'
    BY <1>1, <1>4 DEF Accepted
  <2> QED BY <2>1, <2>2
<1> QED BY <1>2, <1>3, <1>4

(* Without faults and manual retries, who has a request to make or an        *)
(* outcome to store is alone with its delivery.                              *)
LEMMA AloneAtWork ==
  ASSUME TypeInv, JobsInv, ChainsInv, RecordInv, OpenInv, Undisturbed, NEW w \in Workers,
         worker[w].at \in {"send", "success", "failure", "abandon"},
         NEW d, d = worker[w].item
  PROVE  /\ d \in Deliveries /\ delivery[d].status = "PENDING"
         /\ d \in Accepted => worker[w].at = "success"
         /\ worker[w].at = "send" => sent[d] <= delivery[d].attempts
                                     /\ delivery[d].attempts < MaxDeliveryAttempts
         /\ worker[w].at # "send" => sent[d] <= worker[w].attempt
                                     /\ worker[w].attempt <= MaxDeliveryAttempts
<1>1. d \in Deliveries /\ worker[w].at # "idle"
  BY ItemTypes
<1>2. Recorded(d) /\ Open(d)
  BY <1>1 DEF RecordInv, OpenInv
<1>3. delivery[d].status = "PENDING"
  BY <1>2 DEF Open, On, AtWork
<1>4. d \in Accepted => worker[w].at = "success"
  BY <1>1, OneAttempt DEF Accepted, Busy
<1>5. worker[w].at = "send" => sent[d] <= delivery[d].attempts
                               /\ delivery[d].attempts < MaxDeliveryAttempts
  BY <1>2, AtSend DEF Recorded, On
<1>6. worker[w].at # "send" => sent[d] <= worker[w].attempt
                               /\ worker[w].attempt <= MaxDeliveryAttempts
  BY <1>2, AtOutcome DEF Outcomes
<1> QED BY <1>1, <1>3, <1>4, <1>5, <1>6

LEMMA SendKeepsPromise ==
  ASSUME TypeInv, JobsInv, ChainsInv, RecordInv, RowsInv, OpenInv, NEW w \in Workers, Send(w)
  PROVE  PromiseStep
<1> DEFINE d == worker[w].item
<1>1. /\ worker \in [Workers -> Worker] /\ delivery \in [Deliveries -> Delivery]
      /\ sent \in [Deliveries -> Nat]
  BY DEF TypeInv, TypeOK
<1>2. /\ d \in Deliveries /\ worker[w].at = "send" /\ delivery[d].status # "none"
      /\ sent' = [sent EXCEPT ![d] = @ + 1]
      /\ UNCHANGED <<delivery, budget>>
  BY BusyAnnounced DEF Send, SendResults, Announced
<1>3. PICK at \in {"success", "failure", "abandon"} : Goes(w, at)
  BY <1>1, AttemptGoes
<1>4. Accepted' \in {Accepted, Accepted \cup {d}}
  BY <1>2, <1>3, AnswersOf
<1>5. Statuses[d] = delivery[d].status /\ Attempts[d] = delivery[d].attempts
  BY <1>2 DEF Statuses, Attempts
<1>6. Undisturbed => /\ Statuses[d] = "PENDING" /\ d \notin Accepted
                     /\ sent[d] <= Attempts[d] /\ Attempts[d] < MaxDeliveryAttempts
  BY <1>2, <1>5, AloneAtWork
<1>7. UNCHANGED <<Statuses, Attempts>> /\ Undisturbed' = Undisturbed
  BY <1>2, RowsAlone DEF Undisturbed, NoFaults
<1>8. Promise!Request(d)
  BY <1>2, <1>4, <1>5, <1>6, <1>7 DEF Promise!Request
<1> QED BY <1>2, <1>8 DEF PromiseStep, Promise!Next

LEMMA OutcomeKeepsPromise ==
  ASSUME TypeInv, JobsInv, ChainsInv, RecordInv, RowsInv, OpenInv, NEW w \in Workers,
         FinalizeSuccess(w) \/ RecordFailure(w) \/ Abandon(w)
  PROVE  PromiseStep
<1> DEFINE d == worker[w].item
<1>1. /\ worker \in [Workers -> Worker] /\ delivery \in [Deliveries -> Delivery]
      /\ sent \in [Deliveries -> Nat]
  BY DEF TypeInv, TypeOK
<1>2. /\ d \in Deliveries /\ delivery[d].status # "none" /\ worker[w].attempt \in Nat
      /\ worker[w].at \in {"success", "failure", "abandon"} /\ UNCHANGED <<sent, budget>>
  BY BusyAnnounced, ItemTypes DEF FinalizeSuccess, RecordFailure, Abandon, Announced
<1>3. PICK s \in {"PENDING", "DELIVERED", "ABANDONED"} :
        /\ delivery' = [delivery EXCEPT ![d] = [status |-> s, attempts |-> worker[w].attempt]]
        /\ s = "DELIVERED" <=> worker[w].at = "success"
  BY DEF FinalizeSuccess, RecordFailure, Abandon, FailedOnce, GivenUp
<1>4. PICK at \in {"end", "schedule", "count"} : Goes(w, at)
  BY <1>1, AttemptGoes
<1>5. Accepted' \in {Accepted, Accepted \ {d}}
  BY <1>4, AnswersOf
<1>6. worker[w].at = "success" => d \in Accepted
  BY <1>2 DEF Accepted
<1>7. /\ Statuses' = [Statuses EXCEPT ![d] = s]
      /\ Attempts' = [Attempts EXCEPT ![d] = worker[w].attempt]
      /\ Statuses[d] = delivery[d].status /\ Attempts'[d] = worker[w].attempt
  <2>1. [status |-> s, attempts |-> worker[w].attempt] \in Delivery
    BY <1>2 DEF Delivery
  <2> QED BY <1>1, <1>2, <1>3, <2>1, RowWritten
<1>8. Undisturbed => /\ Statuses[d] = "PENDING" /\ (d \in Accepted => s = "DELIVERED")
                     /\ sent[d] <= worker[w].attempt
                     /\ worker[w].attempt <= MaxDeliveryAttempts
  BY <1>2, <1>3, <1>7, AloneAtWork
<1>9. Undisturbed' = Undisturbed
  BY <1>2 DEF Undisturbed, NoFaults
<1> HIDE DEF d
<1>10. Promise!Record(d, s)
  BY <1>2, <1>3, <1>5, <1>6, <1>7, <1>8, <1>9 DEF Promise!Record
<1> QED BY <1>2, <1>10 DEF PromiseStep, Promise!Next

(* Faults and manual retries.                                                *)
LEMMA FaultKeepsPromise ==
  ASSUME TypeInv, [Next]_vars, UNCHANGED <<delivery, sent>>, ~Undisturbed',
         Accepted' \subseteq Accepted
  PROVE  PromiseStep
BY RowsAlone DEF PromiseStep, Promise!Next, Promise!Disturb

LEMMA RetryKeepsPromise ==
  ASSUME TypeInv, ChainsInv, RowsInv, WriteRetry
  PROVE  PromiseStep
<1> DEFINE d == retrier.item
<1>1. /\ delivery \in [Deliveries -> Delivery] /\ d \in Deliveries
      /\ delivery[d].status # "none" /\ ~Undisturbed
      /\ UNCHANGED <<sent, budget, worker>>
      /\ delivery' = [delivery EXCEPT ![d].status = "PENDING"]
  BY DEF WriteRetry, TypeInv, TypeOK, RowsInv, RowsKnown, Announced, ChainsInv, Undisturbed
<1>2. Statuses' = [Statuses EXCEPT ![d] = "PENDING"] /\ Attempts' = Attempts
      /\ Statuses[d] = delivery[d].status
  BY <1>1 DEF Statuses, Attempts, Delivery
<1>3. Accepted' = Accepted /\ ~Undisturbed'
  BY <1>1 DEF Accepted, Undisturbed, NoFaults
<1> HIDE DEF d
<1> QED BY <1>1, <1>2, <1>3 DEF PromiseStep, Promise!Next, Promise!Reopen

(* Every step of the module is a step of the promise or is not seen by it.   *)
LEMMA StepKeepsPromise ==
  ASSUME TypeInv, JobsInv, ChainsInv, RecordInv, RowsInv, OpenInv, [Next]_vars
  PROVE  PromiseStep
<1>1. /\ worker \in [Workers -> Worker] /\ delivery \in [Deliveries -> Delivery]
      /\ budget \in [retries : 0..MaxRetries, crashes : Nat, errors : Nat, edits : Nat]
      /\ MaxRetries \in Nat
  BY Constants DEF TypeInv, TypeOK
<1>2. ASSUME UNCHANGED <<delivery, sent, worker, budget>> PROVE PromiseStep
  BY <1>2, Unseen DEF Accepted, Undisturbed, NoFaults
<1>3. ASSUME UNCHANGED <<delivery, sent, budget>>, Accepted' = Accepted PROVE PromiseStep
  BY <1>3, Unseen DEF Undisturbed, NoFaults
<1>4. ASSUME UNCHANGED <<delivery, sent, worker>>, ~Undisturbed' PROVE PromiseStep
  BY <1>4, FaultKeepsPromise DEF Accepted
<1>5. ASSUME NEW v \in Events, Dispatch(v) PROVE PromiseStep
  <2>1. CASE DispatchFails(v)
    <3>1. ~Undisturbed'
      BY <1>1, <2>1 DEF DispatchFails, Undisturbed, NoFaults
    <3> QED BY <1>4, <2>1, <3>1 DEF DispatchFails
  <2>2. CASE ~DispatchFails(v)
    BY <1>2, <1>5, <2>2 DEF Dispatch, DispatchEvent, SendTestEvent
  <2> QED BY <2>1, <2>2
<1>6. ASSUME NEW v \in Events, NEW e \in Endpoints, CreateDelivery(v, e) PROVE PromiseStep
  <2> DEFINE d == <<v, e>>
  <2>1. d \in Deliveries /\ delivery[d].status = "none"
    BY <1>6, CreatesOne DEF Announced
  <2>2. /\ Statuses' = [Statuses EXCEPT ![d] = "PENDING"] /\ Attempts' = Attempts
        /\ Statuses[d] = "none"
    BY <1>1, <1>6, <2>1, CreatesOne DEF Statuses, Attempts
  <2>3. UNCHANGED sent /\ Accepted' = Accepted /\ Undisturbed' = Undisturbed
    BY <1>6 DEF CreateDelivery, Accepted, Undisturbed, NoFaults
  <2> HIDE DEF d
  <2> QED BY <2>1, <2>2, <2>3 DEF PromiseStep, Promise!Next, Promise!Announce
<1>7. ASSUME NEW v \in Events, NEW e \in Endpoints, EnqueueFirst(v, e) PROVE PromiseStep
  BY <1>2, <1>7 DEF EnqueueFirst
<1>8. ASSUME NEW w \in Workers, NEW id \in JobIds, StartAttempt(w, id) PROVE PromiseStep
  <2>1. UNCHANGED <<delivery, sent, budget>>
    BY <1>8 DEF StartAttempt
  <2>2. Accepted' = Accepted
    <3>1. CASE Skips(id)
      BY <3>1 DEF Skips, Accepted
    <3>2. CASE Takes(w, id)
      BY <3>2 DEF Takes, Accepted
    <3> QED BY <1>8, <3>1, <3>2, StartTakes
  <2> QED BY <1>3, <2>1, <2>2
<1>9. ASSUME NEW w \in Workers, AttemptStep(w) PROVE PromiseStep
  <2>1. CASE RefuseHostname(w) \/ ScheduleAttempt(w) \/ CountFailure(w)
    <3>1. UNCHANGED <<delivery, sent, budget>> /\ worker[w].at # "success"
      BY <2>1 DEF RefuseHostname, ScheduleAttempt, CountFailure
    <3>2. \E at \in {"abandon", "end"} : Goes(w, at)
      BY <1>1, <2>1, AttemptGoes
    <3> QED BY <1>3, <3>1, <3>2, AnswersOf
  <2>2. CASE EndJob(w)
    <3>1. /\ UNCHANGED <<delivery, sent, budget>> /\ Stops(w, "completed")
          /\ worker[w].at = "end"
      BY <2>2, StopStops DEF EndJob
    <3>2. Accepted' = Accepted
      BY <3>1 DEF Stops, Accepted
    <3> QED BY <1>3, <3>1, <3>2
  <2> QED BY <1>9, <2>1, <2>2, SendKeepsPromise, OutcomeKeepsPromise DEF AttemptStep
<1>10. ASSUME NEW w \in Workers, FailAttempt(w) \/ CrashWorker(w) PROVE PromiseStep
  <2>1. UNCHANGED <<delivery, sent>> /\ ~Undisturbed'
    BY <1>1, <1>10 DEF FailAttempt, CrashWorker, Undisturbed, NoFaults
  <2>2. \E state \in {"failed", "queued"} : Stops(w, state)
    BY <1>10, StopStops
  <2>3. Accepted' \subseteq Accepted
    BY <2>2 DEF Stops, Accepted
  <2> QED BY <2>1, <2>3, FaultKeepsPromise
<1>11. ASSUME NEW e \in Endpoints, Edit(e) PROVE PromiseStep
  <2>1. UNCHANGED <<delivery, sent, worker>> /\ Undisturbed' = Undisturbed
    BY <1>1, <1>11 DEF Edit, SetEnabled, Remove, Undisturbed, NoFaults
  <2> QED BY <2>1, Unseen DEF Accepted
<1>12. ASSUME Retry PROVE PromiseStep
  <2>1. CASE \E d \in Deliveries : CheckRetry(d)
    <3>1. UNCHANGED <<delivery, sent, worker>> /\ ~Undisturbed'
      BY <1>1, <2>1 DEF CheckRetry, Undisturbed
    <3> QED BY <1>4, <3>1
  <2>2. CASE AddRetry
    BY <1>2, <2>2 DEF AddRetry
  <2>3. CASE RetryFails
    <3>1. UNCHANGED <<delivery, sent, worker>> /\ ~Undisturbed'
      BY <1>1, <2>3 DEF RetryFails, Undisturbed, NoFaults
    <3> QED BY <1>4, <3>1
  <2> QED BY <1>12, <2>1, <2>2, <2>3, RetryKeepsPromise DEF Retry
<1>13. CASE UNCHANGED vars
  BY <1>2, <1>13 DEF vars
<1> QED
  BY <1>5, <1>6, <1>7, <1>8, <1>9, <1>10, <1>11, <1>12, <1>13 DEF Next, EnqueueStep, Deliver

-----------------------------------------------------------------------------
(* The invariant and what follows from it                                    *)

Inv == TypeInv /\ JobsInv /\ ChainsInv /\ RecordInv /\ DisableInv /\ RowsInv /\ OpenInv

LEMMA InvAlways == Spec => []Inv
<1>1. Init => Inv
  BY TypeInit, JobsInit, ChainsInit, RecordInit, DisableInit, RowsInit, OpenInit DEF Inv
<1>2. Inv /\ [Next]_vars => Inv'
  BY TypeStep, JobsStep, ChainsStep, RecordStep, DisableStep, RowsStep, OpenStep DEF Inv
<1> QED BY <1>1, <1>2, PTL DEF Spec

(* At any time a delivery has one queued job or one worker at it, and one    *)
(* more for each manual retry and each worker that died: whatever the        *)
(* attempts queue themselves never doubles (attempts: 1 on the queue, one    *)
(* job id per attempt).                                                      *)
THEOREM OneChainEach == Spec => []ChainsBounded
<1>1. ASSUME Inv, NEW d \in Deliveries
      PROVE  Cardinality(Chains(d)) <= 1 + budget.retries + budget.crashes
  <2>1. TypeInv /\ Within(d)
    BY <1>1 DEF Inv, ChainsInv
  <2> QED BY <2>1, WithinTypes DEF Within
<1>2. Inv => ChainsBounded
  BY <1>1 DEF ChainsBounded
<1> QED BY <1>2, InvAlways, PTL

(* Without faults and manual retries, the endpoint gets no more requests     *)
(* than the attempts on record and the one whose outcome is being stored,    *)
(* and never more than MAX_DELIVERY_ATTEMPTS: the number doProcess reads     *)
(* from the row and adds one to is never that of an attempt already made.    *)
THEOREM SendsAreRecorded == Spec => []SendsOnRecord
<1>1. ASSUME Inv, Undisturbed, NEW d \in Deliveries
      PROVE  /\ sent[d] <= delivery[d].attempts + Cardinality(Unrecorded(d))
             /\ sent[d] <= MaxDeliveryAttempts
  <2>1. Recorded(d) /\ delivery[d].attempts \in Nat /\ sent[d] \in Nat
    BY <1>1 DEF Inv, RecordInv, TypeInv, TypeOK, Delivery
  <2>2. IsFiniteSet(Unrecorded(d)) /\ Cardinality(Unrecorded(d)) \in Nat
    <3>1. Unrecorded(d) \subseteq Workers
      BY DEF Unrecorded
    <3> QED BY <3>1, Constants, FS_Subset, FS_CardinalityType
  <2>3. CASE \E w \in Workers : On(w, d, Outcomes)
    <3>1. PICK w \in Workers : On(w, d, Outcomes)
      BY <2>3
    <3>2. w \in Unrecorded(d)
      BY <3>1 DEF On, Outcomes, Unrecorded
    <3>3. Cardinality(Unrecorded(d)) # 0
      BY <2>2, <3>2, FS_EmptySet
    <3>4. sent[d] <= delivery[d].attempts + 1
      BY <2>1, <3>1 DEF Recorded
    <3> QED BY <2>1, <2>2, <3>3, <3>4 DEF Recorded
  <2>4. CASE \A w \in Workers : ~On(w, d, Outcomes)
    <3>1. sent[d] <= delivery[d].attempts
      BY <2>1, <2>4 DEF Recorded
    <3> QED BY <2>1, <2>2, <3>1 DEF Recorded
  <2> QED BY <2>3, <2>4
<1>2. Inv => SendsOnRecord
  BY <1>1 DEF SendsOnRecord
<1> QED BY <1>2, InvAlways, PTL

(* Without faults, an endpoint that let AUTO_DISABLE_AFTER_CONSECUTIVE_-     *)
(* FAILURES deliveries in a row be given up is off once they are counted,    *)
(* however many workers count at once and whatever the user edits.           *)
THEOREM FailingIsOff == Spec => []SustainedFailuresDisable
<1>1. Inv => SustainedFailuresDisable
  BY DEF Inv, DisableInv, OffInTime, SustainedFailuresDisable
<1> QED BY <1>1, InvAlways, PTL

(* The webhooks keep the promise of DeliveryPromise: a delivery is on record *)
(* as made only if the endpoint answered 2xx, and, without faults and manual *)
(* retries, requests of it follow one another until it is settled, none      *)
(* after that answer (doProcess, finalizeSuccess, finalizeFailure).          *)
THEOREM DeliveriesAsPromised == Spec => KeepsDeliveryPromise
<1>1. Init => Promise!Init
  BY DEF Init, Promise!Init, Statuses, Attempts, Accepted, IdleWorker, Undisturbed, NoFaults
<1>2. Inv /\ [Next]_vars => PromiseStep
  BY StepKeepsPromise DEF Inv
<1> QED
  BY InvAlways, <1>1, <1>2, PTL DEF Spec, KeepsDeliveryPromise, Promise!Spec, PromiseStep
=============================================================================
