--------------------------- MODULE IngestInvariants ---------------------------
(***************************************************************************)
(* The inductive invariants behind the theorems about IngestPipeline: what *)
(* has to be true of rows, workers, requests and administrators together   *)
(* for each property to survive every step.                                *)
(***************************************************************************)
EXTENDS IngestPipeline

Stored(n) == parseStatus[n] # "absent"

(* Whatever a worker, an administrator, a transaction or the response to    *)
(* the phone is about is a row of raw_notifications, which is never         *)
(* deleted once its insertion has committed.                                *)
OnlyStoredRows ==
  /\ \A n \in transactions : Stored(n)
  /\ \A w \in Workers : Busy(w) => Stored(worker[w].item)
  /\ \A a \in Admins : \A n \in admin[a].rows : Stored(n)
  /\ \A r \in Requests : request[r].at = "enqueue" =>
       /\ \A n \in request[r].accepted : Stored(n)
       /\ \A n \in request[r].toEnqueue : Stored(n)
  /\ AckedIsStored

(* As long as the tenant is in the trial, every stored row carries the day  *)
(* it was reserved on, and every commit under way has read the trial.       *)
TrialRowsReserved ==
  subscription.plan = "TRIAL" =>
    /\ \A n \in Notifications : Stored(n) => quotaWindow[n] # NoDay
    /\ \A w \in Workers : worker[w].at = "commit" => worker[w].sub.plan = "TRIAL"

UsedInv == TypeOK /\ OnlyStoredRows /\ TrialRowsReserved /\ UsedMatchesTransactions

(* A worker about to publish is the only one for its payment, which is on   *)
(* record and not yet announced.                                            *)
Publishing(w) == worker[w].at = "publish"
PublishInv ==
  /\ PublishedOnce
  /\ \A w \in Workers : Publishing(w) =>
       worker[w].item \in transactions /\ published[worker[w].item] = 0
  /\ \A v, w \in Workers :
       Publishing(v) /\ Publishing(w) /\ worker[v].item = worker[w].item => v = w

(* A commit under way has read no end of the trial that is not still there: *)
(* once stored, the reason is never taken back.                             *)
EndReadIsThere ==
  \A w \in Workers : worker[w].at = "commit" /\ worker[w].sub.trialEnd # "none" =>
    subscription.trialEnd # "none"

ClosedInv ==
  /\ TypeOK
  /\ OnlyStoredRows
  /\ TrialRowsReserved
  /\ EndReadIsThere
  /\ TrialClosedAtTotal

-----------------------------------------------------------------------------
(* Without reprocessing and without lost locks *)

(* Nobody reprocesses, and a busy worker holds the only lock on its job.    *)
OneRunPerRow ==
  /\ \A a \in Admins : admin[a].at = "idle"
  /\ \A w \in Workers :
       Busy(w) => jobs[JobOf(w)].state = "active" /\ jobs[JobOf(w)].owner = w

(* The row's status follows the run that handles it.                        *)
StatusFollowsRun ==
  /\ TransactionIsParsed
  /\ \A w \in Workers :
       /\ worker[w].at \in {"matched", "unmatched", "commit"} =>
            parseStatus[worker[w].item] = "PENDING"
       /\ worker[w].at = "release" => parseStatus[worker[w].item] = "UNMATCHED"

(* A row that is not stored has no reservation.                             *)
AbsentUnreserved == \A n \in Notifications : ~Stored(n) => quotaWindow[n] = NoDay

(* A commit that has read the trial is for a row that holds a reservation.  *)
TrialCommitReserved ==
  \A w \in Workers : worker[w].at = "commit" /\ worker[w].sub.plan = "TRIAL" =>
    quotaWindow[worker[w].item] # NoDay

HeldOn(d) == {n \in Held : quotaWindow[n] = d}

(* Every row still to be settled holds a unit, whatever the plan is by now. *)
UnitsHeld ==
  /\ totalReserved >= Cardinality(Held)
  /\ \A d \in Days : dayReserved[d] >= Cardinality(HeldOn(d))

QuotaInv ==
  /\ TypeOK
  /\ OnlyStoredRows
  /\ TrialRowsReserved
  /\ OneRunPerRow
  /\ StatusFollowsRun
  /\ AbsentUnreserved
  /\ TrialCommitReserved
  /\ UnitsHeld
  /\ QuotaWithinLimits
=============================================================================
