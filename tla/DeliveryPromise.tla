--------------------------- MODULE DeliveryPromise --------------------------
(***************************************************************************)
(* What the outgoing webhooks promise, without jobs, workers or            *)
(* dispatchers.  A delivery is announced once; it is on record as made     *)
(* only if the endpoint accepted a request of it.  As long as nothing      *)
(* failed and nobody retried by hand, requests follow one another, each    *)
(* only when the ones before it are on record, and what is settled stays   *)
(* settled: after an answer 2xx the endpoint gets nothing more.            *)
(***************************************************************************)
EXTENDS Naturals

CONSTANTS Deliveries, MaxAttempts

VARIABLES
  status,     \* of each delivery
  attempts,   \* on record for each delivery
  requests,   \* made of each delivery
  accepted,   \* deliveries with an answer 2xx that is not on record yet
  disturbed   \* something failed, or a delivery was retried by hand

Init ==
  /\ status = [d \in Deliveries |-> "none"]
  /\ attempts = [d \in Deliveries |-> 0]
  /\ requests = [d \in Deliveries |-> 0]
  /\ accepted = {}
  /\ disturbed = FALSE

Announce(d) ==
  /\ status[d] = "none"
  /\ status' = [status EXCEPT ![d] = "PENDING"]
  /\ UNCHANGED <<attempts, requests, accepted, disturbed>>

Request(d) ==
  /\ status[d] # "none"
  /\ disturbed \/ /\ status[d] = "PENDING" /\ d \notin accepted
                  /\ requests[d] <= attempts[d] /\ attempts[d] < MaxAttempts
  /\ requests' = [requests EXCEPT ![d] = @ + 1]
  /\ accepted' \in {accepted, accepted \cup {d}}
  /\ UNCHANGED <<status, attempts, disturbed>>

(* The outcome of an attempt: the row gets a status and a number of         *)
(* attempts that covers the requests made.                                  *)
Record(d, s) ==
  /\ status[d] # "none"
  /\ s = "DELIVERED" => d \in accepted
  /\ status' = [status EXCEPT ![d] = s]
  /\ attempts'[d] \in Nat
  /\ attempts' = [attempts EXCEPT ![d] = attempts'[d]]
  /\ disturbed \/ /\ status[d] = "PENDING" /\ (d \in accepted => s = "DELIVERED")
                  /\ requests[d] <= attempts'[d] /\ attempts'[d] <= MaxAttempts
  /\ accepted' \in {accepted, accepted \ {d}}
  /\ UNCHANGED <<requests, disturbed>>

(* A manual retry.                                                          *)
Reopen(d) ==
  /\ disturbed
  /\ status[d] # "none"
  /\ status' = [status EXCEPT ![d] = "PENDING"]
  /\ UNCHANGED <<attempts, requests, accepted, disturbed>>

(* Whoever had the answer may be gone.                                      *)
Disturb ==
  /\ disturbed' = TRUE
  /\ accepted' \subseteq accepted
  /\ UNCHANGED <<status, attempts, requests>>

Next ==
  \/ \E d \in Deliveries : Announce(d) \/ Request(d) \/ Reopen(d)
  \/ \E d \in Deliveries, s \in {"PENDING", "DELIVERED", "ABANDONED"} : Record(d, s)
  \/ Disturb

Spec == Init /\ [][Next]_<<status, attempts, requests, accepted, disturbed>>
=============================================================================
