---------------------------- MODULE QuotaPromise ----------------------------
(***************************************************************************)
(* What the trial quota promises, without buckets, transactions or queues: *)
(* every unit is held by one accepted notification, and is either charged  *)
(* for its payment or given back, and the units held and charged together  *)
(* never pass the limit.                                                   *)
(***************************************************************************)
EXTENDS Naturals, FiniteSets

CONSTANTS Notifications, Limit

VARIABLES
  held,     \* accepted, not yet interpreted
  charged   \* turned into a payment that counts

Init == held = {} /\ charged = {}

(* A batch is accepted only as far as the limit allows.                     *)
Accept(batch) ==
  /\ batch \cap (held \cup charged) = {}
  /\ Cardinality(held \cup charged \cup batch) <= Limit
  /\ held' = held \cup batch
  /\ UNCHANGED charged

Charge(n) ==
  /\ n \in held
  /\ held' = held \ {n}
  /\ charged' = charged \cup {n}

GiveBack(n) ==
  /\ n \in held
  /\ held' = held \ {n}
  /\ UNCHANGED charged

Next ==
  \/ \E batch \in SUBSET Notifications : Accept(batch)
  \/ \E n \in Notifications : Charge(n) \/ GiveBack(n)

Spec == Init /\ [][Next]_<<held, charged>>
=============================================================================
