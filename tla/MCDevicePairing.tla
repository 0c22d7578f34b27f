-------------------------- MODULE MCDevicePairing ---------------------------
(***************************************************************************)
(* Model-checking instances of DevicePairing: two codes of the first tenant*)
(* and one of the second; the first tenant's trial identities are always   *)
(* enforced, the second's are observed or enforced.  Requests and          *)
(* installation keys are interchangeable.                                  *)
(***************************************************************************)
EXTENDS DevicePairing, TLC

CONSTANTS t1, t2, c1, c2, c3, r1, r2, r3

CodesOf == (c1 :> t1) @@ (c2 :> t1) @@ (c3 :> t2)
Modes == {(t1 :> "ENFORCE") @@ (t2 :> m) : m \in {"OBSERVE", "ENFORCE"}}
Symmetry == Permutations(Requests) \cup Permutations(Keys)
=============================================================================
