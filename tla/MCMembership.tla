---------------------------- MODULE MCMembership ----------------------------
(***************************************************************************)
(* Model-checking instances of Membership.  Requests and invitations are   *)
(* interchangeable; people are not, since one of them founded the tenant.  *)
(***************************************************************************)
EXTENDS Membership, TLC

Symmetry == Permutations(Requests) \cup Permutations(Invitations)
=============================================================================
