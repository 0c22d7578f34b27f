----------------------------- MODULE MCSessions -----------------------------
(***************************************************************************)
(* Model-checking instances of Sessions.  Its run checks a liveness        *)
(* property, so it uses no symmetry.                                       *)
(***************************************************************************)
EXTENDS Sessions
=============================================================================
