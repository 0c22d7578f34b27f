------------------------------ MODULE MCCaches ------------------------------
(***************************************************************************)
(* Model-checking instances of Caches.  Its run checks a liveness property,*)
(* so it uses no symmetry.                                                 *)
(***************************************************************************)
EXTENDS Caches
=============================================================================
