------------------------- MODULE MCAndroidSyncQueue -------------------------
(***************************************************************************)
(* Model-checking instances of AndroidSyncQueue.  The items are            *)
(* interchangeable: the run without a liveness property uses their         *)
(* permutations as a symmetry.                                             *)
(***************************************************************************)
EXTENDS AndroidSyncQueue

Symmetry == Permutations(Items)
=============================================================================
