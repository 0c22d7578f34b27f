-------------------------- MODULE MCDevicePresence --------------------------
(***************************************************************************)
(* Model-checking instances of DevicePresence.  Its run checks liveness    *)
(* properties, so it uses no symmetry.                                     *)
(***************************************************************************)
EXTENDS DevicePresence
=============================================================================
