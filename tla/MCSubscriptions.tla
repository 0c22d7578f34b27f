-------------------------- MODULE MCSubscriptions ---------------------------
(***************************************************************************)
(* Model-checking instances of Subscriptions: the monthly limits of the    *)
(* plans, small enough that a few transactions cross them.                 *)
(***************************************************************************)
EXTENDS Subscriptions

Limits == [TRIAL |-> 5, FREE |-> 1, NEGOCIO |-> Unlimited, COMERCIO |-> 3]
=============================================================================
