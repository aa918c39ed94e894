------------------------------ MODULE MCBilling ------------------------------
(* Billing on small instances: one sender and two webhook deliveries that   *)
(* overlap; the configurations say what is sold and how events arrive.      *)
EXTENDS Billing
=============================================================================
