---------------------------- MODULE MCMessaging ----------------------------
(* Messaging on a small instance: two messages that arrive as events and one *)
(* a request may send, on a channel nobody serves; the first two are billed. *)
EXTENDS Messaging
=============================================================================
