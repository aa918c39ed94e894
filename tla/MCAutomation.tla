---------------------------- MODULE MCAutomation ----------------------------
(* Automation on a small instance: two jobs to be reviewed beside a quote.   *)
EXTENDS Automation
=============================================================================
