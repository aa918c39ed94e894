----------------------------- MODULE MCCalendar -----------------------------
(* Calendar on a small instance: one job, two members of staff. *)
EXTENDS Calendar

=============================================================================
