---------------------------- MODULE MCSchedules ----------------------------
(* Schedules on small instances.                                           *)
EXTENDS Schedules
=============================================================================
