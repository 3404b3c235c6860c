------------------------------ MODULE MCSchedule ------------------------------
(***************************************************************************)
(* An instance of Schedule: one run, or one every three ticks.             *)
(***************************************************************************)
EXTENDS Schedule

MCIntervals == {0, 3}
=============================================================================
