----------------------------- MODULE MCScheduler -----------------------------
(***************************************************************************)
(* Instances of Scheduler for TLC: three rows of two applications.  Row 3  *)
(* shares its application with row 1, so that a batch, an abandoned row    *)
(* and a newer row of the same application can meet.                       *)
(***************************************************************************)
EXTENDS SchedulerInvariant

MCRows == 1..3
MCTwoRows == 1..2
MCNoRow == 0
MCAppOf == <<"a", "b", "a">>

(* A limited batch, a step without a limit, and the first application      *)
(* again with another limit.                                               *)
MCSteps == <<[app |-> "a", limit |-> 1], [app |-> "b", limit |-> 0],
             [app |-> "a", limit |-> 2]>>
MCShortSteps == <<[app |-> "a", limit |-> 2], [app |-> "b", limit |-> 1]>>
=============================================================================
