---------------------------- MODULE MCFoxSchedule ----------------------------
(* Model-checking instance of FoxSchedule: two plans to tell apart. *)
EXTENDS FoxSchedule

CONSTANTS p1, p2

MCPlans == {p1, p2}
=============================================================================
