----------------------------- MODULE MCVacation -----------------------------
(* Model-checking instances of Vacation; the cfgs give the constants. *)
EXTENDS Vacation
=============================================================================
