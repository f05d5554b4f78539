------------------------------ MODULE MCReplan ------------------------------
(* Model-checking instances of Replan; the cfgs give the remaining constants. *)
EXTENDS Replan

MCSettings == {[auto |-> TRUE, fixed |-> FALSE], [auto |-> FALSE, fixed |-> TRUE]}
MCBoost  == {0, 1}
=============================================================================
