------------------------------ MODULE MCDispatch ------------------------------
(* Model-checking instances of Dispatch: the cfgs give every constant.       *)
EXTENDS Dispatch
=============================================================================
